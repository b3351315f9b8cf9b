------------------------ MODULE AuthenticationProofs ------------------------
(***************************************************************************)
(* What TLAPS proves of Authentication.                                    *)
(***************************************************************************)
EXTENDS Authentication, SequenceTheorems, WellFoundedInduction, TLAPS

-----------------------------------------------------------------------------
(* The tables of the committed rows.                                       *)
AccountState == [pin : 1..MaxPins, must_change : BOOLEAN, active : BOOLEAN]
AccountRows == [Users -> AccountState]
BucketRows == [Scopes -> Buckets]
ChallengeState == [status : {"none", "open", "consumed", "revoked", "expired"},
                   user : Users \cup {None}, attempts : 0..MaxAttempts,
                   issued_by : Sessions \cup {None}]
ChallengeRows == [Challenges -> ChallengeState]
SessionState == [status : {"none", "live", "revoked", "expired"}, user : Users \cup {None},
                 purpose : {"none", "application", "credential_change"},
                 step_up : 0..MaxPins, challenge : Challenges \cup {None}]
SessionRows == [Sessions -> SessionState]

\* Rows is the record of the four tables.
LEMMA RowsAreTables ==
    Rows = [accounts : AccountRows, buckets : BucketRows, challenges : ChallengeRows,
            sessions : SessionRows]
BY DEF Rows, AccountState, AccountRows, BucketRows, ChallengeRows, ChallengeState, SessionRows, SessionState

\* A free row there is can be taken.
LEMMA FirstOfFree ==
    ASSUME NEW ids \in SUBSET Nat, ids # {}
    PROVE  FirstOf(ids) \in ids
<1>1. IsWellFoundedOn(OpToRel(<, Nat), Nat)
  BY NatLessThanWellFounded
<1>2. PICK i \in ids : \A j \in ids : <<j, i>> \notin OpToRel(<, Nat)
  BY <1>1, WFMin
<1>3. \A j \in ids : ~(j < i)
  BY <1>2, Zenon DEF OpToRel
<1>4. \A j \in ids : i <= j
  BY <1>3
<1> QED
  BY <1>4 DEF FirstOf

(***************************************************************************)
(* What a request that holds the row locks L, and confirms the sessions K, *)
(* may do to the rows: it leaves them consistent, rewrites accounts,       *)
(* buckets and attempts only under their locks, never takes a row that is  *)
(* in use for a new one, and lets a session in only with a locked          *)
(* challenge.                                                              *)
(***************************************************************************)
KeepsAccounts(d, e, L) == \A u \in Users : UserRow(u) \in L \/ e.accounts[u] = d.accounts[u]
KeepsBuckets(d, e, L) == \A b \in Scopes : BucketRow(b) \in L \/ e.buckets[b] = d.buckets[b]
KeepsChallenges(d, e, L) ==
    \A c \in Challenges :
        d.challenges[c].status # "none" =>
            /\ e.challenges[c].status # "none"
            /\ e.challenges[c].user = d.challenges[c].user
            /\ ChallengeRow(c) \in L \/ e.challenges[c].attempts = d.challenges[c].attempts
KeepsSessions(d, e) ==
    \A s \in Sessions :
        d.sessions[s].status # "none" =>
            e.sessions[s].status # "none" /\ e.sessions[s].user = d.sessions[s].user
LetsInUnder(d, e, L) ==
    \A s \in Sessions :
        \/ e.sessions[s].challenge \in {None, d.sessions[s].challenge}
        \/ ChallengeRow(e.sessions[s].challenge) \in L
ConfirmsOnly(d, e, K) ==
    \A s \in Sessions : s \in K \/ e.sessions[s].step_up \in {None, d.sessions[s].step_up}
Moves(d, e, L, K) ==
    /\ Consistent(e)
    /\ KeepsAccounts(d, e, L)
    /\ KeepsBuckets(d, e, L)
    /\ KeepsChallenges(d, e, L)
    /\ KeepsSessions(d, e)
    /\ LetsInUnder(d, e, L)
    /\ ConfirmsOnly(d, e, K)

\* What is done in several parts is done.
LEMMA MovesCompose ==
    ASSUME NEW d, NEW e, NEW f, NEW L, NEW K, Moves(d, e, L, K), Moves(e, f, L, K)
    PROVE  Moves(d, f, L, K)
<1>1. KeepsAccounts(d, f, L)
  BY DEF Moves, KeepsAccounts
<1>2. KeepsBuckets(d, f, L)
  BY DEF Moves, KeepsBuckets
<1>3. KeepsChallenges(d, f, L)
  BY DEF Moves, KeepsChallenges
<1>4. KeepsSessions(d, f)
  BY DEF Moves, KeepsSessions
<1>5. LetsInUnder(d, f, L)
  BY DEF Moves, LetsInUnder
<1>6. ConfirmsOnly(d, f, K)
  BY DEF Moves, ConfirmsOnly
<1> QED
  BY <1>1, <1>2, <1>3, <1>4, <1>5, <1>6 DEF Moves

\* Challenges in use may be revoked.
LEMMA ChallengesRevoked ==
    ASSUME NEW d, Consistent(d), NEW L, NEW K, NEW ids \in SUBSET Challenges,
           \A c \in ids : d.challenges[c].status # "none"
    PROVE  /\ Moves(d, [d EXCEPT !.challenges = Revoked(@, ids)], L, K)
           /\ FreeIn(Challenges, Revoked(d.challenges, ids)) = FreeIn(Challenges, d.challenges)
<1> DEFINE e == [d EXCEPT !.challenges = Revoked(@, ids)]
<1>1. /\ d.challenges \in ChallengeRows
      /\ d \in [accounts : AccountRows, buckets : BucketRows, challenges : ChallengeRows,
                sessions : SessionRows]
  BY RowsAreTables DEF Consistent
<1>2. /\ e.accounts = d.accounts /\ e.buckets = d.buckets /\ e.sessions = d.sessions
      /\ e.challenges = Revoked(d.challenges, ids)
  BY <1>1
<1>3. \A c \in Challenges :
        e.challenges[c] = IF c \in ids THEN [d.challenges[c] EXCEPT !.status = "revoked"]
                                       ELSE d.challenges[c]
  BY <1>1, <1>2 DEF Revoked, ChallengeRows
<1> HIDE DEF e
<1>4. \A c \in Challenges :
        /\ e.challenges[c] \in ChallengeState
        /\ e.challenges[c].status = IF c \in ids THEN "revoked" ELSE d.challenges[c].status
        /\ e.challenges[c].user = d.challenges[c].user
        /\ e.challenges[c].attempts = d.challenges[c].attempts
  <2> TAKE c \in Challenges
  <2>1. d.challenges[c] \in ChallengeState
    BY <1>1 DEF ChallengeRows
  <2>2. CASE c \in ids
    BY <1>3, <2>1, <2>2 DEF ChallengeState
  <2>3. CASE c \notin ids
    BY <1>3, <2>1, <2>3
  <2> QED
    BY <2>2, <2>3
<1>5. e.challenges \in ChallengeRows
  BY <1>1, <1>2, <1>4 DEF Revoked, ChallengeRows
<1>6. e \in Rows
  BY <1>1, <1>5, RowsAreTables DEF e
<1>7. Consistent(e)
  <2>1. OwnersKnown(e)
    BY <1>2, <1>4 DEF OwnersKnown, Consistent
  <2>2. AttemptsLeft(e)
    BY <1>4 DEF AttemptsLeft, Consistent
  <2>3. ChallengesSpent(e)
    <3>1. \A s \in Sessions : d.sessions[s].challenge \in Challenges \cup {None}
      BY <1>1 DEF SessionRows, SessionState
    <3> QED
      BY <1>2, <1>4, <3>1 DEF ChallengesSpent, Consistent
  <2>4. ChangesFirst(e)
    BY <1>2 DEF ChangesFirst, Consistent
  <2> QED
    BY <1>6, <2>1, <2>2, <2>3, <2>4 DEF Consistent
<1>8. Moves(d, e, L, K)
  BY <1>2, <1>4, <1>7 DEF Moves, KeepsAccounts, KeepsBuckets, KeepsChallenges, KeepsSessions,
                          LetsInUnder, ConfirmsOnly
<1>9. FreeIn(Challenges, e.challenges) = FreeIn(Challenges, d.challenges)
  BY <1>4 DEF FreeIn
<1> QED
  BY <1>2, <1>8, <1>9 DEF e

\* Revoking sessions changes their status and nothing else.
LEMMA RevokedSessions ==
    ASSUME NEW rows \in SessionRows, NEW ids
    PROVE  /\ Revoked(rows, ids) \in SessionRows
           /\ \A s \in Sessions :
                /\ Revoked(rows, ids)[s].status = IF s \in ids THEN "revoked" ELSE rows[s].status
                /\ Revoked(rows, ids)[s].user = rows[s].user
                /\ Revoked(rows, ids)[s].purpose = rows[s].purpose
                /\ Revoked(rows, ids)[s].challenge = rows[s].challenge
                /\ Revoked(rows, ids)[s].step_up = rows[s].step_up
<1> DEFINE e == Revoked(rows, ids)
<1>1. /\ e = [s \in Sessions |-> e[s]]
      /\ \A s \in Sessions :
            e[s] = IF s \in ids THEN [rows[s] EXCEPT !.status = "revoked"] ELSE rows[s]
  BY DEF Revoked, SessionRows
<1> HIDE DEF e
<1>2. \A s \in Sessions :
        /\ e[s] \in SessionState
        /\ e[s].status = IF s \in ids THEN "revoked" ELSE rows[s].status
        /\ e[s].user = rows[s].user
        /\ e[s].purpose = rows[s].purpose
        /\ e[s].challenge = rows[s].challenge
        /\ e[s].step_up = rows[s].step_up
  <2> TAKE s \in Sessions
  <2>1. rows[s] \in SessionState
    BY DEF SessionRows
  <2>2. CASE s \in ids
    BY <1>1, <2>1, <2>2 DEF SessionState
  <2>3. CASE s \notin ids
    BY <1>1, <2>1, <2>3
  <2> QED
    BY <2>2, <2>3
<1>3. e \in SessionRows
  BY <1>1, <1>2 DEF SessionRows
<1> QED
  BY <1>2, <1>3 DEF e

\* Sessions in use may be revoked.
LEMMA SessionsRevoked ==
    ASSUME NEW d, Consistent(d), NEW L, NEW K, NEW ids \in SUBSET Sessions,
           \A s \in ids : d.sessions[s].status # "none"
    PROVE  /\ Moves(d, [d EXCEPT !.sessions = Revoked(@, ids)], L, K)
           /\ FreeIn(Sessions, Revoked(d.sessions, ids)) = FreeIn(Sessions, d.sessions)
<1> DEFINE e == [d EXCEPT !.sessions = Revoked(@, ids)]
<1>1. /\ d \in [accounts : AccountRows, buckets : BucketRows, challenges : ChallengeRows,
                sessions : SessionRows]
      /\ d.sessions \in SessionRows
  BY RowsAreTables DEF Consistent
<1>2. /\ e.accounts = d.accounts /\ e.buckets = d.buckets /\ e.challenges = d.challenges
      /\ e.sessions = Revoked(d.sessions, ids)
  BY <1>1
<1>3. Revoked(d.sessions, ids) \in SessionRows
  BY <1>1, RevokedSessions
<1>4. e \in Rows
  BY <1>1, <1>3, RowsAreTables
<1> HIDE DEF e
<1>5. \A s \in Sessions :
        /\ e.sessions[s].status = IF s \in ids THEN "revoked" ELSE d.sessions[s].status
        /\ e.sessions[s].user = d.sessions[s].user
        /\ e.sessions[s].purpose = d.sessions[s].purpose
        /\ e.sessions[s].challenge = d.sessions[s].challenge
        /\ e.sessions[s].step_up = d.sessions[s].step_up
  BY <1>1, <1>2, RevokedSessions
<1>6. Consistent(e)
  <2>1. OwnersKnown(e)
    BY <1>2, <1>5 DEF OwnersKnown, Consistent
  <2>2. AttemptsLeft(e)
    BY <1>2 DEF AttemptsLeft, Consistent
  <2>3. ChallengesSpent(e)
    BY <1>2, <1>5 DEF ChallengesSpent, Consistent
  <2>4. ChangesFirst(e)
    BY <1>2, <1>5 DEF ChangesFirst, Consistent
  <2> QED
    BY <1>4, <2>1, <2>2, <2>3, <2>4 DEF Consistent
<1>7. Moves(d, e, L, K)
  BY <1>2, <1>5, <1>6 DEF Moves, KeepsAccounts, KeepsBuckets, KeepsChallenges, KeepsSessions,
                          LetsInUnder, ConfirmsOnly
<1>8. FreeIn(Sessions, e.sessions) = FreeIn(Sessions, d.sessions)
  BY <1>5 DEF FreeIn
<1> QED
  BY <1>2, <1>7, <1>8 DEF e

\* A session may be opened for an account that need not change its PIN first,
\* with no challenge or with a locked one that is spent and let nobody in.
LEMMA SessionOpened ==
    ASSUME NEW d, Consistent(d), NEW L, NEW K, NEW u \in Users,
           NEW purpose \in {"application", "credential_change"},
           purpose = "application" => ~d.accounts[u].must_change,
           NEW c \in Challenges \cup {None},
           c # None => /\ ChallengeRow(c) \in L
                       /\ d.challenges[c].status \notin {"none", "open"}
                       /\ \A s \in Sessions : d.sessions[s].challenge # c,
           FreeIn(Sessions, d.sessions) # {}
    PROVE  Moves(d, SessionAdded(d, u, purpose, c), L, K)
<1> DEFINE e == SessionAdded(d, u, purpose, c)
           i == FirstOf(FreeIn(Sessions, d.sessions))
           new == [status |-> "live", user |-> u, purpose |-> purpose, step_up |-> None,
                   challenge |-> c]
<1>1. /\ d \in [accounts : AccountRows, buckets : BucketRows, challenges : ChallengeRows,
                sessions : SessionRows]
      /\ d.accounts \in AccountRows /\ d.buckets \in BucketRows
      /\ d.challenges \in ChallengeRows /\ d.sessions \in SessionRows
  BY RowsAreTables DEF Consistent
<1>2. i \in Sessions /\ d.sessions[i].status = "none"
  BY FirstOfFree DEF FreeIn, Sessions
<1>3. MaxPins \in Nat /\ None \in 0..MaxPins
  BY AuthenticationAssumption DEF None
<1>4. new \in SessionState
  BY <1>3 DEF SessionState
<1> HIDE DEF i, new
<1>5. e = [d EXCEPT !.sessions[i] = new]
  BY DEF SessionAdded, i, new
<1> HIDE DEF e
<1>6. /\ e.accounts = d.accounts /\ e.buckets = d.buckets /\ e.challenges = d.challenges
      /\ e.sessions = [d.sessions EXCEPT ![i] = new]
  BY <1>1, <1>5
<1>7. e.sessions \in SessionRows
  BY <1>1, <1>2, <1>4, <1>6 DEF SessionRows
<1>8. e \in Rows
  BY <1>1, <1>5, <1>7, RowsAreTables
<1>9. /\ e.sessions[i] = new
      /\ \A s \in Sessions \ {i} : e.sessions[s] = d.sessions[s]
  BY <1>1, <1>2, <1>6 DEF SessionRows
<1>10. /\ new.status = "live" /\ new.user = u /\ new.purpose = purpose
       /\ new.step_up = None /\ new.challenge = c
  BY DEF new
<1>11. Consistent(e)
  <2>1. OwnersKnown(e)
    BY <1>6, <1>9, <1>10 DEF OwnersKnown, Consistent
  <2>2. AttemptsLeft(e)
    BY <1>6 DEF AttemptsLeft, Consistent
  <2>3. ChallengesSpent(e)
    BY <1>6, <1>9, <1>10 DEF ChallengesSpent, Consistent
  <2>4. ChangesFirst(e)
    BY <1>6, <1>9, <1>10 DEF ChangesFirst, Consistent
  <2> QED
    BY <1>8, <2>1, <2>2, <2>3, <2>4 DEF Consistent
<1>12. KeepsSessions(d, e)
  BY <1>2, <1>9 DEF KeepsSessions
<1>13. LetsInUnder(d, e, L)
  BY <1>9, <1>10 DEF LetsInUnder
<1>14. ConfirmsOnly(d, e, K)
  BY <1>9, <1>10 DEF ConfirmsOnly
<1> QED
  BY <1>6, <1>11, <1>12, <1>13, <1>14
  DEF e, Moves, KeepsAccounts, KeepsBuckets, KeepsChallenges

\* A challenge may be opened for a known account.
LEMMA ChallengeOpened ==
    ASSUME NEW d, Consistent(d), NEW L, NEW K, NEW u \in Users,
           NEW s \in Sessions \cup {None},
           FreeIn(Challenges, d.challenges) # {}
    PROVE  Moves(d, ChallengeAdded(d, u, s), L, K)
<1> DEFINE e == ChallengeAdded(d, u, s)
           i == FirstOf(FreeIn(Challenges, d.challenges))
           new == [status |-> "open", user |-> u, attempts |-> 0, issued_by |-> s]
<1>1. /\ d \in [accounts : AccountRows, buckets : BucketRows, challenges : ChallengeRows,
                sessions : SessionRows]
      /\ d.accounts \in AccountRows /\ d.buckets \in BucketRows
      /\ d.challenges \in ChallengeRows /\ d.sessions \in SessionRows
  BY RowsAreTables DEF Consistent
<1>2. i \in Challenges /\ d.challenges[i].status = "none"
  BY FirstOfFree DEF FreeIn, Challenges
<1>3. MaxAttempts \in Nat \ {0} /\ 0 \in 0..MaxAttempts
  BY AuthenticationAssumption
<1>4. new \in ChallengeState
  BY <1>3 DEF ChallengeState
<1> HIDE DEF i, new
<1>5. e = [d EXCEPT !.challenges[i] = new]
  BY DEF ChallengeAdded, i, new
<1> HIDE DEF e
<1>6. /\ e.accounts = d.accounts /\ e.buckets = d.buckets /\ e.sessions = d.sessions
      /\ e.challenges = [d.challenges EXCEPT ![i] = new]
  BY <1>1, <1>5
<1>7. e.challenges \in ChallengeRows
  BY <1>1, <1>2, <1>4, <1>6 DEF ChallengeRows
<1>8. e \in Rows
  BY <1>1, <1>5, <1>7, RowsAreTables
<1>9. /\ e.challenges[i] = new
      /\ \A c \in Challenges \ {i} : e.challenges[c] = d.challenges[c]
  BY <1>1, <1>2, <1>6 DEF ChallengeRows
<1>10. new.status = "open" /\ new.user = u /\ new.attempts = 0
  BY DEF new
<1>11. Consistent(e)
  <2>1. OwnersKnown(e)
    BY <1>6, <1>9, <1>10 DEF OwnersKnown, Consistent
  <2>2. AttemptsLeft(e)
    BY <1>3, <1>9, <1>10 DEF AttemptsLeft, Consistent
  <2>3. ChallengesSpent(e)
    <3>1. \A t \in Sessions : d.sessions[t].challenge # i
      BY <1>2, AuthenticationAssumption DEF ChallengesSpent, Consistent, Challenges, None
    <3>2. \A t \in Sessions : d.sessions[t].challenge \in Challenges \cup {None}
      BY <1>1 DEF SessionRows, SessionState
    <3> QED
      BY <1>6, <1>9, <3>1, <3>2 DEF ChallengesSpent, Consistent
  <2>4. ChangesFirst(e)
    BY <1>6 DEF ChangesFirst, Consistent
  <2> QED
    BY <1>8, <2>1, <2>2, <2>3, <2>4 DEF Consistent
<1>12. KeepsChallenges(d, e, L)
  BY <1>2, <1>9 DEF KeepsChallenges
<1> QED
  BY <1>6, <1>11, <1>12
  DEF e, Moves, KeepsAccounts, KeepsBuckets, KeepsSessions, LetsInUnder, ConfirmsOnly

\* A locked bucket may be rewritten.
LEMMA BucketRewritten ==
    ASSUME NEW d, Consistent(d), NEW L, NEW K, NEW b \in Scopes, NEW bucket \in Buckets,
           BucketRow(b) \in L
    PROVE  Moves(d, [d EXCEPT !.buckets[b] = bucket], L, K)
<1> DEFINE e == [d EXCEPT !.buckets[b] = bucket]
<1>1. /\ d \in [accounts : AccountRows, buckets : BucketRows, challenges : ChallengeRows,
                sessions : SessionRows]
      /\ d.accounts \in AccountRows /\ d.buckets \in BucketRows
      /\ d.challenges \in ChallengeRows /\ d.sessions \in SessionRows
  BY RowsAreTables DEF Consistent
<1>2. /\ e.accounts = d.accounts /\ e.challenges = d.challenges /\ e.sessions = d.sessions
      /\ e.buckets = [d.buckets EXCEPT ![b] = bucket]
  BY <1>1
<1>3. e.buckets \in BucketRows
  BY <1>1, <1>2 DEF BucketRows
<1>4. e \in Rows
  BY <1>1, <1>3, RowsAreTables
<1> HIDE DEF e
<1>5. Consistent(e)
  BY <1>2, <1>4 DEF Consistent, OwnersKnown, AttemptsLeft, ChallengesSpent, ChangesFirst
<1>6. KeepsBuckets(d, e, L)
  BY <1>1, <1>2 DEF KeepsBuckets, BucketRows
<1>7. Moves(d, e, L, K)
  BY <1>2, <1>5, <1>6
  DEF Moves, KeepsAccounts, KeepsChallenges, KeepsSessions, LetsInUnder, ConfirmsOnly
<1> QED
  BY <1>7 DEF e

\* A locked account may be rewritten, unless it must change a PIN that opened it.
LEMMA AccountRewritten ==
    ASSUME NEW d, Consistent(d), NEW L, NEW K, NEW u \in Users, NEW account \in AccountState,
           UserRow(u) \in L,
           account.must_change =>
                \A s \in Live(d, u) : d.sessions[s].purpose # "application"
    PROVE  Moves(d, [d EXCEPT !.accounts[u] = account], L, K)
<1> DEFINE e == [d EXCEPT !.accounts[u] = account]
<1>1. /\ d \in [accounts : AccountRows, buckets : BucketRows, challenges : ChallengeRows,
                sessions : SessionRows]
      /\ d.accounts \in AccountRows /\ d.buckets \in BucketRows
      /\ d.challenges \in ChallengeRows /\ d.sessions \in SessionRows
  BY RowsAreTables DEF Consistent
<1>2. /\ e.buckets = d.buckets /\ e.challenges = d.challenges /\ e.sessions = d.sessions
      /\ e.accounts = [d.accounts EXCEPT ![u] = account]
  BY <1>1
<1>3. e.accounts \in AccountRows
  BY <1>1, <1>2 DEF AccountRows
<1>4. e \in Rows
  BY <1>1, <1>3, RowsAreTables
<1> HIDE DEF e
<1>5. e.accounts[u] = account /\ \A v \in Users \ {u} : e.accounts[v] = d.accounts[v]
  BY <1>1, <1>2 DEF AccountRows
<1>6. Consistent(e)
  <2>1. ChangesFirst(e)
    <3>1. \A s \in Sessions : d.sessions[s].status = "live" => d.sessions[s].user \in Users
      BY DEF Consistent, OwnersKnown
    <3> QED
      BY <1>2, <1>5, <3>1 DEF ChangesFirst, Consistent, Live
  <2> QED
    BY <1>2, <1>4, <2>1 DEF Consistent, OwnersKnown, AttemptsLeft, ChallengesSpent
<1>7. KeepsAccounts(d, e, L)
  BY <1>5 DEF KeepsAccounts
<1>8. Moves(d, e, L, K)
  BY <1>2, <1>6, <1>7
  DEF Moves, KeepsBuckets, KeepsChallenges, KeepsSessions, LetsInUnder, ConfirmsOnly
<1> QED
  BY <1>8 DEF e

\* What a session was confirmed with may be forgotten, or set for those in K.
LEMMA StepUpRewritten ==
    ASSUME NEW d, Consistent(d), NEW L, NEW K, NEW s \in Sessions, NEW pin \in 0..MaxPins,
           s \in K \/ pin = None
    PROVE  /\ Moves(d, [d EXCEPT !.sessions[s].step_up = pin], L, K)
           /\ FreeIn(Sessions, [d EXCEPT !.sessions[s].step_up = pin].sessions) =
                FreeIn(Sessions, d.sessions)
<1> DEFINE e == [d EXCEPT !.sessions[s].step_up = pin]
<1>1. /\ d \in [accounts : AccountRows, buckets : BucketRows, challenges : ChallengeRows,
                sessions : SessionRows]
      /\ d.accounts \in AccountRows /\ d.buckets \in BucketRows
      /\ d.challenges \in ChallengeRows /\ d.sessions \in SessionRows
  BY RowsAreTables DEF Consistent
<1>2. /\ e.accounts = d.accounts /\ e.buckets = d.buckets /\ e.challenges = d.challenges
      /\ e.sessions = [d.sessions EXCEPT ![s] = [d.sessions[s] EXCEPT !.step_up = pin]]
  BY <1>1
<1>3. d.sessions[s] \in SessionState
  BY <1>1 DEF SessionRows
<1>4. [d.sessions[s] EXCEPT !.step_up = pin] \in SessionState
  BY <1>3 DEF SessionState
<1>5. e.sessions \in SessionRows
  BY <1>1, <1>2, <1>4 DEF SessionRows
<1>6. e \in Rows
  BY <1>1, <1>5, RowsAreTables
<1> HIDE DEF e
<1>7. /\ e.sessions[s] = [d.sessions[s] EXCEPT !.step_up = pin]
      /\ \A t \in Sessions \ {s} : e.sessions[t] = d.sessions[t]
  BY <1>1, <1>2 DEF SessionRows
<1>8. \A t \in Sessions :
        /\ e.sessions[t].status = d.sessions[t].status
        /\ e.sessions[t].user = d.sessions[t].user
        /\ e.sessions[t].purpose = d.sessions[t].purpose
        /\ e.sessions[t].challenge = d.sessions[t].challenge
        /\ e.sessions[t].step_up = IF t = s THEN pin ELSE d.sessions[t].step_up
  BY <1>3, <1>7 DEF SessionState
<1>9. Consistent(e)
  BY <1>2, <1>6, <1>8 DEF Consistent, OwnersKnown, AttemptsLeft, ChallengesSpent, ChangesFirst
<1>10. Moves(d, e, L, K)
  BY <1>2, <1>8, <1>9 DEF Moves, KeepsAccounts, KeepsBuckets, KeepsChallenges, KeepsSessions,
                          LetsInUnder, ConfirmsOnly
<1>11. FreeIn(Sessions, e.sessions) = FreeIn(Sessions, d.sessions)
  BY <1>8 DEF FreeIn
<1> QED
  BY <1>10, <1>11 DEF e

\* A live session may expire.
SessionExpired(d, s) == [d EXCEPT !.sessions[s].status = "expired"]
\* The end of a session opens nothing and confirms nothing.
LEMMA SessionExpiredMoves ==
    ASSUME NEW d, Consistent(d), NEW L, NEW K, NEW s \in Sessions, d.sessions[s].status = "live"
    PROVE  Moves(d, SessionExpired(d, s), L, K)
<1> DEFINE e == SessionExpired(d, s)
<1>1. /\ d \in [accounts : AccountRows, buckets : BucketRows, challenges : ChallengeRows,
                sessions : SessionRows]
      /\ d.sessions \in SessionRows
  BY RowsAreTables DEF Consistent
<1>2. /\ e.accounts = d.accounts /\ e.buckets = d.buckets /\ e.challenges = d.challenges
      /\ e.sessions = [d.sessions EXCEPT ![s] = [d.sessions[s] EXCEPT !.status = "expired"]]
  BY <1>1 DEF SessionExpired
<1>3. d.sessions[s] \in SessionState
  BY <1>1 DEF SessionRows
<1>4. [d.sessions[s] EXCEPT !.status = "expired"] \in SessionState
  BY <1>3 DEF SessionState
<1>5. e.sessions \in SessionRows
  BY <1>1, <1>2, <1>4 DEF SessionRows
<1>6. e \in Rows
  BY <1>1, <1>5, RowsAreTables DEF SessionExpired
<1> HIDE DEF e
<1>7. /\ e.sessions[s] = [d.sessions[s] EXCEPT !.status = "expired"]
      /\ \A t \in Sessions \ {s} : e.sessions[t] = d.sessions[t]
  BY <1>1, <1>2 DEF SessionRows
<1>8. \A t \in Sessions :
        /\ e.sessions[t].status = IF t = s THEN "expired" ELSE d.sessions[t].status
        /\ e.sessions[t].user = d.sessions[t].user
        /\ e.sessions[t].purpose = d.sessions[t].purpose
        /\ e.sessions[t].challenge = d.sessions[t].challenge
        /\ e.sessions[t].step_up = d.sessions[t].step_up
  BY <1>3, <1>7 DEF SessionState
<1>9. Consistent(e)
  BY <1>2, <1>6, <1>8 DEF Consistent, OwnersKnown, AttemptsLeft, ChallengesSpent, ChangesFirst
<1>10. Moves(d, e, L, K)
  BY <1>2, <1>8, <1>9 DEF Moves, KeepsAccounts, KeepsBuckets, KeepsChallenges, KeepsSessions,
                          LetsInUnder, ConfirmsOnly
<1> QED
  BY <1>10 DEF e

\* A challenge in use may be settled or, if it is locked, tried once more.
LEMMA ChallengeRewritten ==
    ASSUME NEW d, Consistent(d), NEW L, NEW K, NEW c \in Challenges,
           d.challenges[c].status # "none", NEW challenge \in ChallengeState,
           ChallengeRow(c) \in L \/ challenge.attempts = d.challenges[c].attempts,
           challenge.user = d.challenges[c].user,
           \/ challenge.status \notin {"none", "open"}
           \/ /\ challenge.status = d.challenges[c].status
              /\ challenge.attempts < MaxAttempts
    PROVE  Moves(d, [d EXCEPT !.challenges[c] = challenge], L, K)
<1> DEFINE e == [d EXCEPT !.challenges[c] = challenge]
<1>1. /\ d \in [accounts : AccountRows, buckets : BucketRows, challenges : ChallengeRows,
                sessions : SessionRows]
      /\ d.accounts \in AccountRows /\ d.buckets \in BucketRows
      /\ d.challenges \in ChallengeRows /\ d.sessions \in SessionRows
  BY RowsAreTables DEF Consistent
<1>2. /\ e.accounts = d.accounts /\ e.buckets = d.buckets /\ e.sessions = d.sessions
      /\ e.challenges = [d.challenges EXCEPT ![c] = challenge]
  BY <1>1
<1>3. e.challenges \in ChallengeRows
  BY <1>1, <1>2 DEF ChallengeRows
<1>4. e \in Rows
  BY <1>1, <1>3, RowsAreTables
<1> HIDE DEF e
<1>5. /\ e.challenges[c] = challenge
      /\ \A k \in Challenges \ {c} : e.challenges[k] = d.challenges[k]
  BY <1>1, <1>2 DEF ChallengeRows
<1>6. Consistent(e)
  <2>1. OwnersKnown(e)
    BY <1>2, <1>5 DEF OwnersKnown, Consistent
  <2>2. AttemptsLeft(e)
    BY <1>5 DEF AttemptsLeft, Consistent
  <2>3. ChallengesSpent(e)
    <3>1. \A t \in Sessions : d.sessions[t].challenge \in Challenges \cup {None}
      BY <1>1 DEF SessionRows, SessionState
    <3> QED
      BY <1>2, <1>5, <3>1 DEF ChallengesSpent, Consistent
  <2>4. ChangesFirst(e)
    BY <1>2 DEF ChangesFirst, Consistent
  <2> QED
    BY <1>4, <2>1, <2>2, <2>3, <2>4 DEF Consistent
<1>7. KeepsChallenges(d, e, L)
  BY <1>5 DEF KeepsChallenges
<1>8. Moves(d, e, L, K)
  BY <1>2, <1>6, <1>7
  DEF Moves, KeepsAccounts, KeepsBuckets, KeepsSessions, LetsInUnder, ConfirmsOnly
<1> QED
  BY <1>8 DEF e

-----------------------------------------------------------------------------
(* What a request is, and what it holds after the first n of its locks.    *)
AllOperations ==
    {"login", "reauthenticate", "select_organization", "switch_organization", "logout",
     "change_pin", "reset_user_pin", "deactivate", "reactivate", "recover_throttle_bucket"}
SignIns == {"login", "reauthenticate"}
AccountOperations ==
    SignIns \cup {"select_organization", "change_pin", "reset_user_pin", "deactivate", "reactivate"}
SessionOperations == {"reauthenticate", "switch_organization", "logout", "change_pin"}
RequestState ==
    [op : AllOperations, user : Scopes, session : Sessions \cup {None},
     challenge : Challenges \cup {None}, pin : 0..MaxPins,
     choice : {"none", "offered", "not_offered", "ineligible"}]
\* A request speaks of rows that are there, and of one user's.
RequestOK(d, r) ==
    /\ r \in RequestState
    /\ r.op # "recover_throttle_bucket" => r.user \in Users
    /\ r.op \in SessionOperations => r.session # None
    /\ r.session # None => /\ d.sessions[r.session].status # "none"
                           /\ d.sessions[r.session].user = r.user
    /\ r.op = "select_organization" => /\ r.challenge # None
                                       /\ d.challenges[r.challenge].status # "none"
                                       /\ d.challenges[r.challenge].user = r.user

SeenState ==
    [account : [pin : 0..MaxPins, must_change : BOOLEAN, active : BOOLEAN],
     own : Buckets, address : Buckets, live : BOOLEAN, swept : SUBSET Challenges]
SweepsRows(d, seen) == \A c \in seen.swept : d.challenges[c].status # "none"
HasAccount(d, r, L, seen) ==
    UserRow(r.user) \in L /\ seen.account = d.accounts[r.user]
HasOwn(d, r, L, seen) ==
    /\ BucketRow(r.user) \in L
    /\ seen.own = Current(d.buckets[r.user])
    /\ ~seen.own.blocked
HasAddress(d, L, seen) ==
    /\ BucketRow(Address) \in L
    /\ seen.address = Current(d.buckets[Address])
    /\ ~seen.address.blocked
HasChallenge(d, r, L) ==
    /\ ChallengeRow(r.challenge) \in L
    /\ d.challenges[r.challenge].attempts < MaxAttempts
    /\ \A s \in Sessions : d.sessions[s].challenge # r.challenge
Holds(d, r, n, L, seen) ==
    /\ SweepsRows(d, seen)
    /\ n = 0 => seen = Nothing
    /\ r.op \in AccountOperations /\ n >= 1 => HasAccount(d, r, L, seen)
    /\ r.op \in SignIns /\ n >= 2 => HasOwn(d, r, L, seen)
    /\ r.op \in SignIns /\ n >= 3 => HasAddress(d, L, seen)
    /\ r.op = "select_organization" /\ n >= 2 => HasChallenge(d, r, L)
    /\ r.op = "recover_throttle_bucket" /\ n >= 1 => BucketRow(r.user) \in L

\* A sign-in gives its user a session or, with a choice to make, a challenge.
LEMMA ContextMoves ==
    ASSUME NEW d, Consistent(d), NEW L, NEW K, NEW u \in Users, ~d.accounts[u].must_change,
           FreeIn(Sessions, d.sessions) # {}, FreeIn(Challenges, d.challenges) # {}
    PROVE  Moves(d, ContextIssued(d, u), L, K)
<1>1. CASE u \in Several
  BY <1>1, ChallengeOpened DEF ContextIssued
<1>2. CASE u \notin Several
  BY <1>2, SessionOpened DEF ContextIssued
<1> QED
  BY <1>1, <1>2

\* The bucket a window starts with is one, and so is one with a failure more.
LEMMA BucketsAreBuckets ==
    ASSUME NEW bucket \in Buckets, NEW b \in Scopes
    PROVE  /\ NoBucket \in Buckets /\ ~NoBucket.blocked /\ NoBucket.failures = 0
           /\ Current(bucket) \in Buckets
           /\ Failed(bucket, b) \in Buckets
           /\ Failed(bucket, b).failures = bucket.failures + 1
           /\ Failed(bucket, b).blocked = (bucket.failures + 1 >= Limit(b))
           /\ Failed(bucket, b).elapsed = bucket.elapsed
           /\ Current(bucket).blocked = bucket.blocked
           /\ Current(Current(bucket)) = Current(bucket)
<1>1. /\ NoBucket \in Buckets /\ ~NoBucket.blocked /\ NoBucket.failures = 0
      /\ ~NoBucket.elapsed
  BY DEF NoBucket, Buckets
<1>2. Limit(b) \in Nat
  BY AuthenticationAssumption DEF Limit
<1>3. /\ Current(bucket) \in Buckets
      /\ Current(bucket).blocked = bucket.blocked
      /\ Current(Current(bucket)) = Current(bucket)
  <2>1. CASE bucket.elapsed /\ ~bucket.blocked
    <3>1. Current(bucket) = NoBucket
      BY <2>1 DEF Current
    <3> QED
      BY <1>1, <2>1, <3>1 DEF Current, Buckets
  <2>2. CASE ~(bucket.elapsed /\ ~bucket.blocked)
    BY <2>2 DEF Current
  <2> QED
    BY <2>1, <2>2
<1>4. /\ Failed(bucket, b) \in Buckets
      /\ Failed(bucket, b).failures = bucket.failures + 1
      /\ Failed(bucket, b).elapsed = bucket.elapsed
      /\ Failed(bucket, b).blocked = (bucket.failures + 1 >= Limit(b))
  <2>1. (bucket.failures + 1 >= Limit(b)) \in BOOLEAN /\ bucket.failures + 1 \in Nat
    BY <1>2 DEF Buckets
  <2> DEFINE blocked == bucket.failures + 1 >= Limit(b)
  <2>2. Failed(bucket, b) = [bucket EXCEPT !.failures = @ + 1, !.blocked = blocked]
    BY DEF Failed
  <2> HIDE DEF blocked
  <2>3. blocked \in BOOLEAN
    BY <2>1 DEF blocked
  <2>4. /\ Failed(bucket, b) \in Buckets
        /\ Failed(bucket, b).failures = bucket.failures + 1
        /\ Failed(bucket, b).elapsed = bucket.elapsed
        /\ Failed(bucket, b).blocked = blocked
    BY <2>1, <2>2, <2>3 DEF Buckets
  <2> QED
    BY <2>4 DEF blocked
<1> QED
  BY <1>1, <1>3, <1>4

\* Users and the address they sign in from have buckets of their own.
LEMMA ScopesApart ==
    ASSUME NEW u \in Users
    PROVE  u \in Scopes /\ Address \in Scopes /\ u # Address
BY AuthenticationAssumption DEF Scopes

\* A sign-in with the right PIN.
LEMMA SignedInMoves ==
    ASSUME NEW d, Consistent(d), NEW L, NEW K, NEW r, RequestOK(d, r), NEW seen \in SeenState,
           SweepsRows(d, seen), r.user \in Users,
           HasAccount(d, r, L, seen), HasOwn(d, r, L, seen), HasAddress(d, L, seen),
           FreeIn(Sessions, d.sessions) # {}, FreeIn(Challenges, d.challenges) # {}
    PROVE  Moves(d, SignedIn(d, r, seen), L, K)
<1> DEFINE u == r.user
           d1 == [d EXCEPT !.buckets[u] = NoBucket]
           d2 == [d1 EXCEPT !.buckets[Address] = seen.address]
           d3 == [d2 EXCEPT !.challenges = Revoked(@, seen.swept)]
<1>1. /\ seen.address \in Buckets /\ NoBucket \in Buckets /\ seen.swept \in SUBSET Challenges
      /\ u \in Scopes /\ Address \in Scopes
  BY BucketsAreBuckets, ScopesApart DEF SeenState
<1>2. Moves(d, d1, L, K)
  BY <1>1, BucketRewritten DEF HasOwn
<1>3. Consistent(d1) /\ d1.challenges = d.challenges /\ d1.sessions = d.sessions
      /\ d1.accounts = d.accounts
  BY <1>2, RowsAreTables DEF Moves, Consistent
<1> HIDE DEF d1
<1>4. Moves(d1, d2, L, K)
  BY <1>1, <1>3, BucketRewritten DEF HasAddress
<1>5. Consistent(d2) /\ d2.challenges = d.challenges /\ d2.sessions = d.sessions
      /\ d2.accounts = d.accounts
  BY <1>3, <1>4, RowsAreTables DEF Moves, Consistent
<1> HIDE DEF d2
<1>6. /\ Moves(d2, d3, L, K)
      /\ FreeIn(Challenges, Revoked(d2.challenges, seen.swept)) = FreeIn(Challenges, d2.challenges)
  BY <1>1, <1>5, ChallengesRevoked DEF SweepsRows
<1>7. Consistent(d3) /\ d3.sessions = d.sessions /\ d3.accounts = d.accounts
      /\ d3.challenges = Revoked(d2.challenges, seen.swept)
  BY <1>5, <1>6, RowsAreTables DEF Moves, Consistent
<1>8. FreeIn(Sessions, d3.sessions) # {} /\ FreeIn(Challenges, d3.challenges) # {}
  BY <1>5, <1>6, <1>7
<1> HIDE DEF d3
<1>9. Moves(d, d3, L, K)
  BY <1>2, <1>4, <1>6, MovesCompose
<1>10. SignedIn(d, r, seen) =
        IF seen.account.must_change THEN SessionAdded(d3, u, "credential_change", None)
                                    ELSE ContextIssued(d3, u)
  BY DEF SignedIn, d1, d2, d3
<1>11. CASE seen.account.must_change
  <2>1. Moves(d3, SessionAdded(d3, u, "credential_change", None), L, K)
    BY <1>7, <1>8, SessionOpened
  <2> QED
    BY <1>9, <1>10, <1>11, <2>1, MovesCompose
<1>12. CASE ~seen.account.must_change
  <2>1. Moves(d3, ContextIssued(d3, u), L, K)
    BY <1>7, <1>8, <1>12, ContextMoves DEF HasAccount
  <2> QED
    BY <1>9, <1>10, <1>12, <2>1, MovesCompose
<1> QED
  BY <1>11, <1>12

\* A sign-in, or a confirmation, with a wrong PIN.
LEMMA SignInFailedMoves ==
    ASSUME NEW d, Consistent(d), NEW L, NEW K, NEW r, NEW seen \in SeenState,
           r.user \in Users, HasOwn(d, r, L, seen), HasAddress(d, L, seen)
    PROVE  Moves(d, SignInFailed(d, r, seen), L, K)
<1> DEFINE u == r.user
           d1 == [d EXCEPT !.buckets[u] = Failed(seen.own, u)]
           d2 == [d1 EXCEPT !.buckets[Address] = Failed(seen.address, Address)]
<1>1. /\ Failed(seen.own, u) \in Buckets /\ Failed(seen.address, Address) \in Buckets
      /\ u \in Scopes /\ Address \in Scopes
  BY BucketsAreBuckets, ScopesApart DEF SeenState
<1>2. Moves(d, d1, L, K)
  BY <1>1, BucketRewritten DEF HasOwn
<1>3. Consistent(d1)
  BY <1>2 DEF Moves
<1> HIDE DEF d1
<1>4. Moves(d1, d2, L, K)
  BY <1>1, <1>3, BucketRewritten DEF HasAddress
<1>5. SignInFailed(d, r, seen) = d2
  BY DEF SignInFailed, d1, d2
<1> QED
  BY <1>2, <1>4, <1>5, MovesCompose

\* A confirmation with the right PIN.
LEMMA ConfirmedMoves ==
    ASSUME NEW d, Consistent(d), NEW L, NEW K, NEW r, RequestOK(d, r), NEW seen \in SeenState,
           r.op = "reauthenticate", r.session \in K,
           HasOwn(d, r, L, seen), HasAddress(d, L, seen)
    PROVE  Moves(d, Confirmed(d, r, seen), L, K)
<1> DEFINE u == r.user
           pin == IF seen.live THEN r.pin ELSE d.sessions[r.session].step_up
           d1 == [d EXCEPT !.buckets[u] = NoBucket]
           d2 == [d1 EXCEPT !.buckets[Address] = seen.address]
           d3 == [d2 EXCEPT !.sessions[r.session].step_up = pin]
<1>1. /\ seen.address \in Buckets /\ NoBucket \in Buckets /\ u \in Scopes /\ Address \in Scopes
      /\ r.session \in Sessions /\ r.pin \in 0..MaxPins
  BY BucketsAreBuckets, ScopesApart
  DEF SeenState, RequestOK, RequestState, SessionOperations
<1>2. d.sessions[r.session] \in SessionState
  BY <1>1, RowsAreTables DEF Consistent, SessionRows
<1>3. pin \in 0..MaxPins
  BY <1>1, <1>2 DEF SessionState
<1>4. Moves(d, d1, L, K)
  BY <1>1, BucketRewritten DEF HasOwn
<1>5. Consistent(d1) /\ d1.sessions = d.sessions
  BY <1>4, RowsAreTables DEF Moves, Consistent
<1> HIDE DEF d1
<1>6. Moves(d1, d2, L, K)
  BY <1>1, <1>5, BucketRewritten DEF HasAddress
<1>7. Consistent(d2) /\ d2.sessions = d.sessions
  BY <1>5, <1>6, RowsAreTables DEF Moves, Consistent
<1>8. Confirmed(d, r, seen) = d3
  BY <1>7 DEF Confirmed, d1, d2, d3
<1> HIDE DEF d2, pin
<1>9. Moves(d2, d3, L, K)
  BY <1>1, <1>3, <1>7, StepUpRewritten
<1> QED
  BY <1>4, <1>6, <1>8, <1>9, MovesCompose

\* A choice of an organization that the account may make.
LEMMA SelectedMoves ==
    ASSUME NEW d, Consistent(d), NEW L, NEW K, NEW r, RequestOK(d, r), NEW seen \in SeenState,
           r.op = "select_organization", HasAccount(d, r, L, seen), HasChallenge(d, r, L),
           FreeIn(Sessions, d.sessions) # {}
    PROVE  Moves(d, Selected(d, r, seen), L, K)
<1> DEFINE c == r.challenge
           left == IF r.session # None /\ seen.live THEN {r.session} ELSE {}
           used == [d.challenges[c] EXCEPT !.status = "consumed"]
           d1 == [d EXCEPT !.challenges[c] = used]
           d2 == [d1 EXCEPT !.sessions = Revoked(@, left)]
<1>1. /\ r.user \in Users /\ c \in Challenges /\ r.session \in Sessions \cup {None}
      /\ c # None
  BY DEF RequestOK, RequestState
<1>2. left \in SUBSET Sessions /\ \A s \in left : d.sessions[s].status # "none"
  BY <1>1 DEF RequestOK
<1>3. d.challenges \in ChallengeRows /\ d.challenges[c] \in ChallengeState
  BY <1>1, RowsAreTables DEF Consistent, ChallengeRows
<1>4. /\ used \in ChallengeState /\ used.status = "consumed"
      /\ used.user = d.challenges[c].user
  BY <1>3 DEF ChallengeState
<1>5. [d EXCEPT !.challenges[c].status = "consumed"] = d1
  OBVIOUS
<1>6. CASE ~MayHaveSession(seen.account)
  <2>1. Selected(d, r, seen) = d
    BY <1>6 DEF Selected
  <2> QED
    BY <2>1 DEF Moves, KeepsAccounts, KeepsBuckets, KeepsChallenges, KeepsSessions, LetsInUnder,
                ConfirmsOnly
<1>7. CASE MayHaveSession(seen.account)
  <2>1. Selected(d, r, seen) = SessionAdded(d2, r.user, "application", c)
    BY <1>5, <1>7 DEF Selected
  <2> HIDE DEF left, used
  <2>2. Moves(d, d1, L, K)
    BY <1>1, <1>4, ChallengeRewritten DEF HasChallenge, RequestOK
  <2>3. /\ Consistent(d1) /\ d1.sessions = d.sessions /\ d1.accounts = d.accounts
        /\ d1.challenges[c] = used
    BY <1>1, <1>3, <2>2, RowsAreTables DEF Moves, Consistent, ChallengeRows
  <2> HIDE DEF d1
  <2>4. /\ Moves(d1, d2, L, K)
        /\ \A s \in Sessions : Revoked(d1.sessions, left)[s].challenge = d1.sessions[s].challenge
        /\ FreeIn(Sessions, Revoked(d1.sessions, left)) = FreeIn(Sessions, d1.sessions)
    <3>1. left \in SUBSET Sessions /\ \A s \in left : d1.sessions[s].status # "none"
      BY <1>2, <2>3
    <3>2. Moves(d1, d2, L, K)
      BY <2>3, <3>1, SessionsRevoked
    <3>3. \A s \in Sessions : Revoked(d1.sessions, left)[s].challenge = d1.sessions[s].challenge
      <4>1. d1.sessions \in SessionRows
        BY <2>3, RowsAreTables DEF Consistent
      <4> QED
        BY <4>1, RevokedSessions
    <3>4. FreeIn(Sessions, Revoked(d1.sessions, left)) = FreeIn(Sessions, d1.sessions)
      BY <2>3, <3>1, SessionsRevoked
    <3> QED
      BY <3>2, <3>3, <3>4
  <2>5. /\ Consistent(d2) /\ d2.accounts = d.accounts /\ d2.challenges = d1.challenges
        /\ d2.sessions = Revoked(d1.sessions, left)
    BY <2>3, <2>4, RowsAreTables DEF Moves, Consistent
  <2> HIDE DEF d2
  <2>6. ~d2.accounts[r.user].must_change
    BY <1>7, <2>5 DEF MayHaveSession, HasAccount
  <2>7. /\ ChallengeRow(c) \in L /\ d2.challenges[c].status \notin {"none", "open"}
        /\ \A s \in Sessions : d2.sessions[s].challenge # c
    BY <1>4, <2>3, <2>4, <2>5 DEF HasChallenge
  <2>8. Moves(d2, SessionAdded(d2, r.user, "application", c), L, K)
    BY <1>1, <2>3, <2>4, <2>5, <2>6, <2>7, SessionOpened
  <2> QED
    BY <2>1, <2>2, <2>4, <2>8, MovesCompose
<1> QED
  BY <1>6, <1>7

\* The answer to a choice of an organization, whichever it is.
LEMMA SelectionMoves ==
    ASSUME NEW d, Consistent(d), NEW L, NEW K, NEW r, RequestOK(d, r), NEW seen \in SeenState,
           r.op = "select_organization", HasAccount(d, r, L, seen), HasChallenge(d, r, L),
           FreeIn(Sessions, d.sessions) # {}
    PROVE  Moves(d, SelectionMade(d, r, seen), L, K)
<1> DEFINE c == r.challenge
           status == IF d.challenges[c].attempts + 1 = MaxAttempts THEN "revoked"
                                                                    ELSE d.challenges[c].status
           tried == [d.challenges[c] EXCEPT !.attempts = @ + 1, !.status = status]
           over == [d.challenges[c] EXCEPT !.status = "revoked"]
<1>1. c \in Challenges /\ d.challenges[c].status # "none"
  BY DEF RequestOK, RequestState
<1>2. d.challenges \in ChallengeRows /\ d.challenges[c] \in ChallengeState
  BY <1>1, RowsAreTables DEF Consistent, ChallengeRows
<1>3. MaxAttempts \in Nat /\ d.challenges[c].attempts \in 0..MaxAttempts
      /\ d.challenges[c].attempts < MaxAttempts
  BY <1>2, AuthenticationAssumption DEF HasChallenge, ChallengeState
<1>4. CASE r.choice = "not_offered"
  <2>1. SelectionMade(d, r, seen) = [d EXCEPT !.challenges[c] = tried]
    BY <1>1, <1>2, <1>4, RowsAreTables DEF SelectionMade, WronglyChosen, Consistent, ChallengeRows
  <2>2. /\ d.challenges[c].attempts + 1 \in 0..MaxAttempts
        /\ status = "revoked" \/ (status = d.challenges[c].status
                                  /\ d.challenges[c].attempts + 1 < MaxAttempts)
    BY <1>3
  <2> HIDE DEF status
  <2>3. /\ tried \in ChallengeState
        /\ tried.user = d.challenges[c].user
        /\ tried.attempts = d.challenges[c].attempts + 1
        /\ tried.status = status
    BY <1>2, <2>2 DEF ChallengeState
  <2> HIDE DEF tried
  <2> QED
    BY <1>1, <2>1, <2>2, <2>3, ChallengeRewritten DEF HasChallenge
<1>5. CASE r.choice = "offered" /\ seen.account.active
  BY <1>5, SelectedMoves DEF SelectionMade
<1>6. CASE r.choice # "not_offered" /\ ~(r.choice = "offered" /\ seen.account.active)
  <2>1. SelectionMade(d, r, seen) = [d EXCEPT !.challenges[c] = over]
    BY <1>1, <1>2, <1>6, RowsAreTables DEF SelectionMade, Consistent, ChallengeRows
  <2>2. /\ over \in ChallengeState /\ over.user = d.challenges[c].user
        /\ over.status \notin {"none", "open"}
    BY <1>2 DEF ChallengeState
  <2> HIDE DEF over
  <2> QED
    BY <1>1, <2>1, <2>2, ChallengeRewritten DEF HasChallenge
<1> QED
  BY <1>4, <1>5, <1>6

\* A request to switch, and the challenge it is answered with.
LEMMA SwitchMoves ==
    ASSUME NEW d, Consistent(d), NEW L, NEW K, NEW r, RequestOK(d, r), NEW seen \in SeenState,
           SweepsRows(d, seen), r.op = "switch_organization",
           FreeIn(Challenges, d.challenges) # {}
    PROVE  Moves(d, SwitchOffered(d, r, seen), L, K)
<1> DEFINE d1 == [d EXCEPT !.challenges = Revoked(@, seen.swept)]
<1>1. /\ seen.swept \in SUBSET Challenges /\ r.user \in Users
      /\ r.session \in Sessions \cup {None}
  BY DEF SeenState, RequestOK, RequestState
<1>2. /\ Moves(d, d1, L, K)
      /\ FreeIn(Challenges, Revoked(d.challenges, seen.swept)) = FreeIn(Challenges, d.challenges)
  BY <1>1, ChallengesRevoked DEF SweepsRows
<1>3. Consistent(d1) /\ d1.challenges = Revoked(d.challenges, seen.swept)
  BY <1>2, RowsAreTables DEF Moves, Consistent
<1>4. SwitchOffered(d, r, seen) = ChallengeAdded(d1, r.user, r.session)
  BY DEF SwitchOffered
<1> HIDE DEF d1
<1>5. Moves(d1, ChallengeAdded(d1, r.user, r.session), L, K)
  BY <1>1, <1>2, <1>3, ChallengeOpened
<1> QED
  BY <1>2, <1>4, <1>5, MovesCompose

\* Sessions and challenges revoked together.
Swept(d, ids, seen) ==
    [d EXCEPT !.sessions = Revoked(@, ids), !.challenges = Revoked(@, seen.swept)]
\* A sweep revokes what it found and opens nothing.
LEMMA SweepMoves ==
    ASSUME NEW d, Consistent(d), NEW L, NEW K, NEW seen \in SeenState, SweepsRows(d, seen),
           NEW ids \in SUBSET Sessions, \A s \in ids : d.sessions[s].status # "none"
    PROVE  /\ Moves(d, Swept(d, ids, seen), L, K)
           /\ Swept(d, ids, seen).accounts = d.accounts
           /\ Swept(d, ids, seen).sessions = Revoked(d.sessions, ids)
<1> DEFINE d1 == [d EXCEPT !.sessions = Revoked(@, ids)]
           d2 == [d1 EXCEPT !.challenges = Revoked(@, seen.swept)]
<1>1. seen.swept \in SUBSET Challenges
  BY DEF SeenState
<1>2. Moves(d, d1, L, K)
  BY SessionsRevoked
<1>3. /\ Consistent(d1) /\ d1.challenges = d.challenges /\ d1.accounts = d.accounts
      /\ d1.sessions = Revoked(d.sessions, ids) /\ d.sessions \in SessionRows
  BY <1>2, RowsAreTables DEF Moves, Consistent
<1>4. Swept(d, ids, seen) = d2
  BY DEF Swept
<1> HIDE DEF d1
<1>5. Moves(d1, d2, L, K)
  BY <1>1, <1>3, ChallengesRevoked DEF SweepsRows
<1>6. /\ d2.accounts = d.accounts /\ d2.sessions = Revoked(d.sessions, ids)
  BY <1>3, RowsAreTables DEF Consistent
<1> HIDE DEF d2
<1> QED
  BY <1>2, <1>4, <1>5, <1>6, MovesCompose

\* What a change of PIN does to the account and its session, and a session that is left.
Repinned(d, r, seen) ==
    [d EXCEPT !.accounts[r.user].pin = @ + 1, !.accounts[r.user].must_change = FALSE,
              !.sessions[r.session].step_up = None, !.challenges = Revoked(@, seen.swept)]
Left(d, s) == [d EXCEPT !.sessions = Revoked(@, {s})]

\* A change of PIN by its owner.
LEMMA PinChangedMoves ==
    ASSUME NEW d, Consistent(d), NEW L, NEW K, NEW r, RequestOK(d, r), NEW seen \in SeenState,
           SweepsRows(d, seen), r.op = "change_pin", HasAccount(d, r, L, seen),
           d.accounts[r.user].pin < MaxPins,
           FreeIn(Sessions, d.sessions) # {}, FreeIn(Challenges, d.challenges) # {}
    PROVE  Moves(d, PinChanged(d, r, seen), L, K)
<1> DEFINE u == r.user
           account == [d.accounts[u] EXCEPT !.pin = @ + 1, !.must_change = FALSE]
           d1 == [d EXCEPT !.accounts[u] = account]
           d2 == [d1 EXCEPT !.sessions[r.session].step_up = None]
           d3 == [d2 EXCEPT !.challenges = Revoked(@, seen.swept)]
           d4 == [d3 EXCEPT !.sessions = Revoked(@, {r.session})]
<1>1. /\ seen.swept \in SUBSET Challenges /\ u \in Users /\ r.session \in Sessions
      /\ d.sessions[r.session].status # "none"
  BY DEF SeenState, RequestOK, RequestState, SessionOperations
<1>2. d.accounts \in AccountRows /\ d.accounts[u] \in AccountState
  BY <1>1, RowsAreTables DEF Consistent, AccountRows
<1>3. MaxPins \in Nat /\ None \in 0..MaxPins /\ d.accounts[u].pin + 1 \in 1..MaxPins
  BY <1>2, AuthenticationAssumption DEF None, AccountState
<1>4. account \in AccountState /\ ~account.must_change
  BY <1>3, <1>2 DEF AccountState
<1>5. [d EXCEPT !.accounts[u].pin = @ + 1, !.accounts[u].must_change = FALSE] = d1
  BY <1>1, <1>2, RowsAreTables DEF Consistent, AccountRows
<1> HIDE DEF account
<1>6. Moves(d, d1, L, K)
  BY <1>1, <1>4, AccountRewritten DEF HasAccount
<1>7. /\ Consistent(d1) /\ d1.challenges = d.challenges /\ d1.sessions = d.sessions
      /\ d1.accounts[u] = account
  BY <1>1, <1>2, <1>6, RowsAreTables DEF Moves, Consistent, AccountRows
<1> HIDE DEF d1
<1>8. Moves(d1, d2, L, K) /\ FreeIn(Sessions, d2.sessions) = FreeIn(Sessions, d1.sessions)
  BY <1>3, <1>1, <1>7, StepUpRewritten
<1>9. /\ Consistent(d2) /\ d2.challenges = d.challenges /\ d2.accounts[u] = account
      /\ d2.sessions[r.session].status # "none"
  BY <1>1, <1>7, <1>8, RowsAreTables DEF Moves, Consistent, KeepsSessions
<1>10. PinChanged(d, r, seen) =
         IF d.sessions[r.session].purpose = "application" THEN d3 ELSE ContextIssued(d4, u)
  <2>1. d3 = [d2 EXCEPT !.challenges = Revoked(d.challenges, seen.swept)]
    BY <1>9
  <2>2. Repinned(d, r, seen) = d3
    BY <1>5, <2>1 DEF Repinned, d1
  <2>3. d4 = Left(Repinned(d, r, seen), r.session)
    BY <2>2 DEF Left
  <2>4. PinChanged(d, r, seen) =
            IF d.sessions[r.session].purpose = "application" THEN Repinned(d, r, seen)
            ELSE ContextIssued(Left(Repinned(d, r, seen), r.session), r.user)
    BY DEF PinChanged, Repinned, Left
  <2> QED
    BY <2>2, <2>3, <2>4
<1> HIDE DEF d2
<1>11. /\ Moves(d2, d3, L, K)
       /\ FreeIn(Challenges, Revoked(d2.challenges, seen.swept)) = FreeIn(Challenges, d2.challenges)
  <2>1. \A c \in seen.swept : d2.challenges[c].status # "none"
    BY <1>9 DEF SweepsRows
  <2> QED
    BY <1>1, <1>9, <2>1, ChallengesRevoked
<1>12. /\ Consistent(d3) /\ d3.sessions = d2.sessions /\ d3.accounts[u] = account
       /\ d3.challenges = Revoked(d2.challenges, seen.swept)
  BY <1>9, <1>11, RowsAreTables DEF Moves, Consistent
<1> HIDE DEF d3
<1>13. Moves(d, d3, L, K)
  BY <1>6, <1>8, <1>11, MovesCompose
<1>14. CASE d.sessions[r.session].purpose = "application"
  BY <1>10, <1>13, <1>14
<1>15. CASE d.sessions[r.session].purpose # "application"
  <2>1. {r.session} \in SUBSET Sessions
        /\ \A s \in {r.session} : d3.sessions[s].status # "none"
    BY <1>1, <1>9, <1>12
  <2>2. Moves(d3, d4, L, K)
        /\ FreeIn(Sessions, Revoked(d3.sessions, {r.session})) = FreeIn(Sessions, d3.sessions)
    BY <1>12, <2>1, SessionsRevoked
  <2>3. /\ Consistent(d4) /\ d4.accounts[u] = account /\ d4.challenges = d3.challenges
        /\ d4.sessions = Revoked(d3.sessions, {r.session})
    BY <1>12, <2>2, RowsAreTables DEF Moves, Consistent
  <2> HIDE DEF d4
  <2>4. FreeIn(Sessions, d4.sessions) # {} /\ FreeIn(Challenges, d4.challenges) # {}
    BY <1>7, <1>8, <1>9, <1>11, <1>12, <2>2, <2>3
  <2>5. Moves(d4, ContextIssued(d4, u), L, K)
    BY <1>1, <1>4, <2>3, <2>4, ContextMoves
  <2> QED
    BY <1>10, <1>13, <1>15, <2>2, <2>5, MovesCompose
<1> QED
  BY <1>14, <1>15

\* The live sessions of a user, which an operator revokes, end with their challenges.
LEMMA AllRevokedMoves ==
    ASSUME NEW d, Consistent(d), NEW L, NEW K, NEW r, NEW seen \in SeenState, SweepsRows(d, seen)
    PROVE  /\ Moves(d, AllRevoked(d, r, seen), L, K)
           /\ AllRevoked(d, r, seen).accounts = d.accounts
           /\ Live(AllRevoked(d, r, seen), r.user) = {}
<1> DEFINE e == AllRevoked(d, r, seen)
<1>1. Live(d, r.user) \in SUBSET Sessions
      /\ \A s \in Live(d, r.user) : d.sessions[s].status # "none"
  BY DEF Live
<1>2. e = Swept(d, Live(d, r.user), seen)
  BY DEF AllRevoked, Swept
<1> HIDE DEF e
<1>3. /\ Moves(d, e, L, K) /\ e.accounts = d.accounts
      /\ e.sessions = Revoked(d.sessions, Live(d, r.user))
  BY <1>1, <1>2, SweepMoves
<1>4. Live(e, r.user) = {}
  <2>1. d.sessions \in SessionRows
    BY RowsAreTables DEF Consistent
  <2>2. \A s \in Sessions :
            /\ e.sessions[s].status =
                    IF s \in Live(d, r.user) THEN "revoked" ELSE d.sessions[s].status
            /\ e.sessions[s].user = d.sessions[s].user
    BY <1>3, <2>1, RevokedSessions
  <2> QED
    BY <2>2 DEF Live
<1> QED
  BY <1>3, <1>4 DEF e

\* The reset of a PIN by an operator.
LEMMA PinResetMoves ==
    ASSUME NEW d, Consistent(d), NEW L, NEW K, NEW r, RequestOK(d, r), NEW seen \in SeenState,
           SweepsRows(d, seen), r.user \in Users, HasAccount(d, r, L, seen),
           d.accounts[r.user].pin < MaxPins
    PROVE  Moves(d, PinReset(d, r, seen), L, K)
<1> DEFINE u == r.user
           e == AllRevoked(d, r, seen)
           account == [e.accounts[u] EXCEPT !.pin = @ + 1, !.must_change = TRUE]
<1>1. Moves(d, e, L, K) /\ e.accounts = d.accounts /\ Live(e, u) = {}
  BY AllRevokedMoves
<1>2. Consistent(e) /\ MaxPins \in Nat
  BY <1>1, AuthenticationAssumption DEF Moves
<1> HIDE DEF e
<1>3. e.accounts \in AccountRows /\ e.accounts[u] \in AccountState
  BY <1>2, RowsAreTables DEF Consistent, AccountRows
<1>4. account \in AccountState
  <2>1. e.accounts[u].pin + 1 \in 1..MaxPins
    BY <1>1, <1>2, <1>3 DEF AccountState
  <2> QED
    BY <1>3, <2>1 DEF AccountState
<1>5. PinReset(d, r, seen) = [e EXCEPT !.accounts[u] = account]
  BY <1>2, <1>3, RowsAreTables DEF PinReset, Consistent, AccountRows, e
<1> HIDE DEF account
<1>6. Moves(e, [e EXCEPT !.accounts[u] = account], L, K)
  BY <1>1, <1>2, <1>4, AccountRewritten DEF HasAccount
<1> QED
  BY <1>1, <1>5, <1>6, MovesCompose

\* An account is switched off or on.
Switched(d, u, active) == [d EXCEPT !.accounts[u].active = active]
\* Only the holder of the account's row switches the account.
LEMMA ActivityMoves ==
    ASSUME NEW d, Consistent(d), NEW L, NEW K, NEW u \in Users, UserRow(u) \in L,
           NEW active \in BOOLEAN
    PROVE  Moves(d, Switched(d, u, active), L, K)
<1> DEFINE account == [d.accounts[u] EXCEPT !.active = active]
<1>1. d.accounts \in AccountRows /\ d.accounts[u] \in AccountState
  BY RowsAreTables DEF Consistent, AccountRows
<1>2. account \in AccountState /\ account.must_change = d.accounts[u].must_change
  BY <1>1 DEF AccountState
<1>3. Switched(d, u, active) = [d EXCEPT !.accounts[u] = account]
  BY DEF Switched
<1> HIDE DEF account
<1>4. account.must_change => \A s \in Live(d, u) : d.sessions[s].purpose # "application"
  BY <1>2 DEF Consistent, ChangesFirst, Live
<1>5. Moves(d, [d EXCEPT !.accounts[u] = account], L, K)
  BY <1>2, <1>4, AccountRewritten
<1> QED
  BY <1>3, <1>5

\* The deactivation of an account.
LEMMA DeactivatedMoves ==
    ASSUME NEW d, Consistent(d), NEW L, NEW K, NEW r, NEW seen \in SeenState,
           SweepsRows(d, seen), r.user \in Users, HasAccount(d, r, L, seen)
    PROVE  Moves(d, Deactivated(d, r, seen), L, K)
<1> DEFINE e == IF seen.account.active THEN AllRevoked(d, r, seen) ELSE d
<1>1. Moves(d, d, L, K)
  BY DEF Moves, KeepsAccounts, KeepsBuckets, KeepsChallenges, KeepsSessions, LetsInUnder,
         ConfirmsOnly
<1>2. Moves(d, e, L, K)
  BY <1>1, AllRevokedMoves
<1>3. Consistent(e)
  BY <1>2 DEF Moves
<1>4. Deactivated(d, r, seen) = Switched(e, r.user, FALSE)
  BY DEF Deactivated, Switched
<1> HIDE DEF e
<1>5. Moves(e, Switched(e, r.user, FALSE), L, K)
  BY <1>3, ActivityMoves DEF HasAccount
<1> QED
  BY <1>2, <1>4, <1>5, MovesCompose

\* A sign-out.
LEMMA SignedOutMoves ==
    ASSUME NEW d, Consistent(d), NEW L, NEW K, NEW r, RequestOK(d, r), NEW seen \in SeenState,
           SweepsRows(d, seen), r.op = "logout"
    PROVE  Moves(d, SignedOut(d, r, seen), L, K)
<1>1. {r.session} \in SUBSET Sessions /\ \A s \in {r.session} : d.sessions[s].status # "none"
  BY DEF RequestOK, RequestState, SessionOperations
<1>2. SignedOut(d, r, seen) = Swept(d, {r.session}, seen)
  BY DEF SignedOut, Swept
<1> QED
  BY <1>1, <1>2, SweepMoves

\* A request that has all its locks.
Complete(d, r, L, seen) ==
    /\ SweepsRows(d, seen)
    /\ r.op \in AccountOperations => HasAccount(d, r, L, seen)
    /\ r.op \in SignIns => HasOwn(d, r, L, seen) /\ HasAddress(d, L, seen)
    /\ r.op = "select_organization" => HasChallenge(d, r, L)
    /\ r.op = "recover_throttle_bucket" => BucketRow(r.user) \in L
Confirming(r, seen) ==
    IF r.op = "reauthenticate" /\ Right(r, seen) THEN {r.session} ELSE {}

\* Every request that commits moves the rows as it may, whatever it asked for.
LEMMA OutcomeMoves ==
    ASSUME NEW d, Consistent(d), NEW L, NEW r, RequestOK(d, r), NEW seen \in SeenState,
           Complete(d, r, L, seen), RoomFor(d, r)
    PROVE  Moves(d, Outcome(d, r, seen), L, Confirming(r, seen))
<1> DEFINE K == Confirming(r, seen)
<1>1. /\ FreeIn(Sessions, d.sessions) # {} /\ FreeIn(Challenges, d.challenges) # {}
      /\ r.op \in {"change_pin", "reset_user_pin"} => d.accounts[r.user].pin < MaxPins
  BY DEF RoomFor
<1>2. /\ r.op \in AllOperations /\ r.user \in Scopes /\ SweepsRows(d, seen)
      /\ r.op # "recover_throttle_bucket" => r.user \in Users
  BY DEF RequestOK, RequestState, Complete
<1>3. CASE r.op = "login" /\ Right(r, seen)
  <2>1. Outcome(d, r, seen) = SignedIn(d, r, seen)
    BY <1>3 DEF Outcome
  <2>2. HasAccount(d, r, L, seen) /\ HasOwn(d, r, L, seen) /\ HasAddress(d, L, seen)
    BY <1>3 DEF Complete, AccountOperations, SignIns
  <2> QED
    BY <1>1, <1>2, <1>3, <2>1, <2>2, SignedInMoves
<1>4. CASE r.op \in SignIns /\ ~Right(r, seen)
  <2>1. Outcome(d, r, seen) = SignInFailed(d, r, seen)
    BY <1>4 DEF Outcome, SignIns
  <2>2. HasOwn(d, r, L, seen) /\ HasAddress(d, L, seen) /\ r.user \in Users
    BY <1>2, <1>4 DEF Complete, SignIns
  <2> QED
    BY <2>1, <2>2, SignInFailedMoves
<1>5. CASE r.op = "reauthenticate" /\ Right(r, seen)
  <2>1. Outcome(d, r, seen) = Confirmed(d, r, seen)
    BY <1>5 DEF Outcome
  <2>2. HasOwn(d, r, L, seen) /\ HasAddress(d, L, seen) /\ r.session \in K
    BY <1>5 DEF Complete, SignIns, Confirming
  <2> QED
    BY <1>5, <2>1, <2>2, ConfirmedMoves
<1>6. CASE r.op = "select_organization"
  <2>1. Outcome(d, r, seen) = SelectionMade(d, r, seen)
    BY <1>6 DEF Outcome
  <2>2. HasAccount(d, r, L, seen) /\ HasChallenge(d, r, L)
    BY <1>6 DEF Complete, AccountOperations
  <2> QED
    BY <1>1, <1>6, <2>1, <2>2, SelectionMoves
<1>7. CASE r.op = "switch_organization"
  <2>1. Outcome(d, r, seen) = SwitchOffered(d, r, seen)
    BY <1>7 DEF Outcome
  <2> QED
    BY <1>1, <1>2, <1>7, <2>1, SwitchMoves
<1>8. CASE r.op = "logout"
  <2>1. Outcome(d, r, seen) = SignedOut(d, r, seen)
    BY <1>8 DEF Outcome
  <2> QED
    BY <1>2, <1>8, <2>1, SignedOutMoves
<1>9. CASE r.op = "change_pin"
  <2>1. Outcome(d, r, seen) = PinChanged(d, r, seen)
    BY <1>9 DEF Outcome
  <2>2. HasAccount(d, r, L, seen)
    BY <1>9 DEF Complete, AccountOperations
  <2> QED
    BY <1>1, <1>2, <1>9, <2>1, <2>2, PinChangedMoves
<1>10. CASE r.op = "reset_user_pin"
  <2>1. Outcome(d, r, seen) = PinReset(d, r, seen)
    BY <1>10 DEF Outcome
  <2>2. HasAccount(d, r, L, seen)
    BY <1>10 DEF Complete, AccountOperations
  <2> QED
    BY <1>1, <1>2, <1>10, <2>1, <2>2, PinResetMoves
<1>11. CASE r.op = "deactivate"
  <2>1. Outcome(d, r, seen) = Deactivated(d, r, seen)
    BY <1>11 DEF Outcome
  <2>2. HasAccount(d, r, L, seen)
    BY <1>11 DEF Complete, AccountOperations
  <2> QED
    BY <1>2, <1>11, <2>1, <2>2, DeactivatedMoves
<1>12. CASE r.op = "reactivate"
  <2>1. Outcome(d, r, seen) = Switched(d, r.user, TRUE)
    BY <1>12 DEF Outcome, Switched
  <2>2. UserRow(r.user) \in L
    BY <1>12 DEF Complete, AccountOperations, HasAccount
  <2> QED
    BY <1>2, <1>12, <2>1, <2>2, ActivityMoves
<1>13. CASE r.op = "recover_throttle_bucket"
  <2>1. Outcome(d, r, seen) = [d EXCEPT !.buckets[r.user] = NoBucket]
    BY <1>13 DEF Outcome
  <2>2. BucketRow(r.user) \in L /\ NoBucket \in Buckets
    BY <1>13 DEF Complete, NoBucket, Buckets
  <2> QED
    BY <1>2, <2>1, <2>2, BucketRewritten
<1> QED
  BY <1>2, <1>3, <1>4, <1>5, <1>6, <1>7, <1>8, <1>9, <1>10, <1>11, <1>12, <1>13
  DEF AllOperations, SignIns

-----------------------------------------------------------------------------
(* The locks of a request, one after another.                              *)
LockSet ==
    ({"user", "live_sessions", "open_challenges"} \X Users) \cup ({"bucket"} \X Scopes)
        \cup ({"session"} \X Sessions) \cup ({"challenge"} \X Challenges)

\* A lock after the others.
LEMMA OneMore ==
    ASSUME NEW n \in Nat, NEW locks, NEW S, locks \in Seq(S), Len(locks) = n, NEW x \in S
    PROVE  /\ Len(locks \o <<x>>) = n + 1
           /\ (locks \o <<x>>)[n + 1] = x
           /\ \A k \in 1..n : (locks \o <<x>>)[k] = locks[k]
<1>1. <<x>> \in Seq(S) /\ Len(<<x>>) = 1 /\ <<x>>[1] = x
  OBVIOUS
<1> DEFINE t == <<x>>
<1> HIDE DEF t
<1>2. t \in Seq(S) /\ Len(t) = 1 /\ t[1] = x
  BY <1>1 DEF t
<1>3. /\ Len(locks \o t) = n + 1
      /\ \A i \in 1..(n + 1) : (locks \o t)[i] = IF i <= n THEN locks[i] ELSE t[i - n]
  <2>1. /\ Len(locks \o t) = Len(locks) + Len(t)
        /\ \A i \in 1..(Len(locks) + Len(t)) :
                (locks \o t)[i] = IF i <= Len(locks) THEN locks[i] ELSE t[i - Len(locks)]
    BY <1>2, ConcatProperties
  <2> QED
    BY <1>2, <2>1
<1>4. n + 1 \in 1..(n + 1) /\ ~(n + 1 <= n) /\ (n + 1) - n = 1
  OBVIOUS
<1>5. (locks \o t)[n + 1] = x
  BY <1>2, <1>3, <1>4
<1> QED
  BY <1>3, <1>5 DEF t

\* The kind of each lock of a plan is that of its row.
LEMMA LockKinds ==
    ASSUME NEW x
    PROVE  /\ UserRow(x)[1] = "user" /\ BucketRow(x)[1] = "bucket"
           /\ SessionRow(x)[1] = "session" /\ ChallengeRow(x)[1] = "challenge"
           /\ LiveSessions(x)[1] = "live_sessions" /\ OpenChallenges(x)[1] = "open_challenges"
BY DEF UserRow, BucketRow, SessionRow, ChallengeRow, LiveSessions, OpenChallenges

\* What each lock of a plan is of.
LEMMA LockRows ==
    ASSUME NEW x
    PROVE  /\ UserRow(x)[2] = x /\ BucketRow(x)[2] = x
           /\ SessionRow(x)[2] = x /\ ChallengeRow(x)[2] = x
           /\ LiveSessions(x)[2] = x /\ OpenChallenges(x)[2] = x
BY DEF UserRow, BucketRow, SessionRow, ChallengeRow, LiveSessions, OpenChallenges

\* The locks that may be in a plan.
LEMMA LocksKnown ==
    /\ \A u \in Users : /\ UserRow(u) \in LockSet /\ LiveSessions(u) \in LockSet
                         /\ OpenChallenges(u) \in LockSet
    /\ \A b \in Scopes : BucketRow(b) \in LockSet
    /\ \A s \in Sessions : SessionRow(s) \in LockSet
    /\ \A c \in Challenges : ChallengeRow(c) \in LockSet
<1>1. \A u \in Users : /\ UserRow(u) \in LockSet /\ LiveSessions(u) \in LockSet
                       /\ OpenChallenges(u) \in LockSet
  BY DEF UserRow, LiveSessions, OpenChallenges, LockSet
<1>2. \A b \in Scopes : BucketRow(b) \in LockSet
  BY DEF BucketRow, LockSet
<1>3. \A s \in Sessions : SessionRow(s) \in LockSet
  BY DEF SessionRow, LockSet
<1>4. \A c \in Challenges : ChallengeRow(c) \in LockSet
  BY DEF ChallengeRow, LockSet
<1> QED
  BY <1>1, <1>2, <1>3, <1>4

\* The plan of a sign-in.
LEMMA SignInPlan ==
    ASSUME NEW d, NEW r, RequestOK(d, r), NEW seen, r.op \in SignIns
    PROVE  LET plan == Plan(r, seen)
           IN  /\ Len(plan) \in {3, 4}
               /\ plan[1] = UserRow(r.user) /\ plan[2] = BucketRow(r.user)
               /\ plan[3] = BucketRow(Address)
               /\ Len(plan) = 4 =>
                    \/ plan[4] = OpenChallenges(r.user)
                    \/ r.session \in Sessions /\ plan[4] = SessionRow(r.session)
<1> DEFINE u == r.user
           locks == SignInLocks(u)
           S == {UserRow(u), BucketRow(u), BucketRow(Address), OpenChallenges(u),
                 SessionRow(r.session)}
<1>1. /\ locks \in Seq(S) /\ Len(locks) = 3
      /\ locks[1] = UserRow(u) /\ locks[2] = BucketRow(u) /\ locks[3] = BucketRow(Address)
  BY DEF SignInLocks
<1>2. OpenChallenges(u) \in S /\ SessionRow(r.session) \in S
  OBVIOUS
<1> HIDE DEF locks, S
<1>3. \/ Plan(r, seen) = locks \o <<OpenChallenges(u)>>
      \/ r.op = "reauthenticate" /\ Plan(r, seen) = locks \o <<SessionRow(r.session)>>
      \/ Plan(r, seen) = locks \o << >>
  BY DEF Plan, SignIns, locks
<1>4. CASE Plan(r, seen) = locks \o <<OpenChallenges(u)>>
  BY <1>1, <1>2, <1>4, OneMore
<1>5. CASE r.op = "reauthenticate" /\ Plan(r, seen) = locks \o <<SessionRow(r.session)>>
  <2>1. r.session \in Sessions
    BY <1>5 DEF RequestOK, RequestState, SessionOperations
  <2> QED
    BY <1>1, <1>2, <1>5, <2>1, OneMore
<1>6. CASE Plan(r, seen) = locks \o << >>
  <2>1. Plan(r, seen) = locks
    BY <1>1, <1>6, ConcatEmptySeq
  <2> QED
    BY <1>1, <2>1
<1> QED
  BY <1>3, <1>4, <1>5, <1>6

\* The plan of a choice of an organization.
LEMMA SelectPlan ==
    ASSUME NEW d, NEW r, RequestOK(d, r), NEW seen, r.op = "select_organization"
    PROVE  LET plan == Plan(r, seen)
           IN  /\ Len(plan) \in {2, 3}
               /\ plan[1] = UserRow(r.user) /\ plan[2] = ChallengeRow(r.challenge)
               /\ Len(plan) = 3 => r.session \in Sessions /\ plan[3] = SessionRow(r.session)
<1> DEFINE locks == <<UserRow(r.user), ChallengeRow(r.challenge)>>
           S == {UserRow(r.user), ChallengeRow(r.challenge), SessionRow(r.session)}
<1>1. /\ locks \in Seq(S) /\ Len(locks) = 2
      /\ locks[1] = UserRow(r.user) /\ locks[2] = ChallengeRow(r.challenge)
  OBVIOUS
<1>2. SessionRow(r.session) \in S
  OBVIOUS
<1>3. Plan(r, seen) = SelectLocks(r)
  BY DEF Plan
<1>4. \/ r.session # None /\ Plan(r, seen) = locks \o <<SessionRow(r.session)>>
      \/ Plan(r, seen) = locks \o << >>
  BY <1>3 DEF SelectLocks
<1> HIDE DEF locks, S
<1>5. CASE r.session # None /\ Plan(r, seen) = locks \o <<SessionRow(r.session)>>
  <2>1. r.session \in Sessions
    BY <1>5 DEF RequestOK, RequestState
  <2> QED
    BY <1>1, <1>2, <1>5, <2>1, OneMore
<1>6. CASE Plan(r, seen) = locks \o << >>
  <2>1. Plan(r, seen) = locks
    BY <1>1, <1>6, ConcatEmptySeq
  <2> QED
    BY <1>1, <2>1
<1> QED
  BY <1>4, <1>5, <1>6

\* The plans of the other requests.
LEMMA OtherPlans ==
    ASSUME NEW d, NEW r, RequestOK(d, r), NEW seen, r.op \notin SignIns \cup {"select_organization"}
    PROVE  LET plan == Plan(r, seen)
           IN  /\ Len(plan) \in {1, 2, 3}
               /\ plan[1] \in LockSet
               /\ Len(plan) >= 2 => plan[2] \in LockSet /\ plan[2][1] # "user"
               /\ Len(plan) >= 3 => plan[3] \in LockSet /\ plan[3][1] # "user"
               /\ r.op \in AccountOperations => plan[1] = UserRow(r.user)
               /\ r.op = "recover_throttle_bucket" =>
                    Len(plan) = 1 /\ plan[1] = BucketRow(r.user)
<1> DEFINE u == r.user
           plan == Plan(r, seen)
<1>1. /\ r.op \in AllOperations /\ u \in Scopes
      /\ r.op # "recover_throttle_bucket" => u \in Users
      /\ r.op \in SessionOperations => r.session \in Sessions
  BY DEF RequestOK, RequestState
<1>2. CASE r.op = "switch_organization"
  <2>1. Len(plan) = 1 /\ plan[1] = OpenChallenges(u)
    BY <1>2 DEF Plan
  <2>2. {OpenChallenges(u)} \subseteq LockSet
    BY <1>1, <1>2, LocksKnown DEF SessionOperations
  <2> QED
    BY <1>2, <2>1, <2>2 DEF AccountOperations, SignIns
<1>3. CASE r.op = "logout"
  <2>1. Len(plan) = 2 /\ plan[1] = OpenChallenges(u) /\ plan[2] = SessionRow(r.session)
    BY <1>3 DEF Plan
  <2>2. {OpenChallenges(u), SessionRow(r.session)} \subseteq LockSet
    BY <1>1, <1>3, LocksKnown DEF SessionOperations
  <2>3. SessionRow(r.session)[1] # "user"
    BY LockKinds
  <2> QED
    BY <1>3, <2>1, <2>2, <2>3 DEF AccountOperations, SignIns
<1>4. CASE r.op = "change_pin"
  <2>1. /\ Len(plan) = 3
        /\ plan[1] = UserRow(u) /\ plan[2] = SessionRow(r.session) /\ plan[3] = OpenChallenges(u)
    BY <1>4 DEF Plan
  <2>2. {UserRow(u), SessionRow(r.session), OpenChallenges(u)} \subseteq LockSet
    BY <1>1, <1>4, LocksKnown DEF SessionOperations
  <2>3. SessionRow(r.session)[1] # "user" /\ OpenChallenges(u)[1] # "user"
    BY LockKinds
  <2> QED
    BY <1>4, <2>1, <2>2, <2>3 DEF AccountOperations, SignIns
<1>5. CASE r.op \in {"reset_user_pin", "deactivate"}
  <2>1. /\ Len(plan) = 3
        /\ plan[1] = UserRow(u) /\ plan[2] = LiveSessions(u) /\ plan[3] = OpenChallenges(u)
    BY <1>5 DEF Plan
  <2>2. {UserRow(u), LiveSessions(u), OpenChallenges(u)} \subseteq LockSet
    BY <1>1, <1>5, LocksKnown DEF SessionOperations
  <2>3. LiveSessions(u)[1] # "user" /\ OpenChallenges(u)[1] # "user"
    BY LockKinds
  <2> QED
    BY <1>5, <2>1, <2>2, <2>3 DEF AccountOperations, SignIns
<1>6. CASE r.op = "reactivate"
  <2>1. Len(plan) = 1 /\ plan[1] = UserRow(u)
    BY <1>6 DEF Plan
  <2>2. {UserRow(u)} \subseteq LockSet
    BY <1>1, <1>6, LocksKnown DEF SessionOperations
  <2> QED
    BY <1>6, <2>1, <2>2 DEF AccountOperations, SignIns
<1>7. CASE r.op = "recover_throttle_bucket"
  <2>1. Len(plan) = 1 /\ plan[1] = BucketRow(u)
    BY <1>7 DEF Plan
  <2>2. {BucketRow(u)} \subseteq LockSet
    BY <1>1, <1>7, LocksKnown DEF SessionOperations
  <2> QED
    BY <1>7, <2>1, <2>2 DEF AccountOperations, SignIns
<1> QED
  BY <1>1, <1>2, <1>3, <1>4, <1>5, <1>6, <1>7 DEF AllOperations, SignIns


-----------------------------------------------------------------------------
(* What a request learns under a lock.                                     *)
Learns(d, seen, lock, after) ==
    /\ after \in SeenState
    /\ SweepsRows(d, after)
    /\ lock[1] # "user" => after.account = seen.account
    /\ \A u \in Users : lock = UserRow(u) => after.account = d.accounts[u]
    /\ lock[1] # "bucket" => after.own = seen.own /\ after.address = seen.address
    /\ lock = BucketRow(Address) =>
            after.address = Current(d.buckets[Address]) /\ after.own = seen.own
    /\ \A u \in Users : lock = BucketRow(u) =>
            after.own = Current(d.buckets[u]) /\ after.address = seen.address

\* What a lock adds to what was seen; nothing that was seen is forgotten.
LEMMA LoadFacts ==
    ASSUME NEW d, Consistent(d), NEW r, NEW seen \in SeenState, SweepsRows(d, seen),
           NEW lock \in LockSet
    PROVE  Learns(d, seen, lock, Load(d, r, seen, lock))
<1> DEFINE after == Load(d, r, seen, lock)
<1>1. /\ d.accounts \in AccountRows /\ d.buckets \in BucketRows /\ d.sessions \in SessionRows
  BY RowsAreTables DEF Consistent
<1>2. Address \in Scopes /\ \A u \in Users : u \in Scopes /\ u # Address
  BY ScopesApart DEF Scopes
<1>3. CASE lock[1] = "user"
  <2>1. lock[2] \in Users
    BY <1>3 DEF LockSet
  <2>2. /\ \A u \in Users : lock = UserRow(u) => lock[2] = u
        /\ lock # BucketRow(Address) /\ \A u \in Users : lock # BucketRow(u)
    <3>1. /\ \A u : lock = UserRow(u) => lock[2] = u
          /\ \A u : lock # BucketRow(u)
      BY <1>3, LockKinds, LockRows
    <3> QED
      BY <3>1
  <2>3. after = [seen EXCEPT !.account = d.accounts[lock[2]]]
    BY <1>3, <2>2 DEF Load
  <2>4. d.accounts[lock[2]] \in [pin : 0..MaxPins, must_change : BOOLEAN, active : BOOLEAN]
    BY <1>1, <2>1 DEF AccountRows, AccountState
  <2> HIDE DEF after
  <2>5. /\ after \in SeenState /\ after.account = d.accounts[lock[2]]
        /\ after.own = seen.own /\ after.address = seen.address /\ after.swept = seen.swept
    BY <2>3, <2>4 DEF SeenState
  <2> QED
    BY <1>3, <2>5, <2>2 DEF Learns, SweepsRows, after
<1>4. CASE lock = BucketRow(Address)
  <2>1. lock[1] = "bucket" /\ lock[2] = Address
    BY <1>4, LockKinds, LockRows
  <2>2. after = [seen EXCEPT !.address = Current(d.buckets[Address])]
    BY <1>4, <2>1 DEF Load
  <2>3. Current(d.buckets[Address]) \in Buckets
    BY <1>1, <1>2, BucketsAreBuckets DEF BucketRows
  <2> HIDE DEF after
  <2>4. /\ after \in SeenState /\ after.address = Current(d.buckets[Address])
        /\ after.own = seen.own /\ after.account = seen.account /\ after.swept = seen.swept
    BY <2>2, <2>3 DEF SeenState
  <2>5. /\ \A u \in Users : lock # BucketRow(u)
        /\ \A u \in Users : lock # UserRow(u)
    <3>1. \A u \in Users : BucketRow(u)[2] = u /\ UserRow(u)[1] = "user"
      BY LockKinds, LockRows
    <3> QED
      BY <1>2, <2>1, <3>1
  <2> QED
    BY <2>1, <2>4, <2>5 DEF Learns, SweepsRows, after
<1>5. CASE lock[1] = "bucket" /\ lock # BucketRow(Address)
  <2>1. lock[2] \in Scopes /\ lock[2] # Address
    <3>1. lock \in {"bucket"} \X Scopes
      BY <1>5 DEF LockSet
    <3>2. lock = <<lock[1], lock[2]>> /\ lock[2] \in Scopes
      BY <3>1
    <3> QED
      BY <1>5, <3>2 DEF BucketRow
  <2>2. after = [seen EXCEPT !.own = Current(d.buckets[lock[2]])]
    BY <1>5, <2>1 DEF Load
  <2>3. Current(d.buckets[lock[2]]) \in Buckets
    BY <1>1, <2>1, BucketsAreBuckets DEF BucketRows
  <2> HIDE DEF after
  <2>4. /\ after \in SeenState /\ after.own = Current(d.buckets[lock[2]])
        /\ after.address = seen.address /\ after.account = seen.account
        /\ after.swept = seen.swept
    BY <2>2, <2>3 DEF SeenState
  <2>5. /\ \A u \in Users : lock = BucketRow(u) => lock[2] = u
        /\ \A u \in Users : lock # UserRow(u)
    BY <1>5, LockKinds, LockRows
  <2> QED
    BY <1>5, <2>4, <2>5 DEF Learns, SweepsRows, after
<1>6. CASE lock[1] \notin {"user", "bucket"}
  <2>1. /\ \A u \in Users : lock # UserRow(u) /\ lock # BucketRow(u)
        /\ lock # BucketRow(Address)
    BY <1>6, LockKinds
  <2>2. CASE lock[1] = "session"
    <3>1. after = [seen EXCEPT !.live = d.sessions[lock[2]].status # "revoked"]
      BY <2>1, <2>2 DEF Load
    <3> DEFINE live == d.sessions[lock[2]].status # "revoked"
    <3>2. live \in BOOLEAN /\ after = [seen EXCEPT !.live = live]
      BY <3>1
    <3> HIDE DEF live, after
    <3>3. /\ after \in SeenState /\ after.own = seen.own
          /\ after.address = seen.address /\ after.account = seen.account
          /\ after.swept = seen.swept
      BY <3>2 DEF SeenState
    <3> QED
      BY <1>6, <2>1, <3>3 DEF Learns, SweepsRows, after
  <2>3. CASE lock[1] = "open_challenges"
    <3>1. after = [seen EXCEPT !.swept = OpenOf(d, lock[2])]
      BY <2>1, <2>3 DEF Load
    <3>2. /\ OpenOf(d, lock[2]) \in SUBSET Challenges
          /\ \A c \in OpenOf(d, lock[2]) : d.challenges[c].status # "none"
      BY DEF OpenOf
    <3> HIDE DEF after
    <3>3. /\ after \in SeenState /\ after.own = seen.own
          /\ after.address = seen.address /\ after.account = seen.account
          /\ after.swept = OpenOf(d, lock[2])
      BY <3>1, <3>2 DEF SeenState
    <3> QED
      BY <1>6, <2>1, <3>2, <3>3 DEF Learns, SweepsRows, after
  <2>4. CASE lock[1] \notin {"session", "open_challenges"}
    <3>1. after = seen
      BY <1>6, <2>1, <2>4 DEF Load
    <3> HIDE DEF after
    <3> QED
      BY <1>6, <2>1, <3>1 DEF Learns, after
  <2> QED
    BY <2>2, <2>3, <2>4
<1> QED
  BY <1>3, <1>4, <1>5, <1>6

\* The rows behind a lock.
LEMMA LockedFacts ==
    ASSUME NEW d, NEW lock \in LockSet
    PROVE  /\ LockedRows(d, lock) \in SUBSET LockSet
           /\ lock[1] \in {"user", "bucket", "challenge"} => LockedRows(d, lock) = {lock}
<1>1. CASE lock[1] = "live_sessions"
  BY <1>1, LocksKnown DEF LockedRows, Live
<1>2. CASE lock[1] = "open_challenges"
  BY <1>2, LocksKnown DEF LockedRows, OpenOf
<1>3. CASE lock[1] \notin {"live_sessions", "open_challenges"}
  BY <1>3 DEF LockedRows
<1> QED
  BY <1>1, <1>2, <1>3

\* The plan of a request depends on what it saw of the account only.
LEMMA PlanDepends ==
    ASSUME NEW r, r.op \in AllOperations, NEW seen, NEW after,
           after.account = seen.account \/ r.op \notin SignIns
    PROVE  Plan(r, after) = Plan(r, seen)
<1>1. CASE after.account = seen.account
  BY <1>1 DEF Plan, Right
<1>2. CASE r.op \notin SignIns
  BY <1>2 DEF Plan, SignIns, AllOperations
<1> QED
  BY <1>1, <1>2

\* Where the lock of a sign-in stands tells its kind.
LEMMA SignInOrder ==
    ASSUME NEW u, NEW s, NEW n \in Nat, NEW lock,
           \/ n = 0 /\ lock = UserRow(u)
           \/ n = 1 /\ lock = BucketRow(u)
           \/ n = 2 /\ lock = BucketRow(Address)
           \/ n = 3 /\ lock = OpenChallenges(u)
           \/ n = 3 /\ lock = SessionRow(s)
    PROVE  /\ n >= 1 => lock[1] # "user"
           /\ n >= 2 => lock = BucketRow(Address) \/ lock[1] # "bucket"
           /\ n >= 3 => lock[1] # "bucket"
<1>1. /\ BucketRow(u)[1] = "bucket" /\ BucketRow(Address)[1] = "bucket"
      /\ OpenChallenges(u)[1] = "open_challenges" /\ SessionRow(s)[1] = "session"
  BY LockKinds
<1>2. CASE n = 0 /\ lock = UserRow(u)
  BY <1>2
<1>3. CASE n = 1 /\ lock = BucketRow(u)
  <2>1. lock[1] = "bucket"
    BY <1>1, <1>3
  <2> QED
    BY <1>3, <2>1
<1>4. CASE n = 2 /\ lock = BucketRow(Address)
  <2>1. lock[1] = "bucket"
    BY <1>1, <1>4
  <2> QED
    BY <1>4, <2>1
<1>5. CASE n = 3 /\ (lock = OpenChallenges(u) \/ lock = SessionRow(s))
  <2>1. lock[1] # "user" /\ lock[1] # "bucket"
    BY <1>1, <1>5
  <2> QED
    BY <2>1
<1> QED
  BY <1>2, <1>3, <1>4, <1>5

\* So does where the lock of a choice stands.
LEMMA SelectOrder ==
    ASSUME NEW u, NEW c, NEW s, NEW n \in Nat, NEW lock,
           \/ n = 0 /\ lock = UserRow(u)
           \/ n = 1 /\ lock = ChallengeRow(c)
           \/ n = 2 /\ lock = SessionRow(s)
    PROVE  /\ n = 0 => lock = UserRow(u) /\ lock[1] = "user"
           /\ n >= 1 => lock[1] # "user"
           /\ n = 1 => lock = ChallengeRow(c) /\ lock[1] = "challenge" /\ lock[2] = c
<1>1. /\ UserRow(u)[1] = "user" /\ SessionRow(s)[1] = "session"
      /\ ChallengeRow(c)[1] = "challenge" /\ ChallengeRow(c)[2] = c
  BY LockKinds, LockRows
<1>2. CASE n = 0 /\ lock = UserRow(u)
  <2>1. lock[1] = "user"
    BY <1>1, <1>2
  <2> QED
    BY <1>2, <2>1
<1>3. CASE n = 1 /\ lock = ChallengeRow(c)
  <2>1. lock[1] = "challenge" /\ lock[2] = c
    BY <1>1, <1>3
  <2> QED
    BY <1>3, <2>1
<1>4. CASE n = 2 /\ lock = SessionRow(s)
  <2>1. lock[1] = "session"
    BY <1>1, <1>4
  <2> QED
    BY <1>4, <2>1
<1> QED
  BY <1>2, <1>3, <1>4

\* A sign-in holds its account, then its two buckets unless they are blocked.
LEMMA SignInHolds ==
    ASSUME NEW d, Consistent(d), NEW r, RequestOK(d, r), NEW seen, NEW n \in Nat, NEW L,
           Holds(d, r, n, L, seen), NEW lock \in LockSet,
           NEW after, Learns(d, seen, lock, after), LockCheck(d, r, after, lock),
           r.op \in SignIns,
           \/ n = 0 /\ lock = UserRow(r.user)
           \/ n = 1 /\ lock = BucketRow(r.user)
           \/ n = 2 /\ lock = BucketRow(Address)
           \/ n = 3 /\ lock = OpenChallenges(r.user)
           \/ n = 3 /\ lock = SessionRow(r.session)
    PROVE  /\ Holds(d, r, n + 1, L \cup LockedRows(d, lock), after)
           /\ n >= 1 => after.account = seen.account
<1> DEFINE more == L \cup LockedRows(d, lock)
<1>1. r.op \in AllOperations /\ r.challenge \in Challenges \cup {None} /\ r.user \in Scopes
     /\ (r.op # "recover_throttle_bucket" => r.user \in Users)
  BY DEF RequestOK, RequestState
<1>2. r.user \in Users /\ r.user # Address /\ Address \in Scopes /\ r.user \in Scopes
  BY <1>1, ScopesApart DEF SignIns
<1>3. n = 0 \/ n >= 1
  OBVIOUS
<1>4. /\ UserRow(r.user)[1] = "user"
      /\ BucketRow(r.user)[1] = "bucket"
      /\ BucketRow(Address)[1] = "bucket"
      /\ OpenChallenges(r.user)[1] = "open_challenges" /\ SessionRow(r.session)[1] = "session"
      /\ ChallengeRow(r.challenge)[1] = "challenge"
  BY LockKinds
<1>5. /\ BucketRow(r.user)[2] = r.user /\ BucketRow(Address)[2] = Address
      /\ ChallengeRow(r.challenge)[2] = r.challenge
  BY LockRows
<1>6. lock[1] \in {"user", "bucket", "challenge"} => lock \in more
  BY LockedFacts
<1>7. /\ n >= 1 => lock[1] # "user"
      /\ n >= 2 => lock = BucketRow(Address) \/ lock[1] # "bucket"
      /\ n >= 3 => lock[1] # "bucket"
  BY SignInOrder
<1>8. CASE n = 0 /\ lock = UserRow(r.user)
  <2>1. lock \in more
    BY <1>8, <1>4, <1>6
  <2>2. after.account = d.accounts[r.user]
    BY <1>2, <1>8 DEF Learns
  <2>3. r.op # "select_organization" /\ r.op # "recover_throttle_bucket"
    BY DEF SignIns
  <2> QED
    BY <1>8, <2>1, <2>2, <2>3 DEF Holds, Learns, HasAccount
<1>9. CASE n >= 1
  <2>1. lock[1] # "user"
    BY <1>9, <1>7
  <2>2. after.account = seen.account
    BY <2>1 DEF Learns
  <2>3. HasAccount(d, r, more, after)
    BY <1>9, <2>2 DEF Holds, HasAccount, AccountOperations
  <2>4. HasOwn(d, r, more, after)
    <3>1. CASE n = 1 /\ lock = BucketRow(r.user)
      <4>1. lock \in more /\ lock[1] = "bucket" /\ lock[2] = r.user
        BY <3>1, <1>4, <1>5, <1>6
      <4>2. after.own = Current(d.buckets[r.user])
        BY <1>2, <3>1 DEF Learns
      <4>3. ~Current(d.buckets[r.user]).blocked
        BY <4>1 DEF LockCheck, SignIns
      <4> QED
        BY <3>1, <4>1, <4>2, <4>3 DEF HasOwn
    <3>2. CASE n >= 2
      <4>1. HasOwn(d, r, L, seen)
        BY <3>2 DEF Holds
      <4>2. lock = BucketRow(Address) \/ lock[1] # "bucket"
        BY <3>2, <1>7
      <4>3. after.own = seen.own
        BY <4>2 DEF Learns
      <4> QED
        BY <4>1, <4>3 DEF HasOwn
    <3> QED
      BY <1>9, <3>1, <3>2
  <2>5. n + 1 >= 3 => HasAddress(d, more, after)
    <3>1. CASE n = 2 /\ lock = BucketRow(Address)
      <4>1. lock \in more /\ lock[1] = "bucket" /\ lock[2] = Address
        BY <3>1, <1>4, <1>5, <1>6
      <4>2. after.address = Current(d.buckets[Address])
        BY <3>1 DEF Learns
      <4>3. ~Current(d.buckets[Address]).blocked
        BY <4>1 DEF LockCheck, SignIns
      <4> QED
        BY <3>1, <4>1, <4>2, <4>3 DEF HasAddress
    <3>2. CASE n >= 3
      <4>1. HasAddress(d, L, seen)
        BY <3>2 DEF Holds
      <4>2. lock[1] # "bucket"
        BY <3>2, <1>7
      <4>3. after.address = seen.address
        BY <4>2 DEF Learns
      <4> QED
        BY <4>1, <4>3 DEF HasAddress
    <3> QED
      BY <3>1, <3>2
  <2>6. r.op # "select_organization" /\ r.op # "recover_throttle_bucket"
    BY DEF SignIns
  <2>7. SweepsRows(d, after)
    BY DEF Learns
  <2>8. n + 1 # 0
    BY <1>9
  <2>9. /\ n + 1 >= 1 => HasAccount(d, r, more, after)
        /\ n + 1 >= 2 => HasOwn(d, r, more, after)
        /\ n + 1 >= 3 => HasAddress(d, more, after)
    BY <2>3, <2>4, <2>5
  <2> HIDE DEF more
  <2>10. Holds(d, r, n + 1, more, after)
    BY <2>9, <2>6, <2>7, <2>8 DEF Holds
  <2> QED
    BY <2>2, <2>10 DEF more
<1> QED
  BY <1>8, <1>9, <1>3

\* A choice holds its account, then its challenge if it is still open.
LEMMA SelectHolds ==
    ASSUME NEW d, Consistent(d), NEW r, RequestOK(d, r), NEW seen, NEW n \in Nat, NEW L,
           Holds(d, r, n, L, seen), NEW lock \in LockSet,
           NEW after, Learns(d, seen, lock, after), LockCheck(d, r, after, lock),
           r.op = "select_organization",
           \/ n = 0 /\ lock = UserRow(r.user)
           \/ n = 1 /\ lock = ChallengeRow(r.challenge)
           \/ n = 2 /\ lock = SessionRow(r.session)
    PROVE  Holds(d, r, n + 1, L \cup LockedRows(d, lock), after)
<1> DEFINE more == L \cup LockedRows(d, lock)
<1>1. r.op \in AllOperations /\ r.challenge \in Challenges \cup {None} /\ r.user \in Scopes
     /\ (r.op # "recover_throttle_bucket" => r.user \in Users)
  BY DEF RequestOK, RequestState
<1>2. r.user \in Users /\ r.challenge \in Challenges /\ r.challenge # None
  BY <1>1 DEF RequestOK
<1>3. /\ UserRow(r.user)[1] = "user"
      /\ BucketRow(r.user)[1] = "bucket"
      /\ BucketRow(Address)[1] = "bucket"
      /\ OpenChallenges(r.user)[1] = "open_challenges" /\ SessionRow(r.session)[1] = "session"
      /\ ChallengeRow(r.challenge)[1] = "challenge"
  BY LockKinds
<1>4. /\ BucketRow(r.user)[2] = r.user /\ BucketRow(Address)[2] = Address
      /\ ChallengeRow(r.challenge)[2] = r.challenge
  BY LockRows
<1>5. lock[1] \in {"user", "bucket", "challenge"} => lock \in more
  BY LockedFacts
<1>6. /\ n = 0 => lock = UserRow(r.user) /\ lock[1] = "user"
      /\ n >= 1 => lock[1] # "user"
      /\ n = 1 => lock = ChallengeRow(r.challenge) /\ lock[1] = "challenge"
                  /\ lock[2] = r.challenge
  BY SelectOrder
<1>7. r.op \notin SignIns /\ r.op # "recover_throttle_bucket"
  BY DEF SignIns
<1>8. HasAccount(d, r, more, after)
  <2>1. CASE n = 0
    <3>1. lock = UserRow(r.user) /\ lock \in more
      BY <2>1, <1>6, <1>5
    <3>2. after.account = d.accounts[r.user]
      BY <1>2, <3>1 DEF Learns
    <3> QED
      BY <3>1, <3>2 DEF HasAccount
  <2>2. CASE n >= 1
    <3>1. lock[1] # "user"
      BY <2>2, <1>6
    <3>2. after.account = seen.account
      BY <3>1 DEF Learns
    <3> QED
      BY <2>2, <3>2 DEF Holds, HasAccount, AccountOperations
  <2> QED
    BY <2>1, <2>2
<1>9. n + 1 >= 2 => HasChallenge(d, r, more)
  <2>1. CASE n = 1
    <3>1. lock = ChallengeRow(r.challenge) /\ lock \in more
          /\ lock[1] = "challenge" /\ lock[2] = r.challenge
      BY <2>1, <1>6, <1>5
    <3>2. d.challenges[r.challenge].status = "open"
      BY <3>1 DEF LockCheck, Usable
    <3>3. d.challenges[r.challenge].attempts < MaxAttempts
      BY <1>2, <3>2 DEF Consistent, AttemptsLeft
    <3>4. \A s \in Sessions : d.sessions[s].challenge # r.challenge
      BY <1>2, <3>2 DEF Consistent, ChallengesSpent
    <3> QED
      BY <3>1, <3>3, <3>4 DEF HasChallenge
  <2>2. CASE n >= 2
    BY <2>2 DEF Holds, HasChallenge
  <2> QED
    BY <2>1, <2>2
<1> QED
  BY <1>7, <1>8, <1>9 DEF Holds, Learns

\* The other requests on an account hold it; a recovery holds its bucket.
LEMMA OtherHolds ==
    ASSUME NEW d, Consistent(d), NEW r, RequestOK(d, r), NEW seen, NEW n \in Nat, NEW L,
           Holds(d, r, n, L, seen), NEW lock \in LockSet,
           NEW after, Learns(d, seen, lock, after), LockCheck(d, r, after, lock),
           r.op \notin SignIns \cup {"select_organization"},
           r.op \in AccountOperations /\ n = 0 => lock = UserRow(r.user),
           n >= 1 => lock[1] # "user",
           r.op = "recover_throttle_bucket" => n = 0 /\ lock = BucketRow(r.user)
    PROVE  Holds(d, r, n + 1, L \cup LockedRows(d, lock), after)
<1> DEFINE more == L \cup LockedRows(d, lock)
<1>1. r.op \in AllOperations /\ r.challenge \in Challenges \cup {None} /\ r.user \in Scopes
     /\ (r.op # "recover_throttle_bucket" => r.user \in Users)
  BY DEF RequestOK, RequestState
<1>2. /\ UserRow(r.user)[1] = "user"
      /\ BucketRow(r.user)[1] = "bucket"
      /\ BucketRow(Address)[1] = "bucket"
      /\ OpenChallenges(r.user)[1] = "open_challenges" /\ SessionRow(r.session)[1] = "session"
      /\ ChallengeRow(r.challenge)[1] = "challenge"
  BY LockKinds
<1>3. /\ BucketRow(r.user)[2] = r.user /\ BucketRow(Address)[2] = Address
      /\ ChallengeRow(r.challenge)[2] = r.challenge
  BY LockRows
<1>4. lock[1] \in {"user", "bucket", "challenge"} => lock \in more
  BY LockedFacts
<1>5. r.op \in AccountOperations => HasAccount(d, r, more, after)
  <2> HAVE r.op \in AccountOperations
  <2>1. CASE n = 0
    <3>1. lock = UserRow(r.user) /\ lock \in more
      BY <2>1, <1>2, <1>3, <1>4
    <3>2. r.user \in Users
      BY <1>1 DEF AccountOperations, SignIns
    <3>3. after.account = d.accounts[r.user]
      BY <3>1, <3>2 DEF Learns
    <3> QED
      BY <3>1, <3>3 DEF HasAccount
  <2>2. CASE n >= 1
    <3>1. after.account = seen.account
      BY <2>2 DEF Learns
    <3> QED
      BY <2>2, <3>1 DEF Holds, HasAccount
  <2> QED
    BY <2>1, <2>2
<1>6. r.op = "recover_throttle_bucket" => BucketRow(r.user) \in more
  BY <1>2, <1>4
<1> QED
  BY <1>5, <1>6 DEF Holds, Learns

\* A lock that passes its check gives the request what it holds from then on.
LEMMA AcquireHolds ==
    ASSUME NEW d, Consistent(d), NEW r, RequestOK(d, r), NEW seen \in SeenState,
           NEW n \in Nat, n < Len(Plan(r, seen)), NEW L, Holds(d, r, n, L, seen),
           NEW lock, lock = Plan(r, seen)[n + 1],
           LockCheck(d, r, Load(d, r, seen, lock), lock)
    PROVE  /\ lock \in LockSet
           /\ Load(d, r, seen, lock) \in SeenState
           /\ n + 1 <= Len(Plan(r, Load(d, r, seen, lock)))
           /\ Holds(d, r, n + 1, L \cup LockedRows(d, lock), Load(d, r, seen, lock))
<1> DEFINE after == Load(d, r, seen, lock)
<1>1. /\ r.op \in AllOperations /\ r.user \in Scopes
      /\ r.op # "recover_throttle_bucket" => r.user \in Users
      /\ r.op = "select_organization" => r.challenge \in Challenges
      /\ Address \in Scopes
  BY DEF RequestOK, RequestState, Scopes
<1>2. lock \in LockSet => Learns(d, seen, lock, after)
  BY LoadFacts DEF Holds
<1>3. Learns(d, seen, lock, after) => after \in SeenState
  BY DEF Learns
<1>4. CASE r.op \in SignIns
  <2>1. /\ Len(Plan(r, seen)) \in {3, 4}
        /\ Plan(r, seen)[1] = UserRow(r.user) /\ Plan(r, seen)[2] = BucketRow(r.user)
        /\ Plan(r, seen)[3] = BucketRow(Address)
        /\ Len(Plan(r, seen)) = 4 =>
                \/ Plan(r, seen)[4] = OpenChallenges(r.user)
                \/ r.session \in Sessions /\ Plan(r, seen)[4] = SessionRow(r.session)
    BY <1>4, SignInPlan
  <2>2. \/ n = 0 /\ lock = UserRow(r.user)
        \/ n = 1 /\ lock = BucketRow(r.user)
        \/ n = 2 /\ lock = BucketRow(Address)
        \/ n = 3 /\ lock = OpenChallenges(r.user)
        \/ n = 3 /\ r.session \in Sessions /\ lock = SessionRow(r.session)
    BY <2>1
  <2>3. r.user \in Users
    BY <1>1, <1>4 DEF SignIns
  <2>4. lock \in LockSet
    BY <1>1, <2>2, <2>3, LocksKnown
  <2>5. Learns(d, seen, lock, after) /\ after \in SeenState
    BY <1>2, <1>3, <2>4
  <2> HIDE DEF after
  <2>6. /\ Holds(d, r, n + 1, L \cup LockedRows(d, lock), after)
        /\ n >= 1 => after.account = seen.account
    BY <1>4, <2>2, <2>4, <2>5, SignInHolds DEF after
  <2>7. Len(Plan(r, after)) \in {3, 4}
    BY <1>4, SignInPlan
  <2>8. n >= 1 => Plan(r, after) = Plan(r, seen)
    BY <1>1, <2>6, PlanDepends
  <2>9. n + 1 <= Len(Plan(r, after))
    <3>1. CASE n = 0
      BY <2>7, <3>1
    <3>2. CASE n >= 1
      <4>1. Plan(r, after) = Plan(r, seen)
        BY <2>8, <3>2
      <4>2. n + 1 <= Len(Plan(r, seen))
        BY <2>1
      <4> QED
        BY <4>1, <4>2
    <3> QED
      BY <3>1, <3>2
  <2> QED
    BY <2>4, <2>5, <2>6, <2>9 DEF after
<1>5. CASE r.op = "select_organization"
  <2>1. /\ Len(Plan(r, seen)) \in {2, 3}
        /\ Plan(r, seen)[1] = UserRow(r.user) /\ Plan(r, seen)[2] = ChallengeRow(r.challenge)
        /\ Len(Plan(r, seen)) = 3 =>
                r.session \in Sessions /\ Plan(r, seen)[3] = SessionRow(r.session)
    BY <1>5, SelectPlan
  <2>2. \/ n = 0 /\ lock = UserRow(r.user)
        \/ n = 1 /\ lock = ChallengeRow(r.challenge)
        \/ n = 2 /\ r.session \in Sessions /\ lock = SessionRow(r.session)
    BY <2>1
  <2>3. r.user \in Users /\ r.challenge \in Challenges
    BY <1>1, <1>5 DEF RequestOK, RequestState
  <2>4. lock \in LockSet
    BY <2>2, <2>3, LocksKnown
  <2>5. Learns(d, seen, lock, after) /\ after \in SeenState
    BY <1>2, <1>3, <2>4
  <2>6. Plan(r, after) = Plan(r, seen)
    BY <1>1, <1>5, PlanDepends DEF SignIns
  <2> HIDE DEF after
  <2>7. Holds(d, r, n + 1, L \cup LockedRows(d, lock), after)
    BY <1>5, <2>2, <2>4, <2>5, SelectHolds DEF after
  <2>8. n + 1 <= Len(Plan(r, after))
    BY <2>1, <2>6
  <2> QED
    BY <2>4, <2>5, <2>7, <2>8 DEF after
<1>6. CASE r.op \notin SignIns \cup {"select_organization"}
  <2>1. /\ Len(Plan(r, seen)) \in {1, 2, 3}
        /\ Plan(r, seen)[1] \in LockSet
        /\ Len(Plan(r, seen)) >= 2 =>
                Plan(r, seen)[2] \in LockSet /\ Plan(r, seen)[2][1] # "user"
        /\ Len(Plan(r, seen)) >= 3 =>
                Plan(r, seen)[3] \in LockSet /\ Plan(r, seen)[3][1] # "user"
        /\ r.op \in AccountOperations => Plan(r, seen)[1] = UserRow(r.user)
        /\ r.op = "recover_throttle_bucket" =>
                Len(Plan(r, seen)) = 1 /\ Plan(r, seen)[1] = BucketRow(r.user)
    BY <1>6, OtherPlans
  <2>2. n \in {0, 1, 2} /\ lock \in LockSet /\ (n >= 1 => lock[1] # "user")
        /\ (n = 0 => lock = Plan(r, seen)[1])
    BY <2>1
  <2>3. /\ r.op \in AccountOperations /\ n = 0 => lock = UserRow(r.user)
        /\ r.op = "recover_throttle_bucket" => n = 0 /\ lock = BucketRow(r.user)
    BY <2>1, <2>2
  <2>4. Learns(d, seen, lock, after) /\ after \in SeenState
    BY <1>2, <1>3, <2>2
  <2>5. Plan(r, after) = Plan(r, seen)
    BY <1>1, <1>6, PlanDepends
  <2> HIDE DEF after
  <2>6. Holds(d, r, n + 1, L \cup LockedRows(d, lock), after)
    BY <1>6, <2>2, <2>3, <2>4, OtherHolds DEF after
  <2>7. n + 1 <= Len(Plan(r, after))
    BY <2>1, <2>5
  <2> QED
    BY <2>2, <2>4, <2>6, <2>7 DEF after
<1> QED
  BY <1>4, <1>5, <1>6

-----------------------------------------------------------------------------
(* From the first lock to the last.                                        *)

\* No plan is empty.
LEMMA PlanLengths ==
    ASSUME NEW d, NEW r, RequestOK(d, r), NEW seen
    PROVE  /\ Len(Plan(r, seen)) \in {1, 2, 3, 4}
           /\ r.op \in SignIns => Len(Plan(r, seen)) >= 3
           /\ r.op = "select_organization" => Len(Plan(r, seen)) >= 2
<1>1. CASE r.op \in SignIns
  <2>1. Len(Plan(r, seen)) \in {3, 4}
    BY <1>1, SignInPlan
  <2>2. r.op # "select_organization"
    BY <1>1 DEF SignIns
  <2> QED
    BY <2>1, <2>2
<1>2. CASE r.op = "select_organization"
  <2>1. Len(Plan(r, seen)) \in {2, 3}
    BY <1>2, SelectPlan
  <2>2. r.op \notin SignIns
    BY <1>2 DEF SignIns
  <2> QED
    BY <2>1, <2>2
<1>3. CASE r.op \notin SignIns \cup {"select_organization"}
  <2>1. Len(Plan(r, seen)) \in {1, 2, 3}
    BY <1>3, OtherPlans
  <2> QED
    BY <1>3, <2>1
<1> QED
  BY <1>1, <1>2, <1>3

\* A request with all its locks holds all that its outcome rests on.
LEMMA LastLockCompletes ==
    ASSUME NEW d, NEW r, RequestOK(d, r), NEW seen, NEW L,
           Holds(d, r, Len(Plan(r, seen)), L, seen)
    PROVE  Complete(d, r, L, seen)
<1> DEFINE n == Len(Plan(r, seen))
<1>1. /\ n \in {1, 2, 3, 4}
      /\ r.op \in SignIns => n >= 3
      /\ r.op = "select_organization" => n >= 2
  BY PlanLengths
<1> HIDE DEF n
<1>2. Holds(d, r, n, L, seen)
  BY DEF n
<1>3. n >= 1
  BY <1>1
<1>4. r.op \in SignIns => n >= 2
  BY <1>1
<1> QED
  BY <1>1, <1>2, <1>3, <1>4 DEF Holds, Complete

\* What a request holds stays true whatever the others do under locks of their own.
LEMMA OthersKeepHolds ==
    ASSUME NEW d, NEW e, NEW L1, NEW K, Moves(d, e, L1, K),
           NEW r, RequestOK(d, r), NEW n, NEW L2, L1 \cap L2 = {},
           NEW seen \in SeenState, Holds(d, r, n, L2, seen)
    PROVE  RequestOK(e, r) /\ Holds(e, r, n, L2, seen)
<1>1. /\ r \in RequestState /\ r.op \in AllOperations /\ r.user \in Scopes
      /\ r.op # "recover_throttle_bucket" => r.user \in Users
      /\ r.session \in Sessions \cup {None} /\ r.challenge \in Challenges \cup {None}
  BY DEF RequestOK, RequestState
<1>2. RequestOK(e, r)
  BY <1>1 DEF RequestOK, Moves, KeepsSessions, KeepsChallenges
<1>3. SweepsRows(e, seen)
  BY DEF Holds, SweepsRows, Moves, KeepsChallenges, SeenState
<1>4. \A lock \in L2 : lock \notin L1
  OBVIOUS
<1>5. r.op \in AccountOperations /\ HasAccount(d, r, L2, seen) => HasAccount(e, r, L2, seen)
  <2> HAVE r.op \in AccountOperations /\ HasAccount(d, r, L2, seen)
  <2>1. r.user \in Users
    BY <1>1 DEF AccountOperations, SignIns
  <2>2. UserRow(r.user) \notin L1
    BY <1>4 DEF HasAccount
  <2>3. e.accounts[r.user] = d.accounts[r.user]
    BY <2>1, <2>2 DEF Moves, KeepsAccounts
  <2> QED
    BY <2>3 DEF HasAccount
<1>6. HasOwn(d, r, L2, seen) => HasOwn(e, r, L2, seen)
  <2> HAVE HasOwn(d, r, L2, seen)
  <2>1. BucketRow(r.user) \notin L1
    BY <1>4 DEF HasOwn
  <2>2. e.buckets[r.user] = d.buckets[r.user]
    BY <1>1, <2>1 DEF Moves, KeepsBuckets
  <2> QED
    BY <2>2 DEF HasOwn
<1>7. HasAddress(d, L2, seen) => HasAddress(e, L2, seen)
  <2> HAVE HasAddress(d, L2, seen)
  <2>1. BucketRow(Address) \notin L1
    BY <1>4 DEF HasAddress
  <2>2. e.buckets[Address] = d.buckets[Address]
    BY <2>1 DEF Moves, KeepsBuckets, Scopes
  <2> QED
    BY <2>2 DEF HasAddress
<1>8. r.op = "select_organization" /\ HasChallenge(d, r, L2) => HasChallenge(e, r, L2)
  <2> HAVE r.op = "select_organization" /\ HasChallenge(d, r, L2)
  <2>1. ChallengeRow(r.challenge) \in L2 /\ ChallengeRow(r.challenge) \notin L1
    BY <1>4 DEF HasChallenge
  <2>2. r.challenge \in Challenges /\ r.challenge # None /\ d.challenges[r.challenge].status # "none"
    BY <1>1 DEF RequestOK
  <2>3. e.challenges[r.challenge].attempts = d.challenges[r.challenge].attempts
    BY <2>1, <2>2 DEF Moves, KeepsChallenges
  <2>4. \A s \in Sessions : e.sessions[s].challenge # r.challenge
    BY <2>1, <2>2 DEF Moves, LetsInUnder, HasChallenge
  <2> QED
    BY <2>1, <2>3, <2>4 DEF HasChallenge
<1>9. Holds(e, r, n, L2, seen)
  BY <1>3, <1>5, <1>6, <1>7, <1>8 DEF Holds
<1> QED
  BY <1>2, <1>9

\* A request keeps what it was made with.
LEMMA MadeKeeps ==
    ASSUME NEW op, NEW user, NEW session, NEW challenge, NEW pin, NEW chosen
    PROVE  /\ Made(op, user, session, challenge, pin, chosen).op = op
           /\ Made(op, user, session, challenge, pin, chosen).user = user
           /\ Made(op, user, session, challenge, pin, chosen).session = session
           /\ Made(op, user, session, challenge, pin, chosen).challenge = challenge
BY DEF Made

\* A request that is just made speaks of rows that are there.
LEMMA RequestsSpeakOfRows ==
    ASSUME NEW d, Consistent(d), NEW r \in Requestable(d)
    PROVE  RequestOK(d, r)
<1>1. /\ \A u \in Users : PinsGiven(d, u) \subseteq 0..MaxPins
      /\ \A u \in Users : u \in Scopes
      /\ \A s \in Sessions : d.sessions[s].status # "none" => d.sessions[s].user \in Users
      /\ \A c \in Challenges : d.challenges[c].status # "none" => d.challenges[c].user \in Users
      /\ 0 \in 0..MaxPins /\ None = 0
      /\ None \notin Sessions /\ None \notin Challenges
      /\ None \in Sessions \cup {None} /\ None \in Challenges \cup {None}
  <2>1. d.accounts \in AccountRows
    BY RowsAreTables DEF Consistent
  <2>2. \A u \in Users : d.accounts[u].pin \in 0..MaxPins
    BY <2>1, AuthenticationAssumption DEF AccountRows, AccountState
  <2>3. 0 \in 0..MaxPins
    BY AuthenticationAssumption
  <2> QED
    BY <2>2, <2>3 DEF Consistent, OwnersKnown, PinsGiven, Scopes, None, Sessions, Challenges
<1>2. \A op, s, pin :
        /\ op \in SessionOperations /\ s \in LiveIn(d)
        /\ pin \in PinsGiven(d, d.sessions[s].user) \cup {0}
        => RequestOK(d, InSession(d, op, s, pin))
  <2> TAKE op, s, pin
  <2> HAVE /\ op \in SessionOperations /\ s \in LiveIn(d)
           /\ pin \in PinsGiven(d, d.sessions[s].user) \cup {0}
  <2>1. s \in Sessions /\ d.sessions[s].status # "none" /\ d.sessions[s].user \in Users
    BY <1>1 DEF LiveIn
  <2>2. pin \in 0..MaxPins /\ op \in AllOperations /\ op # "select_organization"
        /\ op # "recover_throttle_bucket"
    BY <1>1, <2>1 DEF SessionOperations, AllOperations
  <2> DEFINE q == InSession(d, op, s, pin)
  <2>3. q.op = op /\ q.user = d.sessions[s].user /\ q.session = s
    BY MadeKeeps DEF InSession
  <2>4. q \in RequestState
    BY <1>1, <2>1, <2>2 DEF InSession, Made, RequestState
  <2> HIDE DEF q
  <2>5. RequestOK(d, q)
    BY <1>1, <2>1, <2>2, <2>3, <2>4 DEF RequestOK
  <2> QED
    BY <2>5 DEF q
<1>3. \A op \in {"reset_user_pin", "deactivate", "reactivate"}, u \in Users :
        RequestOK(d, OfUser(op, u))
  <2> TAKE op \in {"reset_user_pin", "deactivate", "reactivate"}, u \in Users
  <2> DEFINE q == OfUser(op, u)
  <2>1. q.op = op /\ q.user = u /\ q.session = None
    BY MadeKeeps DEF OfUser
  <2>2. q \in RequestState
    BY <1>1 DEF OfUser, Made, RequestState, AllOperations
  <2> HIDE DEF q
  <2>3. RequestOK(d, q)
    BY <1>1, <2>1, <2>2 DEF RequestOK, SessionOperations
  <2> QED
    BY <2>3 DEF q
<1>4. \A b \in Scopes : RequestOK(d, OfUser("recover_throttle_bucket", b))
  <2> TAKE b \in Scopes
  <2> DEFINE q == OfUser("recover_throttle_bucket", b)
  <2>1. q.op = "recover_throttle_bucket" /\ q.user = b /\ q.session = None
    BY MadeKeeps DEF OfUser
  <2>2. q \in RequestState
    BY <1>1 DEF OfUser, Made, RequestState, AllOperations
  <2> HIDE DEF q
  <2>3. RequestOK(d, q)
    BY <1>1, <2>1, <2>2 DEF RequestOK, SessionOperations
  <2> QED
    BY <2>3 DEF q
<1>5. \A u \in Users, pin \in 0..MaxPins :
        RequestOK(d, Made("login", u, None, None, pin, "none"))
  <2> TAKE u \in Users, pin \in 0..MaxPins
  <2> DEFINE q == Made("login", u, None, None, pin, "none")
  <2>1. q.op = "login" /\ q.user = u /\ q.session = None
    BY MadeKeeps
  <2>2. q \in RequestState
    BY <1>1 DEF Made, RequestState, AllOperations
  <2> HIDE DEF q
  <2>3. RequestOK(d, q)
    BY <1>1, <2>1, <2>2 DEF RequestOK, SessionOperations
  <2> QED
    BY <2>3 DEF q
<1>6. \A c, s, chosen :
        /\ c \in Challenges /\ d.challenges[c].status # "none"
        /\ s \in {None} \cup Live(d, d.challenges[c].user)
        /\ chosen \in {"offered", "not_offered", "ineligible"}
        => RequestOK(d, Made("select_organization", d.challenges[c].user, s, c, 0, chosen))
  <2> TAKE c, s, chosen
  <2> HAVE /\ c \in Challenges /\ d.challenges[c].status # "none"
           /\ s \in {None} \cup Live(d, d.challenges[c].user)
           /\ chosen \in {"offered", "not_offered", "ineligible"}
  <2> DEFINE q == Made("select_organization", d.challenges[c].user, s, c, 0, chosen)
  <2>1. /\ d.challenges[c].user \in Users /\ s \in Sessions \cup {None}
        /\ s # None => d.sessions[s].status # "none" /\ d.sessions[s].user = d.challenges[c].user
    BY <1>1 DEF Live
  <2>2. /\ q.op = "select_organization" /\ q.user = d.challenges[c].user
        /\ q.session = s /\ q.challenge = c
    BY MadeKeeps
  <2>3. q \in RequestState
    BY <1>1, <2>1 DEF Made, RequestState, AllOperations
  <2> HIDE DEF q
  <2>4. RequestOK(d, q)
    BY <1>1, <2>1, <2>2, <2>3 DEF RequestOK, SessionOperations
  <2> QED
    BY <2>4 DEF q
<1> DEFINE
      logins == UNION {{Made("login", u, None, None, pin, "none") : pin \in PinsGiven(d, u)} : u \in Users}
      logouts == {InSession(d, "logout", s, 0) : s \in LiveIn(d)}
      switches == {InSession(d, "switch_organization", s, 0) : s \in {t \in LiveIn(d) : MaySwitch(d, t)}}
      confirmations == UNION {WithPin(d, s) : s \in LiveIn(d)}
      selections == UNION {Selections(d, c) : c \in Challenges \ FreeIn(Challenges, d.challenges)}
      operators == {OfUser(op, u) : u \in Users, op \in {"reset_user_pin", "deactivate", "reactivate"}}
      recoveries == {OfUser("recover_throttle_bucket", b) : b \in {c \in Scopes : d.buckets[c].failures > 0}}
<1>7. r \in logins => RequestOK(d, r)
  BY <1>1, <1>5
<1>8. r \in logouts => RequestOK(d, r)
  BY <1>2 DEF SessionOperations
<1>9. r \in switches => RequestOK(d, r)
  BY <1>2 DEF SessionOperations
<1>10. r \in confirmations => RequestOK(d, r)
  BY <1>2 DEF SessionOperations, WithPin
<1>11. r \in selections => RequestOK(d, r)
  <2> HAVE r \in selections
  <2>1. PICK c \in Challenges \ FreeIn(Challenges, d.challenges) : r \in Selections(d, c)
    OBVIOUS
  <2>2. d.challenges[c].status # "none"
    BY <2>1 DEF FreeIn
  <2>3. PICK s \in {None} \cup Live(d, d.challenges[c].user),
            chosen \in {"offered", "not_offered", "ineligible"} :
                r = Made("select_organization", d.challenges[c].user, s, c, 0, chosen)
    BY <2>1 DEF Selections
  <2> QED
    BY <1>6, <2>1, <2>2, <2>3
<1>12. r \in operators => RequestOK(d, r)
  BY <1>3
<1>13. r \in recoveries => RequestOK(d, r)
  BY <1>4
<1>14. Requestable(d) = logins \cup logouts \cup switches \cup confirmations \cup selections
                            \cup operators \cup recoveries
  BY DEF Requestable
<1> HIDE DEF logins, logouts, switches, confirmations, selections, operators, recoveries
<1> QED
  BY <1>7, <1>8, <1>9, <1>10, <1>11, <1>12, <1>13, <1>14

-----------------------------------------------------------------------------
(* The wrong PINs a bucket stands for.                                     *)
GuessOK(n, bucket, b) ==
    /\ n \in Nat /\ n <= Limit(b)
    /\ ~bucket.blocked => n < Limit(b) /\ n <= Current(bucket).failures
GuessesCounted(g, buckets) ==
    /\ g = [b \in Scopes |-> g[b]]
    /\ \A b \in Scopes : GuessOK(g[b], buckets[b], b)

\* Limits are positive.
LEMMA LimitsPositive ==
    ASSUME NEW b
    PROVE  Limit(b) \in Nat /\ Limit(b) > 0
BY AuthenticationAssumption DEF Limit

\* When the guesses of a bucket are forgotten nothing is left to count.
LEMMA GuessesForgotten ==
    ASSUME NEW bucket \in Buckets, NEW b \in Scopes
    PROVE  GuessOK(0, bucket, b)
<1>1. Current(bucket).failures \in Nat
  BY BucketsAreBuckets DEF Buckets
<1> QED
  BY <1>1, LimitsPositive DEF GuessOK

\* The behaviour starts with the guesses the buckets stand for.
LEMMA GuessesStart ==
    ASSUME NEW bucket \in Buckets, NEW b \in Scopes
    PROVE  GuessOK(Counted(bucket, b), bucket, b)
<1>1. Current(bucket).failures \in Nat
  BY BucketsAreBuckets DEF Buckets
<1>2. CASE Current(bucket).failures < Limit(b)
  BY <1>1, <1>2, LimitsPositive DEF GuessOK, Counted
<1>3. CASE ~(Current(bucket).failures < Limit(b))
  <2>1. Counted(bucket, b) = 0
    BY <1>3 DEF Counted
  <2> QED
    BY <2>1, GuessesForgotten
<1> QED
  BY <1>2, <1>3

\* Looking at the window of a bucket changes no guess.
LEMMA GuessesLookedAt ==
    ASSUME NEW bucket \in Buckets, NEW b \in Scopes, NEW n, GuessOK(n, bucket, b)
    PROVE  GuessOK(n, Current(bucket), b)
BY BucketsAreBuckets DEF GuessOK

\* A wrong PIN answered before a block is counted, and blocks at the limit.
LEMMA GuessMade ==
    ASSUME NEW bucket \in Buckets, NEW b \in Scopes, NEW n, GuessOK(n, bucket, b),
           ~bucket.blocked
    PROVE  GuessOK(n + 1, Failed(Current(bucket), b), b)
<1> DEFINE looked == Current(bucket)
           failed == Failed(Current(bucket), b)
<1>1. looked \in Buckets /\ ~looked.elapsed
  BY BucketsAreBuckets DEF Current, NoBucket
<1>2. n \in Nat /\ n < Limit(b) /\ n <= looked.failures /\ looked.failures \in Nat /\ Limit(b) \in Nat
  BY <1>1, LimitsPositive DEF GuessOK, Buckets
<1>3. /\ failed.failures = looked.failures + 1
      /\ failed.blocked = (looked.failures + 1 >= Limit(b))
      /\ ~failed.elapsed
  BY <1>1, BucketsAreBuckets
<1>4. Current(failed) = failed
  BY <1>3 DEF Current
<1> HIDE DEF looked, failed
<1>5. n + 1 \in Nat /\ n + 1 <= Limit(b)
  BY <1>2
<1>6. ~failed.blocked => n + 1 < Limit(b) /\ n + 1 <= Current(failed).failures
  <2> HAVE ~failed.blocked
  <2>1. ~(looked.failures + 1 >= Limit(b))
    BY <1>3
  <2>2. n + 1 < Limit(b) /\ n + 1 <= looked.failures + 1
    BY <1>2, <2>1
  <2> QED
    BY <1>3, <1>4, <2>2
<1>7. GuessOK(n + 1, failed, b)
  BY <1>5, <1>6 DEF GuessOK
<1> QED
  BY <1>7 DEF failed

\* New rows of sessions and challenges leave the buckets alone.
HasTables(d) ==
    d = [accounts |-> d.accounts, buckets |-> d.buckets, challenges |-> d.challenges,
         sessions |-> d.sessions]
\* A session or a challenge that is added counts no guess.
LEMMA ContextKeepsBuckets ==
    ASSUME NEW d, HasTables(d), NEW u, NEW purpose, NEW c
    PROVE  /\ SessionAdded(d, u, purpose, c).buckets = d.buckets
           /\ ContextIssued(d, u).buckets = d.buckets
<1>1. \A p, k : SessionAdded(d, u, p, k).buckets = d.buckets
  BY DEF SessionAdded, HasTables
<1>2. \A k : ChallengeAdded(d, u, k).buckets = d.buckets
  BY DEF ChallengeAdded, HasTables
<1> QED
  BY <1>1, <1>2 DEF ContextIssued

\* What a sign-in leaves in the two buckets.
SignInLeaves(d, e, r, seen) ==
    /\ Right(r, seen) =>
        e.buckets = [d.buckets EXCEPT ![r.user] = NoBucket, ![Address] = seen.address]
    /\ ~Right(r, seen) =>
        e.buckets = [d.buckets EXCEPT ![r.user] = Failed(seen.own, r.user),
                                      ![Address] = Failed(seen.address, Address)]
\* A right PIN clears the account's bucket; a wrong one counts in both.
LEMMA SignInBuckets ==
    ASSUME NEW d, Consistent(d), NEW r, r.op \in SignIns, NEW seen
    PROVE  SignInLeaves(d, Outcome(d, r, seen), r, seen)
<1>1. HasTables(d)
  BY RowsAreTables DEF Consistent, HasTables
<1>2. CASE ~Right(r, seen)
  <2>1. Outcome(d, r, seen) = SignInFailed(d, r, seen)
    BY <1>2 DEF Outcome, SignIns
  <2> DEFINE own == Failed(seen.own, r.user)
             shared == Failed(seen.address, Address)
  <2>2. SignInFailed(d, r, seen) = [d EXCEPT !.buckets[r.user] = own, !.buckets[Address] = shared]
    BY DEF SignInFailed
  <2> HIDE DEF own, shared
  <2>3. SignInFailed(d, r, seen).buckets = [d.buckets EXCEPT ![r.user] = own, ![Address] = shared]
    BY <1>1, <2>2 DEF HasTables
  <2> QED
    BY <1>2, <2>1, <2>3 DEF own, shared, SignInLeaves
<1>3. CASE r.op = "login" /\ Right(r, seen)
  <2> DEFINE swept == Revoked(d.challenges, seen.swept)
             checked == [d EXCEPT !.buckets[r.user] = NoBucket, !.buckets[Address] = seen.address,
                                  !.challenges = swept]
  <2>1. Outcome(d, r, seen) =
            IF seen.account.must_change THEN SessionAdded(checked, r.user, "credential_change", None)
                                        ELSE ContextIssued(checked, r.user)
    BY <1>1, <1>3 DEF Outcome, SignedIn, HasTables
  <2> HIDE DEF swept
  <2> DEFINE buckets == [d.buckets EXCEPT ![r.user] = NoBucket, ![Address] = seen.address]
  <2>2. checked = [d EXCEPT !.buckets = buckets, !.challenges = swept]
    BY <1>1 DEF HasTables
  <2> HIDE DEF buckets, checked
  <2>3. checked.buckets = buckets /\ HasTables(checked)
    BY <1>1, <2>2 DEF HasTables
  <2>4. /\ SessionAdded(checked, r.user, "credential_change", None).buckets = checked.buckets
        /\ ContextIssued(checked, r.user).buckets = checked.buckets
    BY <2>3, ContextKeepsBuckets
  <2> QED
    BY <1>3, <2>1, <2>3, <2>4 DEF buckets, SignInLeaves
<1>4. CASE r.op = "reauthenticate" /\ Right(r, seen)
  <2>1. Outcome(d, r, seen) = Confirmed(d, r, seen)
    BY <1>4 DEF Outcome
  <2>2. Confirmed(d, r, seen).buckets = [d.buckets EXCEPT ![r.user] = NoBucket, ![Address] = seen.address]
    BY <1>1 DEF HasTables, Confirmed
  <2> QED
    BY <1>4, <2>1, <2>2 DEF SignInLeaves
<1> QED
  BY <1>2, <1>3, <1>4 DEF SignIns

\* A confirmation confirms its session with the PIN it was given, if at all.
LEMMA ConfirmedWithPin ==
    ASSUME NEW d, Consistent(d), NEW r, RequestOK(d, r), NEW seen,
           r.op = "reauthenticate", Right(r, seen)
    PROVE  Outcome(d, r, seen).sessions[r.session].step_up
                \in {r.pin, d.sessions[r.session].step_up}
<1>1. HasTables(d) /\ d.sessions \in SessionRows /\ r.session \in Sessions
  BY RowsAreTables DEF Consistent, HasTables, RequestOK, RequestState, SessionOperations
<1>2. Outcome(d, r, seen) = Confirmed(d, r, seen)
  BY DEF Outcome
<1> DEFINE pin == IF seen.live THEN r.pin ELSE d.sessions[r.session].step_up
<1>3. Confirmed(d, r, seen).sessions = [d.sessions EXCEPT ![r.session].step_up = pin]
  BY <1>1 DEF Confirmed, HasTables
<1>4. pin \in {r.pin, d.sessions[r.session].step_up}
  OBVIOUS
<1> HIDE DEF pin
<1>5. d.sessions[r.session] \in SessionState
  BY <1>1 DEF SessionRows
<1>6. [d.sessions EXCEPT ![r.session].step_up = pin][r.session].step_up = pin
  BY <1>1, <1>5 DEF SessionRows, SessionState
<1> QED
  BY <1>2, <1>3, <1>4, <1>6

\* No other request touches a bucket, but a recovery that of its scope.
RecoversOnly(d, e, r) ==
    \A b \in Scopes :
        \/ e.buckets[b] = d.buckets[b]
        \/ r.op = "recover_throttle_bucket" /\ b = r.user /\ e.buckets[b] = NoBucket
\* So the guesses counted in a scope change by sign-ins and recoveries alone.
LEMMA BucketsKept ==
    ASSUME NEW d, Consistent(d), NEW L, NEW r, RequestOK(d, r), NEW seen \in SeenState,
           Complete(d, r, L, seen), RoomFor(d, r), r.op \notin SignIns
    PROVE  RecoversOnly(d, Outcome(d, r, seen), r)
<1>1. CASE r.op = "recover_throttle_bucket"
  <2>1. Outcome(d, r, seen) = [d EXCEPT !.buckets[r.user] = NoBucket]
    BY <1>1 DEF Outcome
  <2>2. HasTables(d) /\ d.buckets \in BucketRows /\ r.user \in Scopes
    BY RowsAreTables DEF Consistent, HasTables, RequestOK, RequestState
  <2>3. Outcome(d, r, seen).buckets = [d.buckets EXCEPT ![r.user] = NoBucket]
    BY <2>1, <2>2 DEF HasTables
  <2>4. \A b \in Scopes : [d.buckets EXCEPT ![r.user] = NoBucket][b] =
                            IF b = r.user THEN NoBucket ELSE d.buckets[b]
    BY <2>2 DEF BucketRows
  <2> QED
    BY <1>1, <2>3, <2>4 DEF RecoversOnly
<1>2. CASE r.op # "recover_throttle_bucket"
  <2> DEFINE others == {lock \in L : lock[1] # "bucket"}
  <2>1. UserRow(r.user)[1] # "bucket" /\ ChallengeRow(r.challenge)[1] # "bucket"
    BY LockKinds
  <2>2. Complete(d, r, others, seen)
    BY <1>2, <2>1 DEF Complete, HasAccount, HasChallenge
  <2>3. KeepsBuckets(d, Outcome(d, r, seen), others)
    BY <2>2, OutcomeMoves DEF Moves
  <2>4. \A b : BucketRow(b) \notin others
    BY LockKinds
  <2> QED
    BY <2>3, <2>4 DEF KeepsBuckets, RecoversOnly
<1> QED
  BY <1>1, <1>2

\* The bucket of the address is the third lock of a sign-in; a recovery aside,
\* no other request takes it.
LEMMA AddressComesThird ==
    ASSUME NEW d, NEW r, RequestOK(d, r), NEW seen, NEW n \in Nat, n < Len(Plan(r, seen)),
           Plan(r, seen)[n + 1] = BucketRow(Address)
    PROVE  r.op = "recover_throttle_bucket" \/ (r.op \in SignIns /\ n = 2)
<1> DEFINE plan == Plan(r, seen)
           u == r.user
<1>1. r.op \in AllOperations /\ (r.op # "recover_throttle_bucket" => u \in Users)
  BY DEF RequestOK, RequestState
<1>2. plan[n + 1][1] = "bucket" /\ plan[n + 1][2] = Address
  BY LockKinds, LockRows
<1>3. \A x : /\ UserRow(x)[1] # "bucket" /\ SessionRow(x)[1] # "bucket"
             /\ ChallengeRow(x)[1] # "bucket" /\ LiveSessions(x)[1] # "bucket"
             /\ OpenChallenges(x)[1] # "bucket"
  BY LockKinds
<1>4. CASE r.op \in SignIns
  <2>1. /\ Len(plan) \in {3, 4} /\ plan[1] = UserRow(u) /\ plan[2] = BucketRow(u)
        /\ Len(plan) = 4 => plan[4] = OpenChallenges(u) \/ plan[4] = SessionRow(r.session)
    BY <1>4, SignInPlan
  <2>2. plan[1][1] # "bucket" /\ (Len(plan) = 4 => plan[4][1] # "bucket")
    BY <1>3, <2>1
  <2>3. u # Address /\ plan[2][2] = u
    BY <1>1, <1>4, <2>1, LockRows, AuthenticationAssumption DEF SignIns
  <2> HIDE DEF plan
  <2>4. n # 0 /\ n # 1
    BY <1>2, <2>2, <2>3
  <2>5. n < Len(plan)
    BY DEF plan
  <2>6. n # 3
    BY <1>2, <2>1, <2>2, <2>5
  <2>7. Len(plan) \in {3, 4}
    BY <2>1
  <2>8. n < 3 \/ n < 4
    BY <2>5, <2>7
  <2>9. n = 2
    BY <2>4, <2>6, <2>8
  <2> QED
    BY <1>4, <2>9
<1>5. CASE r.op = "select_organization"
  <2>1. /\ Len(plan) \in {2, 3} /\ plan[1] = UserRow(u) /\ plan[2] = ChallengeRow(r.challenge)
        /\ Len(plan) = 3 => plan[3] = SessionRow(r.session)
    BY <1>5, SelectPlan
  <2>2. plan[1][1] # "bucket" /\ plan[2][1] # "bucket" /\ (Len(plan) = 3 => plan[3][1] # "bucket")
    BY <1>3, <2>1
  <2> HIDE DEF plan
  <2>3. n < Len(plan)
    BY DEF plan
  <2> QED
    BY <1>2, <2>1, <2>2, <2>3
<1>6. CASE r.op = "switch_organization"
  <2>1. plan = <<OpenChallenges(u)>>
    BY <1>6 DEF Plan
  <2> QED
    BY <1>2, <1>3, <2>1
<1>7. CASE r.op = "logout"
  <2>1. plan = <<OpenChallenges(u), SessionRow(r.session)>>
    BY <1>7 DEF Plan
  <2> QED
    BY <1>2, <1>3, <2>1
<1>8. CASE r.op = "change_pin"
  <2>1. plan = <<UserRow(u), SessionRow(r.session), OpenChallenges(u)>>
    BY <1>8 DEF Plan
  <2> QED
    BY <1>2, <1>3, <2>1
<1>9. CASE r.op \in {"reset_user_pin", "deactivate"}
  <2>1. plan = <<UserRow(u), LiveSessions(u), OpenChallenges(u)>>
    BY <1>9 DEF Plan
  <2> QED
    BY <1>2, <1>3, <2>1
<1>10. CASE r.op = "reactivate"
  <2>1. plan = <<UserRow(u)>>
    BY <1>10 DEF Plan
  <2> QED
    BY <1>2, <1>3, <2>1
<1> QED
  BY <1>1, <1>4, <1>5, <1>6, <1>7, <1>8, <1>9, <1>10 DEF AllOperations, SignIns

\* A request that is refused has at most looked at the window of its account.
LEMMA RefusedMoves ==
    ASSUME NEW d, Consistent(d), NEW r, RequestOK(d, r), NEW seen \in SeenState,
           NEW n \in Nat, n < Len(Plan(r, seen)), NEW L, Holds(d, r, n, L, seen),
           NEW lock, lock = Plan(r, seen)[n + 1],
           ~LockCheck(d, r, Load(d, r, seen, lock), lock)
    PROVE  LET e == Refused(d, r, Load(d, r, seen, lock), lock)
           IN  /\ Moves(d, e, L, {})
               /\ \A b \in Scopes : e.buckets[b] \in {d.buckets[b], Current(d.buckets[b])}
<1> DEFINE after == Load(d, r, seen, lock)
           e == Refused(d, r, after, lock)
<1>1. CASE lock # BucketRow(Address)
  <2>1. e = d
    BY <1>1 DEF Refused
  <2>2. Moves(d, d, L, {})
    BY DEF Moves, KeepsAccounts, KeepsBuckets, KeepsChallenges, KeepsSessions, LetsInUnder, ConfirmsOnly
  <2> QED
    BY <2>1, <2>2
<1>2. CASE lock = BucketRow(Address)
  <2>1. r.op # "recover_throttle_bucket"
    <3>1. SUFFICES ASSUME r.op = "recover_throttle_bucket" PROVE LockCheck(d, r, after, lock)
      OBVIOUS
    <3>2. lock[1] = "bucket"
      BY <1>2, LockKinds
    <3> HIDE DEF after
    <3> QED
      BY <3>1, <3>2 DEF LockCheck
  <2>2. r.op \in SignIns /\ n = 2
    BY <1>2, <2>1, AddressComesThird
  <2>3. HasOwn(d, r, L, seen) /\ r.user \in Scopes
    BY <2>2 DEF Holds, RequestOK, RequestState
  <2>4. lock \in LockSet /\ Address \in Scopes
    BY <1>2, LocksKnown DEF Scopes
  <2>5. Learns(d, seen, lock, after)
    BY <2>4, LoadFacts DEF Holds
  <2>6. after.own = Current(d.buckets[r.user])
    BY <1>2, <2>3, <2>5 DEF Learns, HasOwn
  <2>7. d.buckets \in BucketRows /\ d.buckets[r.user] \in Buckets
    BY <2>3, RowsAreTables DEF Consistent, BucketRows
  <2>8. Current(d.buckets[r.user]) \in Buckets
    BY <2>7, BucketsAreBuckets, <2>3
  <2>9. e = [d EXCEPT !.buckets[r.user] = Current(d.buckets[r.user])]
    BY <1>2, <2>6 DEF Refused
  <2> HIDE DEF e
  <2>10. Moves(d, e, L, {})
    BY <2>3, <2>8, <2>9, BucketRewritten DEF HasOwn
  <2>11. e.buckets = [d.buckets EXCEPT ![r.user] = Current(d.buckets[r.user])]
    BY <2>9, RowsAreTables DEF Consistent
  <2>12. \A b \in Scopes : e.buckets[b] \in {d.buckets[b], Current(d.buckets[b])}
    BY <2>7, <2>11 DEF BucketRows
  <2> QED
    BY <2>10, <2>12 DEF e
<1> QED
  BY <1>1, <1>2

-----------------------------------------------------------------------------
(***************************************************************************)
(* The inductive invariant.  The rows are consistent, what each request    *)
(* has seen is still true under its locks, no row is locked twice, and no  *)
(* bucket stands for fewer wrong PINs than were answered.                  *)
(***************************************************************************)
TxState == [request : RequestState \cup {Idle}, taken : Nat, locks : SUBSET LockSet,
            seen : SeenState]
Serves(d, t) ==
    /\ t.request = Idle => t = Free
    /\ t.request # Idle =>
        /\ RequestOK(d, t.request) /\ t.request.op \in Operations
        /\ t.taken <= Len(Plan(t.request, t.seen))
        /\ Holds(d, t.request, t.taken, t.locks, t.seen)
LocksApart == \A p, q \in Processes : p # q => tx[p].locks \cap tx[q].locks = {}
IInv ==
    /\ Consistent(db)
    /\ GuessesCounted(guesses, db.buckets)
    /\ tx \in [Processes -> TxState]
    /\ \A p \in Processes : Serves(db, tx[p])
    /\ LocksApart
    /\ requests \in 0..MaxRequests

\* Doing nothing is a move.
LEMMA NothingMoves ==
    ASSUME NEW d, Consistent(d), NEW L, NEW K
    PROVE  Moves(d, d, L, K)
BY DEF Moves, KeepsAccounts, KeepsBuckets, KeepsChallenges, KeepsSessions, LetsInUnder, ConfirmsOnly

\* An idle process holds nothing.
LEMMA FreeServes ==
    /\ Free \in TxState
    /\ Nothing \in SeenState /\ Nothing.swept = {}
    /\ \A d : Serves(d, Free)
<1>1. Nothing \in SeenState /\ Nothing.swept = {}
  BY AuthenticationAssumption DEF Nothing, SeenState, NoBucket, Buckets, None
<1>2. Free \in TxState
  BY <1>1 DEF Free, TxState
<1>3. \A d : Serves(d, Free)
  BY DEF Serves, Free
<1> QED
  BY <1>1, <1>2, <1>3

\* A process that serves its request goes on doing so whatever moves beside it.
LEMMA OthersServe ==
    ASSUME NEW d, NEW e, NEW L, NEW K, Moves(d, e, L, K), NEW t \in TxState,
           L \cap t.locks = {}, Serves(d, t)
    PROVE  Serves(e, t)
<1>1. t.seen \in SeenState
  BY DEF TxState
<1>2. CASE t.request = Idle
  BY <1>2 DEF Serves
<1>3. CASE t.request # Idle
  <2>1. RequestOK(e, t.request) /\ Holds(e, t.request, t.taken, t.locks, t.seen)
    BY <1>1, <1>3, OthersKeepHolds DEF Serves
  <2> QED
    BY <1>3, <2>1 DEF Serves
<1> QED
  BY <1>2, <1>3

\* A step of one process, under its locks, leaves everyone served.
LEMMA ProcessStep ==
    ASSUME IInv, NEW p \in Processes, NEW t \in TxState, tx' = [tx EXCEPT ![p] = t],
           NEW K, Moves(db, db', tx[p].locks, K), Serves(db', t),
           \A q \in Processes : q # p => t.locks \cap tx[q].locks = {},
           GuessesCounted(guesses', db'.buckets), requests' \in 0..MaxRequests
    PROVE  IInv'
<1>1. tx \in [Processes -> TxState] /\ LocksApart /\ \A q \in Processes : Serves(db, tx[q])
  BY DEF IInv
<1>2. tx' \in [Processes -> TxState] /\ tx'[p] = t /\ \A q \in Processes : q # p => tx'[q] = tx[q]
  BY <1>1
<1>3. \A q \in Processes : Serves(db', tx'[q])
  <2> TAKE q \in Processes
  <2>1. CASE q = p
    BY <1>2, <2>1
  <2>2. CASE q # p
    <3>1. tx[q] \in TxState /\ Serves(db, tx[q]) /\ tx[p].locks \cap tx[q].locks = {}
      BY <1>1, <2>2 DEF LocksApart
    <3>2. Serves(db', tx[q])
      BY <3>1, OthersServe
    <3> QED
      BY <1>2, <2>2, <3>2
  <2> QED
    BY <2>1, <2>2
<1>4. LocksApart'
  <2> SUFFICES ASSUME NEW q1 \in Processes, NEW q2 \in Processes, q1 # q2
               PROVE  tx'[q1].locks \cap tx'[q2].locks = {}
    BY DEF LocksApart
  <2>1. CASE q1 = p
    BY <1>2, <2>1
  <2>2. CASE q2 = p
    BY <1>2, <2>2
  <2>3. CASE q1 # p /\ q2 # p
    BY <1>1, <1>2, <2>3 DEF LocksApart
  <2> QED
    BY <2>1, <2>2, <2>3
<1>5. Consistent(db')
  BY DEF Moves
<1> QED
  BY <1>2, <1>3, <1>4, <1>5 DEF IInv

\* So does the passing of time, where no request holds a lock.
LEMMA TimeStep ==
    ASSUME IInv, NEW L, NEW K, Moves(db, db', L, K),
           \A q \in Processes : L \cap tx[q].locks = {},
           GuessesCounted(guesses', db'.buckets), UNCHANGED <<tx, requests>>
    PROVE  IInv'
<1>1. \A q \in Processes : Serves(db', tx[q])
  BY OthersServe DEF IInv
<1>2. Consistent(db')
  BY DEF Moves
<1> QED
  BY <1>1, <1>2 DEF IInv, LocksApart

\* The invariant holds of the first states.
LEMMA InvariantInit == Init => IInv
<1> SUFFICES ASSUME Init PROVE IInv
  OBVIOUS
<1>1. Consistent(db)
  BY InitialStatesAssumption DEF Init
<1>2. \A b \in Scopes : db.buckets[b] \in Buckets
  BY <1>1, RowsAreTables DEF Consistent, BucketRows
<1>3. /\ guesses = [b \in Scopes |-> guesses[b]]
      /\ \A b \in Scopes : guesses[b] = Counted(db.buckets[b], b)
  BY DEF Init
<1>4. GuessesCounted(guesses, db.buckets)
  BY <1>2, <1>3, GuessesStart DEF GuessesCounted
<1>5. tx \in [Processes -> TxState] /\ \A p \in Processes : tx[p] = Free
  BY FreeServes DEF Init
<1>6. \A p \in Processes : Serves(db, tx[p])
  BY <1>5, FreeServes
<1>7. LocksApart
  BY <1>5 DEF LocksApart, Free
<1>8. requests \in 0..MaxRequests
  BY AuthenticationAssumption DEF Init
<1> QED
  BY <1>1, <1>4, <1>5, <1>6, <1>7, <1>8 DEF IInv

\* A new request has seen nothing.
LEMMA RequestKeeps ==
    ASSUME IInv, NEW p \in Processes, Request(p)
    PROVE  IInv'
<1>1. PICK r \in Requestable(db) : r.op \in Operations /\ tx' = [tx EXCEPT ![p].request = r]
  BY DEF Request
<1>2. RequestOK(db, r) /\ r \in RequestState /\ r.op \in AllOperations
  BY RequestsSpeakOfRows DEF IInv, RequestOK, RequestState
<1>3. tx[p] = Free /\ tx \in [Processes -> TxState]
  BY DEF Request, Busy, IInv, Serves
<1> DEFINE t == [request |-> r, taken |-> 0, locks |-> {}, seen |-> Nothing]
<1>4. tx' = [tx EXCEPT ![p] = t]
  <2>1. [Free EXCEPT !.request = r] = t
    BY DEF Free
  <2> HIDE DEF t
  <2> QED
    BY <1>1, <1>3, <2>1
<1>5. t \in TxState
  BY <1>2, FreeServes DEF TxState
<1>6. r # Idle
  BY <1>2 DEF Idle, AllOperations
<1>7. Holds(db, r, 0, {}, Nothing)
  BY FreeServes DEF Holds, SweepsRows
<1>8. 0 <= Len(Plan(r, Nothing))
  <2>1. Len(Plan(r, Nothing)) \in {1, 2, 3, 4}
    BY <1>2, PlanLengths
  <2> QED
    BY <2>1
<1>9. Serves(db, t)
  BY <1>1, <1>2, <1>6, <1>7, <1>8 DEF Serves
<1>10. db' = db /\ guesses' = guesses /\ requests' \in 0..MaxRequests
  BY AuthenticationAssumption DEF Request, IInv
<1>11. Moves(db, db', tx[p].locks, {})
  BY <1>10, NothingMoves DEF IInv
<1>12. t.locks = {}
  OBVIOUS
<1> HIDE DEF t
<1> QED
  BY <1>4, <1>5, <1>9, <1>10, <1>11, <1>12, ProcessStep DEF IInv

\* What a request is after its next lock.
LockTaken(t, rows, seen) == [t EXCEPT !.taken = @ + 1, !.locks = @ \cup rows, !.seen = seen]
\* A request keeps its type, and its operation, when it takes a lock.
LEMMA LocksTaken ==
    ASSUME NEW t \in TxState, NEW rows \in SUBSET LockSet, NEW seen \in SeenState
    PROVE  /\ LockTaken(t, rows, seen) \in TxState
           /\ LockTaken(t, rows, seen).request = t.request
           /\ LockTaken(t, rows, seen).taken = t.taken + 1
           /\ LockTaken(t, rows, seen).locks = t.locks \cup rows
           /\ LockTaken(t, rows, seen).seen = seen
<1> DEFINE taken == t.taken + 1
           locks == t.locks \cup rows
           e == [t EXCEPT !.taken = taken, !.locks = locks, !.seen = seen]
<1>1. taken \in Nat /\ locks \in SUBSET LockSet
  BY DEF TxState
<1>2. LockTaken(t, rows, seen) = e
  BY DEF LockTaken
<1> HIDE DEF taken, locks
<1>3. e \in TxState /\ e.request = t.request /\ e.taken = taken /\ e.locks = locks /\ e.seen = seen
  BY <1>1 DEF TxState
<1> QED
  BY <1>2, <1>3 DEF taken, locks

\* A request that takes its next lock, or is refused.
LEMMA AcquireKeeps ==
    ASSUME IInv, NEW p \in Processes, Acquire(p)
    PROVE  IInv'
<1> DEFINE r == tx[p].request
           n == tx[p].taken
           L == tx[p].locks
           lock == NextLock(p)
           after == Load(db, r, tx[p].seen, lock)
<1>1. /\ tx \in [Processes -> TxState] /\ tx[p] \in TxState
      /\ r # Idle /\ Consistent(db)
      /\ RequestOK(db, r) /\ r.op \in Operations /\ Holds(db, r, n, L, tx[p].seen)
      /\ tx[p].seen \in SeenState /\ n \in Nat /\ L \in SUBSET LockSet
      /\ r \in RequestState \cup {Idle}
  BY DEF IInv, Acquire, Busy, Serves, TxState
<1>2. n < Len(Plan(r, tx[p].seen)) /\ lock = Plan(r, tx[p].seen)[n + 1]
  BY DEF Acquire, PlanOf, NextLock
<1>3. guesses' = guesses /\ requests' = requests
  BY DEF Acquire
<1>4. CASE LockCheck(db, r, after, lock)
  <2> DEFINE t == LockTaken(tx[p], LockedRows(db, lock), after)
  <2>1. tx' = [tx EXCEPT ![p] = t] /\ db' = db
    BY <1>1, <1>4 DEF Acquire, LockTaken
  <2>2. /\ lock \in LockSet
        /\ after \in SeenState
        /\ n + 1 <= Len(Plan(r, after))
        /\ Holds(db, r, n + 1, L \cup LockedRows(db, lock), after)
    BY <1>1, <1>2, <1>4, AcquireHolds
  <2>3. LockedRows(db, lock) \in SUBSET LockSet
    BY <2>2, LockedFacts
  <2>4. \A q \in Processes : q # p => LockedRows(db, lock) \cap tx[q].locks = {}
    BY DEF Acquire, Excluded
  <2>5. \A q \in Processes : q # p => L \cap tx[q].locks = {}
    BY DEF IInv, LocksApart
  <2> HIDE DEF after, lock
  <2>6. /\ t \in TxState /\ t.request = r /\ t.taken = n + 1
        /\ t.locks = L \cup LockedRows(db, lock) /\ t.seen = after
    BY <1>1, <2>2, <2>3, LocksTaken
  <2> HIDE DEF t, r, n, L
  <2>7. Serves(db, t)
    BY <1>1, <2>2, <2>6 DEF Serves
  <2>8. \A q \in Processes : q # p => t.locks \cap tx[q].locks = {}
    BY <2>4, <2>5, <2>6
  <2>9. Moves(db, db', tx[p].locks, {})
    BY <1>1, <2>1, NothingMoves
  <2> QED
    BY <1>3, <2>1, <2>6, <2>7, <2>8, <2>9, ProcessStep DEF IInv
<1>5. CASE ~LockCheck(db, r, after, lock)
  <2>1. tx' = [tx EXCEPT ![p] = Free] /\ db' = Refused(db, r, after, lock)
    BY <1>5 DEF Acquire
  <2>2. /\ Moves(db, db', L, {})
        /\ \A b \in Scopes : db'.buckets[b] \in {db.buckets[b], Current(db.buckets[b])}
    BY <1>1, <1>2, <1>5, <2>1, RefusedMoves
  <2>3. \A b \in Scopes : db.buckets[b] \in Buckets
    BY <1>1, RowsAreTables DEF Consistent, BucketRows
  <2>4. GuessesCounted(guesses', db'.buckets)
    BY <1>3, <2>2, <2>3, GuessesLookedAt DEF IInv, GuessesCounted
  <2>5. Free \in TxState /\ Serves(db', Free) /\ Free.locks = {}
    BY FreeServes DEF Free
  <2> QED
    BY <1>3, <2>1, <2>2, <2>4, <2>5, ProcessStep DEF IInv
<1> QED
  BY <1>4, <1>5

\* A request that commits.
LEMMA CommitKeeps ==
    ASSUME IInv, NEW p \in Processes, Commit(p)
    PROVE  IInv'
<1> DEFINE r == tx[p].request
           L == tx[p].locks
           seen == tx[p].seen
<1>1. /\ tx \in [Processes -> TxState] /\ tx[p] \in TxState
      /\ r # Idle /\ Consistent(db)
      /\ RequestOK(db, r) /\ Holds(db, r, tx[p].taken, L, seen) /\ seen \in SeenState
  BY DEF IInv, Commit, Busy, Serves, TxState
<1>2. /\ RoomFor(db, r) /\ db' = Outcome(db, r, seen) /\ guesses' = Guessed(r, seen)
      /\ tx' = [tx EXCEPT ![p] = Free] /\ requests' = requests
      /\ tx[p].taken = Len(Plan(r, seen))
  BY DEF Commit, PlanOf
<1>3. Complete(db, r, L, seen)
  BY <1>1, <1>2, LastLockCompletes
<1>4. Moves(db, db', L, Confirming(r, seen))
  BY <1>1, <1>2, <1>3, OutcomeMoves
<1>5. /\ \A b \in Scopes : db.buckets[b] \in Buckets /\ GuessOK(guesses[b], db.buckets[b], b)
      /\ db.buckets \in BucketRows
      /\ guesses = [b \in Scopes |-> guesses[b]]
  BY <1>1, RowsAreTables DEF Consistent, BucketRows, IInv, GuessesCounted
<1>6. r.user \in Scopes /\ Address \in Scopes /\ (r.op \in SignIns => r.user # Address)
  BY <1>1, AuthenticationAssumption DEF RequestOK, RequestState, Scopes, SignIns
<1> HIDE DEF r, L, seen
<1>7. GuessesCounted(guesses', db'.buckets)
  <2>1. CASE r.op \in SignIns /\ Right(r, seen)
    <3>1. HasAddress(db, L, seen)
      BY <1>3, <2>1 DEF Complete
    <3>2. db'.buckets = [db.buckets EXCEPT ![r.user] = NoBucket, ![Address] = seen.address]
      <4>1. SignInLeaves(db, db', r, seen)
        BY <1>1, <1>2, <2>1, SignInBuckets
      <4> QED
        BY <2>1, <4>1 DEF SignInLeaves
    <3>3. guesses' = [guesses EXCEPT ![r.user] = 0]
      BY <1>2, <2>1 DEF Guessed, SignIns
    <3>4. seen.address = Current(db.buckets[Address])
      BY <3>1 DEF HasAddress
    <3>5. ASSUME NEW b \in Scopes PROVE GuessOK(guesses'[b], db'.buckets[b], b)
      <4>1. CASE b = r.user
        <5>1. db'.buckets[b] = NoBucket /\ guesses'[b] = 0
          BY <1>5, <1>6, <2>1, <3>2, <3>3, <4>1 DEF BucketRows
        <5> QED
          BY <1>5, <5>1, GuessesForgotten, BucketsAreBuckets
      <4>2. CASE b = Address /\ b # r.user
        <5>1. db'.buckets[b] = Current(db.buckets[b]) /\ guesses'[b] = guesses[b]
          BY <1>5, <1>6, <3>2, <3>3, <3>4, <4>2 DEF BucketRows
        <5> QED
          BY <1>5, <5>1, GuessesLookedAt
      <4>3. CASE b # r.user /\ b # Address
        <5>1. db'.buckets[b] = db.buckets[b] /\ guesses'[b] = guesses[b]
          BY <1>5, <3>2, <3>3, <4>3 DEF BucketRows
        <5> QED
          BY <1>5, <5>1
      <4> QED
        BY <4>1, <4>2, <4>3
    <3>6. guesses' = [b \in Scopes |-> guesses'[b]]
      BY <1>5, <3>3
    <3> QED
      BY <3>5, <3>6 DEF GuessesCounted
  <2>2. CASE r.op \in SignIns /\ ~Right(r, seen)
    <3>1. HasOwn(db, r, L, seen) /\ HasAddress(db, L, seen)
      BY <1>3, <2>2 DEF Complete
    <3>2. db'.buckets = [db.buckets EXCEPT ![r.user] = Failed(seen.own, r.user),
                                           ![Address] = Failed(seen.address, Address)]
      <4>1. SignInLeaves(db, db', r, seen)
        BY <1>1, <1>2, <2>2, SignInBuckets
      <4> QED
        BY <2>2, <4>1 DEF SignInLeaves
    <3>3. guesses' = [guesses EXCEPT ![r.user] = @ + 1, ![Address] = @ + 1]
      BY <1>2, <2>2 DEF Guessed, SignIns
    <3>4. /\ seen.own = Current(db.buckets[r.user]) /\ ~db.buckets[r.user].blocked
          /\ seen.address = Current(db.buckets[Address]) /\ ~db.buckets[Address].blocked
      BY <1>5, <1>6, <3>1, BucketsAreBuckets DEF HasOwn, HasAddress
    <3>5. ASSUME NEW b \in Scopes PROVE GuessOK(guesses'[b], db'.buckets[b], b)
      <4>1. CASE b \in {r.user, Address}
        <5>1. db'.buckets[b] = Failed(Current(db.buckets[b]), b) /\ guesses'[b] = guesses[b] + 1
          BY <1>5, <1>6, <2>2, <3>2, <3>3, <3>4, <4>1 DEF BucketRows
        <5>2. GuessOK(guesses[b] + 1, Failed(Current(db.buckets[b]), b), b)
          BY <1>5, <3>4, <4>1, GuessMade
        <5> QED
          BY <5>1, <5>2
      <4>2. CASE b # r.user /\ b # Address
        <5>1. db'.buckets[b] = db.buckets[b] /\ guesses'[b] = guesses[b]
          BY <1>5, <3>2, <3>3, <4>2 DEF BucketRows
        <5> QED
          BY <1>5, <5>1
      <4> QED
        BY <4>1, <4>2
    <3>6. guesses' = [b \in Scopes |-> guesses'[b]]
      BY <1>5, <3>3
    <3> QED
      BY <3>5, <3>6 DEF GuessesCounted
  <2>3. CASE r.op \notin SignIns
    <3>1. RecoversOnly(db, db', r)
      BY <1>1, <1>2, <1>3, <2>3, BucketsKept
    <3>2. /\ r.op = "recover_throttle_bucket" => guesses' = [guesses EXCEPT ![r.user] = 0]
          /\ r.op # "recover_throttle_bucket" => guesses' = guesses
      BY <1>2, <2>3 DEF Guessed, SignIns
    <3>3. ASSUME NEW b \in Scopes PROVE GuessOK(guesses'[b], db'.buckets[b], b)
      <4>1. CASE r.op = "recover_throttle_bucket" /\ b = r.user
        <5>1. guesses'[b] = 0 /\ db'.buckets[b] \in Buckets
          BY <1>5, <1>6, <3>1, <3>2, <4>1, BucketsAreBuckets DEF RecoversOnly
        <5> QED
          BY <5>1, GuessesForgotten
      <4>2. CASE ~(r.op = "recover_throttle_bucket" /\ b = r.user)
        <5>1. guesses'[b] = guesses[b] /\ db'.buckets[b] = db.buckets[b]
          BY <1>5, <3>1, <3>2, <4>2 DEF RecoversOnly
        <5> QED
          BY <1>5, <5>1
      <4> QED
        BY <4>1, <4>2
    <3>4. guesses' = [b \in Scopes |-> guesses'[b]]
      BY <1>5, <3>2
    <3> QED
      BY <3>3, <3>4 DEF GuessesCounted
  <2> QED
    BY <2>1, <2>2, <2>3
<1>8. Free \in TxState /\ Serves(db', Free) /\ Free.locks = {}
  BY FreeServes DEF Free
<1>9. requests' \in 0..MaxRequests
  BY <1>2 DEF IInv
<1>10. Moves(db, db', tx[p].locks, Confirming(r, seen))
  BY <1>4 DEF L
<1> QED
  BY <1>2, <1>7, <1>8, <1>9, <1>10, ProcessStep

\* A request that fails has written nothing.
LEMMA AbortKeeps ==
    ASSUME IInv, NEW p \in Processes, Abort(p)
    PROVE  IInv'
<1>1. /\ tx' = [tx EXCEPT ![p] = Free] /\ db' = db /\ guesses' = guesses
      /\ requests' = requests
  BY DEF Abort
<1>2. Moves(db, db', tx[p].locks, {})
  BY <1>1, NothingMoves DEF IInv
<1>3. Free \in TxState /\ Serves(db', Free) /\ Free.locks = {}
  BY FreeServes DEF Free
<1> QED
  BY <1>1, <1>2, <1>3, ProcessStep DEF IInv

\* A bucket changes with time only while no request holds it.
LEMMA BucketTime ==
    ASSUME IInv, NEW b \in Scopes, ~InUse(b), NEW bucket \in Buckets,
           db' = [db EXCEPT !.buckets[b] = bucket],
           \/ guesses' = [guesses EXCEPT ![b] = 0]
           \/ guesses' = guesses /\ GuessOK(guesses[b], bucket, b),
           UNCHANGED <<tx, requests>>
    PROVE  IInv'
<1>1. Consistent(db) /\ db.buckets \in BucketRows
  BY RowsAreTables DEF IInv, Consistent
<1>2. Moves(db, db', {BucketRow(b)}, {})
  BY <1>1, BucketRewritten
<1>3. \A q \in Processes : {BucketRow(b)} \cap tx[q].locks = {}
  BY DEF InUse
<1>4. db'.buckets = [db.buckets EXCEPT ![b] = bucket]
  BY <1>1, RowsAreTables DEF Consistent
<1>5. /\ guesses = [c \in Scopes |-> guesses[c]]
      /\ \A c \in Scopes : GuessOK(guesses[c], db.buckets[c], c)
  BY DEF IInv, GuessesCounted
<1>6. GuessOK(0, bucket, b)
  BY GuessesForgotten
<1>7. GuessesCounted(guesses', db'.buckets)
  BY <1>1, <1>4, <1>5, <1>6 DEF GuessesCounted, BucketRows
<1> QED
  BY <1>2, <1>3, <1>7, TimeStep

\* Time passes for buckets, challenges and sessions.
LEMMA TimeKeeps ==
    ASSUME IInv,
           \/ \E b \in Scopes : WindowPasses(b) \/ BlockEnds(b)
           \/ \E c \in Challenges : ChallengeExpires(c)
           \/ \E s \in Sessions : SessionExpires(s)
    PROVE  IInv'
<1>1. /\ Consistent(db) /\ db.buckets \in BucketRows /\ db.challenges \in ChallengeRows
      /\ HasTables(db)
  BY RowsAreTables DEF IInv, Consistent, HasTables
<1>2. ASSUME NEW b \in Scopes, WindowPasses(b) PROVE IInv'
  <2> DEFINE bucket == [db.buckets[b] EXCEPT !.elapsed = TRUE]
  <2>1. db.buckets[b] \in Buckets
    BY <1>1 DEF BucketRows
  <2>2. bucket \in Buckets /\ bucket.blocked = db.buckets[b].blocked
    BY <2>1 DEF Buckets
  <2>3. db' = [db EXCEPT !.buckets[b] = bucket] /\ ~InUse(b) /\ UNCHANGED <<tx, requests>>
    BY <1>2 DEF WindowPasses
  <2>4. GuessOK(guesses[b], db.buckets[b], b)
    BY DEF IInv, GuessesCounted
  <2> HIDE DEF bucket
  <2>5. CASE db.buckets[b].blocked
    <3>1. guesses' = guesses
      BY <1>2, <2>5 DEF WindowPasses
    <3>2. GuessOK(guesses[b], bucket, b)
      BY <2>2, <2>4, <2>5 DEF GuessOK
    <3> QED
      BY <2>2, <2>3, <3>1, <3>2, BucketTime
  <2>6. CASE ~db.buckets[b].blocked
    <3>1. guesses' = [guesses EXCEPT ![b] = 0]
      BY <1>2, <2>6 DEF WindowPasses
    <3> QED
      BY <2>2, <2>3, <3>1, BucketTime
  <2> QED
    BY <2>5, <2>6
<1>3. ASSUME NEW b \in Scopes, BlockEnds(b) PROVE IInv'
  <2> DEFINE bucket == [db.buckets[b] EXCEPT !.blocked = FALSE]
  <2>1. db.buckets[b] \in Buckets
    BY <1>1 DEF BucketRows
  <2>2. bucket \in Buckets
    BY <2>1 DEF Buckets
  <2>3. /\ db' = [db EXCEPT !.buckets[b] = bucket] /\ ~InUse(b) /\ UNCHANGED <<tx, requests>>
        /\ guesses' = [guesses EXCEPT ![b] = 0]
    BY <1>3 DEF BlockEnds
  <2> HIDE DEF bucket
  <2> QED
    BY <2>2, <2>3, BucketTime
<1>4. ASSUME NEW c \in Challenges, ChallengeExpires(c) PROVE IInv'
  <2> DEFINE challenge == [db.challenges[c] EXCEPT !.status = "expired"]
  <2>1. db.challenges[c] \in ChallengeState /\ db.challenges[c].status = "open"
    BY <1>1, <1>4 DEF ChallengeRows, ChallengeExpires
  <2>2. /\ challenge \in ChallengeState /\ challenge.status = "expired"
        /\ challenge.attempts = db.challenges[c].attempts
        /\ challenge.user = db.challenges[c].user
    BY <2>1 DEF ChallengeState
  <2>3. /\ db' = [db EXCEPT !.challenges[c] = challenge] /\ UNCHANGED <<tx, requests>>
        /\ guesses' = guesses
    BY <1>4 DEF ChallengeExpires
  <2> HIDE DEF challenge
  <2>4. Moves(db, db', {}, {})
    BY <1>1, <2>1, <2>2, <2>3, ChallengeRewritten
  <2>5. db'.buckets = db.buckets
    BY <1>1, <2>3 DEF HasTables
  <2>6. GuessesCounted(guesses', db'.buckets)
    BY <2>3, <2>5 DEF IInv
  <2> QED
    BY <2>3, <2>4, <2>6, TimeStep
<1>5. ASSUME NEW s \in Sessions, SessionExpires(s) PROVE IInv'
  <2>1. /\ db' = SessionExpired(db, s) /\ UNCHANGED <<tx, requests>>
        /\ guesses' = guesses /\ db.sessions[s].status = "live"
    BY <1>5 DEF SessionExpires, SessionExpired
  <2>2. Moves(db, db', {}, {})
    BY <1>1, <2>1, SessionExpiredMoves
  <2>3. db'.buckets = db.buckets
    BY <1>1, <2>1 DEF HasTables, SessionExpired
  <2>4. GuessesCounted(guesses', db'.buckets)
    BY <2>1, <2>3 DEF IInv
  <2> QED
    BY <2>1, <2>2, <2>4, TimeStep
<1> QED
  BY <1>2, <1>3, <1>4, <1>5

\* Every step keeps the invariant.
LEMMA InvariantStep == IInv /\ [Next]_vars => IInv'
<1> SUFFICES ASSUME IInv, [Next]_vars PROVE IInv'
  OBVIOUS
<1>1. ASSUME NEW p \in Processes, Request(p) PROVE IInv'
  BY <1>1, RequestKeeps
<1>2. ASSUME NEW p \in Processes, Acquire(p) PROVE IInv'
  BY <1>2, AcquireKeeps
<1>3. ASSUME NEW p \in Processes, Commit(p) PROVE IInv'
  BY <1>3, CommitKeeps
<1>4. ASSUME NEW p \in Processes, Abort(p) PROVE IInv'
  BY <1>4, AbortKeeps
<1>5. CASE \/ \E b \in Scopes : WindowPasses(b) \/ BlockEnds(b)
           \/ \E c \in Challenges : ChallengeExpires(c)
           \/ \E s \in Sessions : SessionExpires(s)
  BY <1>5, TimeKeeps
<1>6. CASE UNCHANGED vars
  BY <1>6 DEF vars, IInv, LocksApart
<1> QED
  BY <1>1, <1>2, <1>3, <1>4, <1>5, <1>6 DEF Next

-----------------------------------------------------------------------------
(* The theorems.                                                           *)

\* The inductive invariant holds in every reachable state.
THEOREM InductiveInvariant == Spec => []IInv
BY InvariantInit, InvariantStep, PTL DEF Spec

\* The rows, the guesses and the requests are well formed: TypeOK of Authentication.
THEOREM TypeCorrect == Spec => []TypeOK
<1>1. IInv => TypeOK
  <2> SUFFICES ASSUME IInv PROVE TypeOK
    OBVIOUS
  <2>1. db \in Rows
    BY DEF IInv, Consistent
  <2>2. guesses \in [Scopes -> Nat]
    <3>1. /\ guesses = [b \in Scopes |-> guesses[b]]
          /\ \A b \in Scopes : guesses[b] \in Nat
      BY DEF IInv, GuessesCounted, GuessOK
    <3> QED
      BY <3>1
  <2>3. ASSUME NEW p \in Processes, Busy(p)
        PROVE  tx[p].request.op \in Operations /\ tx[p].taken \in 0..Len(PlanOf(p))
    <3>1. /\ tx[p] \in TxState /\ RequestOK(db, tx[p].request)
          /\ tx[p].request.op \in Operations
          /\ tx[p].taken <= Len(Plan(tx[p].request, tx[p].seen))
      BY <2>3 DEF IInv, Serves, Busy
    <3>2. tx[p].taken \in Nat
      BY <3>1 DEF TxState
    <3>3. Len(Plan(tx[p].request, tx[p].seen)) \in {1, 2, 3, 4}
      BY <3>1, PlanLengths
    <3> QED
      BY <3>1, <3>2, <3>3 DEF PlanOf
  <2> QED
    BY <2>1, <2>2, <2>3 DEF TypeOK, IInv
<1> QED
  BY <1>1, InductiveInvariant, PTL

\* Under one account, and from one address under several, no more wrong PINs are
\* answered than the limit before a block (_record_login_failure and the FOR UPDATE
\* of its buckets): GuessesBounded of Authentication.
THEOREM GuessesStayBounded == Spec => []GuessesBounded
<1>1. IInv => GuessesBounded
  BY DEF IInv, GuessesCounted, GuessOK, GuessesBounded
<1> QED
  BY <1>1, InductiveInvariant, PTL

\* A challenge of an organization's choice lets one session in, whoever else is
\* choosing with it: OneSessionPerChallenge of Authentication.
THEOREM OneSessionEach == Spec => []OneSessionPerChallenge
<1>1. IInv => OneSessionPerChallenge
  BY DEF IInv, Consistent, OneSessionPerChallenge
<1> QED
  BY <1>1, InductiveInvariant, PTL

\* No live application session is of an account that must change its PIN, whatever
\* resets, changes and sign-ins overlap: PinChangeComesFirst of Authentication.
THEOREM ChangeComesFirst == Spec => []PinChangeComesFirst
<1>1. IInv => PinChangeComesFirst
  BY DEF IInv, Consistent, PinChangeComesFirst
<1> QED
  BY <1>1, InductiveInvariant, PTL

\* A step that confirms a session confirms it with the PIN in force.
LEMMA ConfirmsWithPin ==
    ASSUME IInv, [Next]_vars, NEW s \in Sessions,
           db'.sessions[s].step_up \notin {None, db.sessions[s].step_up}
    PROVE  db'.sessions[s].step_up = db.accounts[db.sessions[s].user].pin
<1>1. Consistent(db) /\ HasTables(db) /\ db.sessions \in SessionRows
  BY RowsAreTables DEF IInv, Consistent, HasTables
<1>2. ASSUME NEW K, NEW L, Moves(db, db', L, K) PROVE s \in K
  BY <1>2 DEF Moves, ConfirmsOnly
<1>3. db' # db
  OBVIOUS
<1>4. ASSUME NEW p \in Processes, Acquire(p) PROVE FALSE
  <2> DEFINE r == tx[p].request
             lock == NextLock(p)
             after == Load(db, r, tx[p].seen, lock)
  <2>1. db' = Refused(db, r, after, lock)
    BY <1>3, <1>4 DEF Acquire
  <2>2. db'.sessions = db.sessions
    BY <1>1, <2>1 DEF Refused, HasTables
  <2> QED
    BY <2>2
<1>5. ASSUME NEW p \in Processes, Commit(p)
      PROVE  db'.sessions[s].step_up = db.accounts[db.sessions[s].user].pin
  <2> DEFINE r == tx[p].request
             L == tx[p].locks
             seen == tx[p].seen
  <2>1. /\ RequestOK(db, r) /\ Holds(db, r, tx[p].taken, L, seen) /\ seen \in SeenState
    BY <1>5 DEF IInv, Commit, Busy, Serves, TxState
  <2>2. RoomFor(db, r) /\ db' = Outcome(db, r, seen) /\ tx[p].taken = Len(Plan(r, seen))
    BY <1>5 DEF Commit, PlanOf
  <2> HIDE DEF r, L, seen
  <2>3. Complete(db, r, L, seen)
    BY <2>1, <2>2, LastLockCompletes
  <2>4. s \in Confirming(r, seen)
    BY <1>1, <1>2, <2>1, <2>2, <2>3, OutcomeMoves
  <2>5. r.op = "reauthenticate" /\ Right(r, seen) /\ s = r.session
    BY <2>4 DEF Confirming
  <2>6. db'.sessions[s].step_up = r.pin
    BY <1>1, <2>1, <2>2, <2>5, ConfirmedWithPin
  <2>7. r.pin = db.accounts[r.user].pin
    BY <2>3, <2>5 DEF Right, Complete, HasAccount, AccountOperations, SignIns
  <2>8. db.sessions[s].user = r.user
    BY <2>1, <2>5 DEF RequestOK, SessionOperations
  <2> QED
    BY <2>6, <2>7, <2>8
<1>6. ASSUME NEW b \in Scopes, WindowPasses(b) \/ BlockEnds(b) PROVE FALSE
  <2>1. db'.sessions = db.sessions
    BY <1>1, <1>6 DEF WindowPasses, BlockEnds, HasTables
  <2> QED
    BY <2>1
<1>7. ASSUME NEW c \in Challenges, ChallengeExpires(c) PROVE FALSE
  <2>1. db'.sessions = db.sessions
    BY <1>1, <1>7 DEF ChallengeExpires, HasTables
  <2> QED
    BY <2>1
<1>8. ASSUME NEW t \in Sessions, SessionExpires(t) PROVE FALSE
  <2>1. Moves(db, db', {}, {})
    BY <1>1, <1>8, SessionExpiredMoves DEF SessionExpires, SessionExpired
  <2> QED
    BY <1>2, <2>1
<1>9. ASSUME NEW p \in Processes, Request(p) \/ Abort(p) PROVE FALSE
  BY <1>3, <1>9 DEF Request, Abort
<1> QED
  BY <1>3, <1>4, <1>5, <1>6, <1>7, <1>8, <1>9 DEF Next, vars

\* A session is confirmed only with the PIN its account has at that moment
\* (reauthenticate under the account's lock): StepUpKnowsPin of Authentication.
THEOREM StepUpKnows == Spec => StepUpKnowsPin
<1>1. IInv /\ [Next]_vars =>
        \A s \in Sessions :
            db'.sessions[s].step_up \notin {None, db.sessions[s].step_up}
            => db'.sessions[s].step_up = db.accounts[db.sessions[s].user].pin
  BY ConfirmsWithPin
<1> QED
  BY <1>1, InductiveInvariant, PTL DEF Spec, StepUpKnowsPin
=============================================================================
