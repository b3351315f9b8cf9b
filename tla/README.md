# SymGov in TLA+

SymGov (`src/`) receives drawing symbols, has software agents inspect them, has
people review them, and publishes the approved ones in a public catalogue; its
customers are organizations that keep libraries of their own.  This directory models
the parts of it where several processes change the same rows and files: the release
of a review case, feedback on published symbols, the administration of
organizations, the life of an organization's symbol, and signing in.  TLC checks the
models on small instances, and TLAPS proves what matters most of each for every
number of processes, requests and rows.

## 1. The system

A FastAPI application (`backend/symgov_backend/routes/`), a PostgreSQL database
(`models/schema.py`), agent runners started as subprocesses or by a polling
worker (`scripts/run_*.py`, `agent_queue_worker.py`), queue files on disk beside
the database rows that mirror them, and a React frontend.

| component | state it keeps | operations | how it meets the others |
|---|---|---|---|
| Decision endpoints (`routes/workspace.py`) | review case stage and closing time, human decisions, case actions, split items | whole-case decision, batch of child decisions | take the case's advisory lock, commit, then call a handoff in the same request |
| Publication handoff (`publication_handoff.py`) | the decision's action, its publication approval target, Rupert's queue file | validate, duplicate gate, start Rupert, record the result | runs Rupert as a subprocess with a 120 s timeout; diverts duplicates to Libby |
| Follow-up handoff (`review_followup_handoff.py`) | Libby's row and file | queue a follow-up | row committed, then the file Libby reads |
| Authority lock (`publication_authority.py`) | a PostgreSQL advisory transaction lock per case | lock | held until the transaction ends, whoever ends it |
| Rupert (`run_rupert_publication.py`, `runtime.py`) | packs, pages, governed symbols, its queue file | stage, publish | own database session, under the case's lock |
| Libby (`run_libby_classification.py`, `runtime.py`) | split item status, classification | duplicate resolution, disposition, return of a changed child, classification | reads files its worker lists; sends changes of a graphic to Vlad, who sends them back |
| Agent queue (`agent_queue_worker.py`, `agent_queue_reconciliation.py`) | a JSON file per item, a row per item | list, claim, run, mirror, reconcile | several workers, the API and the management command all process the same files |
| Scott, Vlad, Tracy, Daisy, Hannah, Whitney | intake, validation, provenance, review lanes | one task per queue item | through the agent queue |
| Symbol drafts and review (`organization_symbol_drafts.py`, `organization_symbol_review.py`, `organization_review_policy.py`) | revisions, review submissions and decisions, the policy of the organization, the library flag | create, edit, submit, withdraw, decide, start and discard a new revision | the policy row in share mode, the submission row; triggers on history and eligibility |
| Promotion (`promotion_requests.py`, `organization_promotion_handoff.py`, `contribution_events.py`) | promotion requests, a page and a pack per accepted one, credit | submit, withdraw, open a case, hand off | the request's row, then the symbol's; the decision endpoint calls the handoff |
| Demotion and withdrawal (`symbol_demotion.py`, `symbol_withdraw.py`) | visibility, pages, credit | demote, withdraw | the symbol's row; looks at the Symbol Sets of other organizations |
| Symbol Sets (`symbol_set_service.py`) | sets and their items | replace items, states, copies, defaults | the set's row, then the rows of its symbols |
| Published feedback (`services/published_feedback.py`, `routes/published.py`, `routes/catalog.py`, `published_feedback_gate.py`) | request anchors, review cases of published symbols, Ed's rows and files | accept, replay, repair a missing file, pause | advisory locks per request key and per symbol, held to the end of the transaction; Ed's files; the claim in the agent queue worker |
| Authentication (`auth.py`, `auth_security.py`, `routes/auth.py`) | accounts' PINs, sessions, selection challenges, throttle buckets | log in, confirm, select, switch, log out, change and reset a PIN | rows under `FOR UPDATE`, each request in its own order; sweeps of an account's sessions and challenges |
| Organizations (`organization_service.py`, `routes/admin.py`) | memberships, base roles, platform roles, entitlement | found, add, demote, end, bring back, suspend; change and delete accounts | an advisory lock (the gate), row locks, deferred triggers at the commit |
| Organization keys and subscriptions (`catalog_org_api_keys.py`, `stage4_authorization.py`, `organization_subscriptions.py`) | Catalog API keys of members; plans and seats | issue, claim, revoke; set, renew | shared locks on what the authority rests on; the organization's row |
| Platform keys, personal subscriptions, projects | their rows | single-row changes | foreign keys |
| Email outbox, notifications | outbox rows | claim, send, retry | a worker of its own |
| Ed, the LLM router and its ledger | conversations, usage rows | ask with fallbacks | external services |
| Ingestion (Commons, QET, DEXPI) | source packages | load | run by hand |

What makes it hard: the lock of a case lives only as long as a transaction, while
its release takes several transactions and a subprocess; queue files and rows are
written separately; the subprocess outlives the request that started it; the same
file may be run twice; sessions remember rows across their own commits; decision
times have a resolution of one second; coroutines wait for database locks without
awaiting, so that a waiting request stops its whole process; what a request checked
before it had a lock may be untrue when it commits; services lock the same rows in
different orders; a sweep of sessions or keys does not see what is not committed yet.

What makes each part correct is in section 3 (modelled) and section 7 (plan).
`PROJECT.json` lists every component with its status and every hazard with its
line.

## 2. Modules

| module | what it is |
|---|---|
| `ReviewAuthority` | the abstract ledger of one review case: decisions replace or join those in force, and only an approval in force may publish |
| `ReviewHandoff` | the case in detail: the two endpoints, both handoffs, Rupert's runners, the queue worker, Libby's and Vlad's follow-ups |
| `MCReviewHandoff` | its instances for TLC |
| `ReviewHandoffProofs` | theorems about `ReviewHandoff`, with proofs |
| `PublishedFeedback` | a review request about published symbols, from its client to Ed: the two routes, the service, the gate, the queue worker's claim, reconciliation |
| `MCPublishedFeedback` | its instances for TLC |
| `PublishedFeedbackProofs` | theorems about `PublishedFeedback`, with proofs |
| `OrganizationAdministration` | the requests that change memberships, roles, entitlement, seats, accounts, sessions and keys, each with its locks in order |
| `MCOrganizationAdministration` | its initial states for TLC |
| `OrganizationAdministrationProofs` | theorems about `OrganizationAdministration`, with proofs |
| `SymbolLifecycle` | one symbol of an organization from its draft to the public catalogue and back, with the Symbol Set of another organization |
| `MCSymbolLifecycle` | its initial states for TLC |
| `SymbolLifecycleProofs` | theorems about `SymbolLifecycle`, with proofs |
| `Authentication` | accounts, throttle, challenges and sessions |
| `MCAuthentication` | its initial states for TLC |
| `AuthenticationProofs` | theorems about `Authentication`, with proofs |

The five specifications share no state: the cases of published symbols are not split,
Ed is not Rupert, and an organization's symbol never meets either.  Two meet at a seam:
a session bound to a membership is made in `Authentication` (what the account must do
first) and in `OrganizationAdministration` (what membership it rests on).

### ReviewHandoff and the code

One action is one transaction, or the stretch between two points where another
process may look.  What a transaction has not committed is not in the state.

| variable | code |
|---|---|
| `stage`, `closed` | `review_cases.current_stage`, `closed_at` |
| `log`, `live` | `human_review_decisions`; those with `superseded_at` null |
| `action`, `target` | status of the decision's `review_case_actions` row; its publication approval target |
| `item`, `latest` | `review_split_items.status`, `latest_decision_id` |
| `libbyRow`, `libbyFile`, `libbyDone` | Libby's queue row; the file; the children she has written for it |
| `vladFile`, `vladBack` | changes of the graphic that went to Vlad; those that came back to Libby |
| `file`, `run` | Rupert's queue file; how far the subprocess ("child") and the queue worker ("worker") are with it |
| `published` | decisions whose revisions have a published page |
| `lock` | the holder of `pg_advisory_xact_lock` on the case |
| `pc`, `job`, `seen` | a request: where it is, what it has still to hand off, and the case's row as its session remembers it |

| action | code |
|---|---|
| `RecordDecision` | `create_workspace_review_decision` up to its first commit |
| `ProcessChildren` | `process_workspace_split_review_decisions` up to its first commit |
| `RefuseHandoff`, `NothingApproved`, `DivertDuplicate`, `StartRelease` | the four ways `execute_publication_handoff` leaves its first transaction |
| `Launch`, `FinishHandoff`, `RupertErrors`, `RupertTimesOut`, `WriteFails` | the queue file and the subprocess; the result; the failures |
| `QueueFollowUp`, `WriteLibbyFile` | `execute_review_followup_handoff` |
| `EndRequest`, `RequestDies` | the response, or the end of the process |
| `WorkerLists`, `RunnerStages`, `RunnerPublishes`, `RunnerFails` | `queued_item_paths`, then Rupert's `process_queue_item` and its database transaction |
| `LibbyResolves`, `LibbyDisposes` | `run_review_follow_up_task`: `resolve_duplicate_review_split_item`, which finds the item through its latest decision, and `dispose_review_split_item`, by the child's key |
| `LibbyAsksVlad`, `VladReturns`, `LibbyReturns` | a change of the graphic sent to Vlad, `build_libby_return_queue_item`, and `return_review_split_item_for_review`, by the child's key |

Two settings of `db.py` shape the model.  `expire_on_commit=False`: the handoff
validates the stage the request's session remembers (`seen`), not the row's, until
a rollback makes the session forget it; and a column assigned the value the
session remembers is not written.  `autoflush=False`: the count of open items that
decides whether a split case closes does not see a confirmation that comes last.

Abstractions.  A symbol's content is a model value, and graphics are compared by
`Looks`.  The publication gate inside Rupert is one nondeterministic refusal.  A
database transaction is atomic: a batch locks the rows of all its items with its
first flush (`ensure_split_items`), and the case's row is only written at the end.
A batch names a child once, as the frontend does.  Libby writes the children of a follow-up
one by one, each in a transaction of its own and without a lock; what she does with metadata and
evidence changes nothing here.  Promotions of organization
symbols branch off before anything modelled here and never meet Rupert.

### PublishedFeedback and the code

| variable | code |
|---|---|
| `call` | what a request asks for; fixed, chosen by the instance |
| `pc`, `todo`, `reused` | a handler: where it is, the symbols left in this phase, the open cases it has validated |
| `anchor` | the `published_feedback_request` audit event of a key; `{}` if there is none |
| `cases` | open `review_cases` rows of a published symbol |
| `row`, `file` | status of the `agent_queue_items` row and of its JSON file |
| `paused` | the maintenance marker |
| `wpc`, `witem`, `wlist`, `runs` | a queue worker: where it is, its item, the files it has listed; how often Ed was started |
| `snapshot` | what a reconciliation has read from the files |
| `switches`, `faults` | counters for the bounds |

| action | code |
|---|---|
| `Receive`, `Enter` | the start of a handler up to `await request.json()`, and its return to the event loop |
| `LockKey`, `LockSymbol`, `Validate`, `Commit`, `Refuse` | the two kinds of advisory lock, the anchor, the open case, the transaction, a rollback |
| `Materialize` | the files, after the commit |
| `Replay`, `Repair`, `CloseSession` | `_published_command_replay_response` or `_catalog_feedback_replay_response`, and `get_db_session` closing the session |
| `ListFiles`, `ReadFile`, `LockRow`, `WriteClaim`, `CommitClaim`, `CommitFails`, `Restore` | `queued_item_paths` and `claim_published_feedback_queue_item` |
| `StartEd`, `EdSavesFile`, `EdSavesRow`, `EdRaises` | Ed's runner, which is outside the repository: it finishes file and row in either order, or raises |
| `ReconcileReadsFiles`, `ReconcileRows` | `reconcile_agent_queue_state` with `apply` |
| `SwitchGate`, `CloseCase` | the operator's marker; a decision in the Workspace |
| `ProcessDies`, `WorkerDies` | crashes |

Locks are not variables: who holds one follows from `pc` and `wpc` (`HoldsKey`,
`HoldsSymbol`, `RowFree`), as a lock is held from its acquisition to the end of the
transaction.  The handlers are coroutines that call the database synchronously, so
from its first lock to its return a handler has its loop alone (`LoopFree`).  This is
why a browser replay, which returns without ending its transaction, keeps its lock
until the loop is free again, and a Catalog replay, which commits, does not.

Abstractions.  Only `send_for_review` is modelled: a comment creates no work.  A
request's fingerprint is its set of symbols; a Catalog request has one symbol.
"done" is completed or failed; the waiting statuses are left out.  A worker lists all
queued files (the code takes the first `limit`).  Reconciliation writes its rows in
one step.  The claim reads the file twice in a row (`agent_queue_worker.py:456, 464`),
the model once.  The handler for an `IntegrityError` cannot be reached while the
key's lock is held and is left out.  Cases reopened elsewhere are not modelled, so
`OneOpenCase` is about the cases these routes open.

### OrganizationAdministration, SymbolLifecycle, Authentication: requests as transactions

These three have the same shape.  A request is a READ COMMITTED transaction.

| step | `OrganizationAdministration` | `SymbolLifecycle` | `Authentication` |
|---|---|---|---|
| a request is made, and passes what its route checks | `Request`, `RouteAllows` | `Request`, `ReadCheck`, `Snapshot` | `Request` |
| the rows it locks, one at a time, in the order of the code | `Plan` | `Plan` | `Plan`, `LockedRows` |
| it takes the next lock, reads, and checks or is refused | `Acquire`, `Passes` | `Acquire`, `LockCheck` | `Acquire`, `Load`, `LockCheck`, `Refused` |
| it writes, unless a constraint or trigger refuses | `Commit`, `Outcome`, `Accepted` | `Commit`, `Outcome`, `ConstraintsHold` | `Commit`, `Outcome` |
| it fails or loses a deadlock | `AbortVictim` | `Abort` | `Abort` |
| time | `TermEnds` | | `WindowPasses`, `BlockEnds`, `ChallengeExpires`, `SessionExpires` |

`db` holds the committed rows, `tx` what each process is serving, and `requests` counts
for the bound.  Each of the three says in `Consistent` which rows its requests may start from,
and assumes of `InitialStates` that they are such rows (`InitialStatesAssumption`): TLC evaluates
it on the instances, and the proofs show that every commit leaves such rows again.
`Authentication` also counts the wrong PINs that were answered (`guesses`),
apart from the rows the throttle counts them in.

`OrganizationAdministration`.  `db`: accounts, organizations, `member` (membership and base
role), `departed` (memberships whose end was recorded once), platform administrators,
seats, lapsed plans, keys, sessions.  A lock has a mode (update, share, key share); a
request that waits is part of a circle or will go on, and only a member of a circle is
aborted, as PostgreSQL's deadlock detector does.  The deferred triggers run in `Commit`
and lock what they read (`LocksAtCommit`).  Membership and role rows are covered by the
lock of their organization and are not locks of their own.

`SymbolLifecycle`.  `db`: the symbol (visibility, current and pending revision, library
flag, catalogue id), revisions, submissions with their decision, promotion requests with
the page and the credit of an accepted one, the policy, and whether another organization's
set has the symbol (`foreign`).  Many requests take no lock: they act on what their session
loaded (`seen`) and an UPDATE names only the columns whose value differs from the loaded one
(`Put`), so an edit may overwrite a state that changed in between; the constraints decide.
A commit that writes the symbol waits for whoever holds its row (`Unhindered`).
A decision remembers the policy it was checked against (`policy`): without a policy row, the default
of an organization, it has read "unset" and locked nothing (`LockTaken`).

`Authentication`.  `db`: accounts, throttle buckets per account and for one address,
challenges, sessions.  PINs are numbers in the order they are set, so that "the PIN in force"
can be told from an earlier one.  A sweep (`Revoked`) reaches the rows that were committed
when its UPDATE ran (`swept`).  The code allows 5 wrong PINs an account, 20 an address and 5
choices a challenge; the instance 2, 3 and 2.

Abstractions.  Names, payload contents, icons, capabilities and organization member roles,
the bootstrap, the protected owner's account, key expiry and tokens are left out of the first; the
rate limit of promotion, its duplicate flag, the reviewer's own membership, copies of sets, usage
events, badges, totals and the values of catalogue ids of the second (the publication gate is
`Abort`; the settings are those of workflow v2); unknown addresses, paging of choices, the
snapshot's hash, cookies, last-seen times, deleted accounts and the personal mode of the third.

## 3. What is checked

Properties of `ReviewHandoff`:

* `ImplementsLedger`: the case refines `ReviewAuthority`.  A page appears only for an
  approval in force, whatever two endpoints and an orphaned subprocess do (in the run) and the
  worker (in the theorem).
* `WholeReleaseIsExclusive`: from the validation of a whole-case approval to the end of
  Rupert nobody supersedes it, because the request keeps the lock.
* `CompletedActionHasEffect`, `PublishedItemHasPage`: statuses never claim what did not happen.
* `NoOrphanQueueFile`: rows precede files.
* `OnlyFollowUpsTakeBack`: while one request at a time decides the case (the theorem's hypothesis
  too), a published item is taken back only by a rejection, a deletion or a change of the graphic
  that was asked for before it was approved again: Libby finds those by the child's key
  (section 5).  Her verdict on a duplicate, a diverted duplicate and a batch never take it
  back.  With two requests they can: a decision of one request on an item the other is
  publishing makes the item Libby's again.
* `RequestsFinish`: a request that waits for a subprocess that waits for its lock ends, by the
  timeout.

| run | instance | shows |
|---|---|---|
| `split_two_reviewers` | 2 reviewers, 2 look-alike children (both symmetric), approvals only (a later whole-case approval replaces what is in force as any decision does), subprocess, unreadable graphics, 3 decisions | the safety properties and the refinement; 1,562,391 states |
| `split_one_reviewer` | 1 reviewer, 1 child, approve/duplicate/reject/request_changes, subprocess, 3 decisions | follow-ups that come late, a child decided and published again; 2,919,401 states |
| `intake_finishes` | 2 reviewers, an intake case, subprocess and worker, approve/reject, 2 decisions, fairness | the wait for the parent's lock and its end, two runners of one file; 14,817 states |
| `stamped_after_replacement`, `approval_not_durable` | the smallest instances that show it | two documented promises that the code does not keep (section 5) |

Properties of `PublishedFeedback`:

* `ClaimedOnce`: Ed is started at most once on an item, with two workers that have read the
  same file, claims that fail at their commit and are restored, replays and repairs.
* `RowsMoveForward`: no replay, repair, failed claim or late reconciliation takes a row back.
* `RowsPrecedeFiles`: no file Ed could read exists before the commit, whoever crashes.
* `FinishedFilesStay`: a finished file is not queued again, except by a worker restoring
  the file of a failed claim after a second worker took the item over.  With one API process;
  with two it is violated (section 5).
* `OneOpenCase`: no symbol gets two open cases from concurrent requests.
* `RequestsAnswered`: handlers that wait for locks while they block their loop do not wait
  for each other for ever, as long as a request is not retried twice at once (section 5).

| run | instance | shows |
|---|---|---|
| `feedback_one_process` | 1 API process, 2 requests under one key about one or two symbols, 2 workers, 2 faults, the gate switched twice (symmetric) | the safety properties; 2,263,927 states |
| `feedback_two_processes` | 2 API processes, a request, its retry, a rival for the same two symbols; no workers | locks; 46,500 states |

Properties of `OrganizationAdministration`:

* `SomeoneInCharge`: every active organization keeps an effective administrator, and the platform
  an eligible one, while administrators demote, end, deactivate and delete each other.
* `TriggersAreLastResort`: only the requests that check nothing themselves (accounts, and the
  organization brought back) are ever refused by the administrator triggers; the services' own
  checks are enough for the others.
* `AuthorityHoldsAtCommit`: an actor's authority, checked early, still holds at the commit.
* `ManagesOwnAccountsOnly`: an Organization Admin changes only accounts that belong to that
  organization alone, also while they join another.
* `LiveKeyHasMember`, `SessionHasMember`: keys and sessions that are being made while the
  membership, the account or (keys) the organization ends are not left behind.
* `SeatsCoverMembers`, `RequestsEnd`: seats are not overbooked; everybody is answered although
  services lock in opposite orders.

| run | instance | shows |
|---|---|---|
| `org_authority` | 3 users, 1 customer, the 10 operations on members, platform roles, accounts, entitlement; 3 requests, 2 at a time (symmetric); 2 initial states | who is in charge; 1,130,007 states |
| `org_keys_and_seats` | the same with 14 operations on members, plans, keys, sessions and what ends them; 2 requests; 4 initial states (settled, being founded, a member left, a key issued); fairness | seats, nothing outlives its membership, the end of every wait; 254,226 states |

Properties of `SymbolLifecycle`:

* `WithdrawnUndecided`, `VerdictStands`: a reviewer reads a submission without locking it; the
  trigger on history still lets only one of decision, second decision and withdrawal through.
* `SelfApprovalObeysPolicy`: no decision by its submitter that was checked against a policy row
  commits under a policy that asks for an independent reviewer; the share lock on the row
  holds it still.  A decision that found no row has locked nothing, and the first policy can come
  between its check and its commit (section 5); the run reaches it, the property excludes it.
* `PublishesCurrentRevision`: an acceptance publishes what the symbol shows at that moment, and
  something the organization approved.
* `ForeignSetsHoldPublic`: demotion and another organization's set exclude each other.
* `CreditOnlyWhileShown`: one award at most, and only behind an active page.
* `NotAllBlocked`: the orders of the locks leave no circle.

| run | instance | shows |
|---|---|---|
| `symbol_lifecycle` | all 18 operations, 2 members, 3 revisions, 3 submissions, 2 promotions, 5 requests, 2 at a time (symmetric), 7 initial states, with and without a policy row | the properties above; 3,014,500 states |
| `withdrawn_republished` | 1 process, 4 operations from a public symbol | section 5 |

Properties of `Authentication`:

* `GuessesBounded`: no more wrong PINs are answered at sign-in and step-up than the limit, in any
  scope, however many are checked at once.  (The current PIN that `change_pin` asks for is not
  throttled, section 5.)
* `OneSessionPerChallenge`: of several selections made with a challenge one wins.
* `PinChangeComesFirst`: while an account must change its PIN no session of it is open in the
  application, neither one that survived the reset nor one made from a challenge.
* `StepUpKnowsPin`: a session is confirmed only with the PIN in force at that moment.

| run | instance | shows |
|---|---|---|
| `authentication` | all 10 operations, 2 accounts (one in several organizations), 1 address, 3 requests, 2 at a time (symmetric), 5 initial states | the properties above; 966,251 states |

Bounds of `ReviewHandoff`.  A child publishes only after a whole-case approval, so
`MaxDecisions` = 3 is the least that lets an approval of a child be replaced or followed while its
handoff runs, and a child be decided again after it went to Libby.  Two reviewers
suffice because every conflict is between the request that releases and one that decides; two
children because a batch treats its children in order and a case asks only whether some child
is open; one where only an item and its follow-ups meet.  The worker with two reviewers and a
split case is out of reach of a run; the theorems of section 4 have no bounds.  The bounds are
conjuncts of `RecordDecision` and `ProcessChildren`; the runs do not check deadlock because a case
whose decisions are used up stops.

Bounds of `PublishedFeedback`.  `MaxFaults` = 2 allows a failed delivery and a failed
claim in one behaviour, or a crash after either; `MaxSwitches` = 2 closes the gate and
opens it again.  Two workers are all that can meet on one item.  Two symbols are what a
circle of symbol locks needs.  Two processes are compared with one because handlers of
one process never overlap.  Deadlock is not checked: once the requests are answered and
the gate is switched as often as allowed, everything may rest.

Bounds of the three others.  Two processes suffice for the conflicts of two requests, which is what
each hazard is about; the third request of `org_authority` and `authentication` and the further ones of
`symbol_lifecycle` bring back what an earlier one ended.  The initial states start in the
middle of a story (`InLibrary`, `Overtaken`, `OfferedAgain`; `Tried`, `Switching`,
`Forced`; `Shared`, `Parted`, `Issued`), so that a few requests reach its end; each is a state
the operations lead to.  Three users are an administrator, a rival and the account they act on.
`RoomFor` bounds the rows of an instance.  Deadlock is not checked: a behaviour ends when its
requests are used up; waiting for one another for ever is what `RequestsEnd` and `NotAllBlocked`
are about.

Fairness of `OrganizationAdministration` (`Fairness`).  A request that could take its next lock,
commit, or be aborted as a member of a circle does one of these (weak fairness of the three
together, per process): the server's thread runs on, PostgreSQL grants a free row, and
`deadlock_timeout` ends a circle.  Nothing makes a client send a request.  `SymbolLifecycle` and `Authentication`
state safety only.

Fairness of `ReviewHandoff` (`FairSpec`).  A request is a thread: its own steps are not postponed for
ever.  PostgreSQL grants the advisory lock in the order of requests, so a request
that keeps asking for it gets it (strong fairness of its locking steps).  The
subprocess is killed after 120 s (weak fairness of the timeout, part of the
request's own steps).  Nothing is assumed of Rupert, the worker, Libby or of
reviewers making decisions.

Fairness of `PublishedFeedback` (`FairSpec`).  An event loop runs what is ready in turn,
and PostgreSQL grants advisory locks in the order of the requests for them, so a request
that again and again could proceed does (strong fairness of its own steps, its refusal
excepted).  Nothing is assumed of workers, operators or reviewers.

## 4. What is proved

The five proof modules prove every safety invariant and every action property that a run
finds true, for every value of the constants that the assumptions of the model allow: any
set of accounts, symbols, revisions, keys, processes, workers, and any bounds.

| module | assumes | inductive invariant | theorems |
|---|---|---|---|
| `ReviewHandoffProofs` | `HandoffAssumption` | `IInv`, `SInv` | `TypeCorrect`, `InvariantHolds`, `ExclusiveRelease`, `CompletedActions`, `PublishedItems`, `NoOrphans`, `WholeApprovals`; the refinement `CaseImplementsLedger`; the action property `PublishedStays`, for one reviewer |
| `PublishedFeedbackProofs` | `FeedbackAssumption` | `IInv` | `TypeCorrect`, `RowsComeFirst`, `EdStartsOnce`, `NoSecondCase`; the action properties `RowsAdvance` and, for one event loop, `FinishedFilesAreKept` |
| `OrganizationAdministrationProofs` | `AdministrationAssumption`, `OperationsAssumption`, `InitialStatesAssumption` | `IInv` | `TypeCorrect`, `AlwaysInCharge`, `ServicesRefuseFirst`, `AuthorityIsNotStale`, `KeysFollowMembers`, `SessionsFollowMembers`, `SeatsSuffice`; the action property `OwnAccountsOnly` |
| `SymbolLifecycleProofs` | `LifecycleAssumption`, `InitialStatesAssumption` | `IInv`, `PolicyGuarded` | `TypeCorrect`, `DecidedOrWithdrawn`, `ForeignItemsArePublic`, `CreditFollowsPage`, `SomeoneGoesOn`; the action properties `FirstVerdictStands`, `CurrentRevisionPublished` and, for decisions that found a policy row, `SelfApprovalIsAllowed` |
| `AuthenticationProofs` | `AuthenticationAssumption`, `InitialStatesAssumption` | `IInv` | `TypeCorrect`, `GuessesStayBounded`, `OneSessionEach`, `ChangeComesFirst`; the action property `StepUpKnows` |

`ReviewHandoff`.  None of the safety properties is inductive alone.  `IInv` adds what
the code relies on silently: nothing is known of an id before its decision
(`FreshIdsAreBlank`); a runner exists only where a file was written
(`RunnersHaveFiles`); a runner that reports success has published
(`SuccessIsPublished`), which gives the page behind a completed action and a
published item; a whole-case decision has no durable target before Rupert ends
(`WholeHasNoTarget`), because the transaction that writes it is open while Rupert
runs, which is why Rupert can never publish one; what was handed to Rupert or Libby
was committed before (`HandedOverIsCommitted`), which gives the order of rows and
files.  `WholeReleaseIsExclusive` is inductive because whoever could change `live`
or `log` needs the lock, and only its holder or the end of its transaction gives
it up (`HolderKeepsLock`).  The refinement needs of the invariant only its types:
`RunnerPublishes` reads `live` and `target` in the transaction that publishes.

`WholeApprovals` is the general form of the finding `approval_not_durable`: a whole-case
approval of any case never publishes through Rupert.  The invariant it states,
`WholeApprovalNeverPublishes`, is needed elsewhere and not counted as something the code promises.

`PublishedStays` has the hypothesis `OneReviewer` and an invariant of its own, `SInv`: every child
decision a request has still to hand off is the latest of its item (`JobIsLatest`) and has not
reached Libby, and the latest decision of a published item is neither in a request nor with Libby
(`PublishedIsSettled`).  A verdict on a duplicate finds an item through its latest decision, so it
cannot find that one.  Dispositions and returns go by the child's key and are the exception the
property names: they were delivered to Libby and asked for it (`TakenBack`; `VladHasFollowUps`
for what comes back from Vlad).  With two requests `SInv` is false: the second one's batch takes
an open item that the first is publishing.  The theorem rests on `WholeApprovalNeverPublishes`:
an item becomes published only through a decision of its own.

`PublishedFeedback`.  Three facts carry the rest.  A worker that owns an item found its row
queued under the row's lock, and nothing queues a row again (`ClaimsExclude`,
`StartsAreClaimed`): Ed starts once.  Who writes a file has its anchor
(`WritersAreAccepted`): rows come first.  A request that has validated a symbol still
holds its lock, so what it saw of the open cases stands (`SymbolsExclude`).
`FinishedFilesAreKept` takes `OneLoop` as hypothesis, since with two processes it is false
(section 5).

The other three are proved the same way, since their requests are transactions.

* What a check has found is a predicate of the rows and the request (`Holds`;
  `Established` in `SymbolLifecycle`).
* A commit changes only rows it holds, in the ways the code has (`Frame` and `Moves` in
  `OrganizationAdministration`, `Moves` in the two others): one lemma for each outcome.
* The plan of a request has locked, before a check, the rows that what it finds rests on
  (`PlansSupported`), and two requests never hold locks that exclude each other
  (`LocksApart`).  So no commit undoes what another request's check has found.
* The rows stay `Consistent`.  This is the conjunction of what the properties say and what they
  need: that an organization which does not exist yet has no members, that a credited contribution
  has an active page, that the throttle never forgets a wrong PIN within the window.

`OrganizationAdministration`.  The invariant holds the passed checks of every request in progress, so
`AuthorityIsNotStale` is read off it.  Two are kept in a weaker form than they were
made, because no lock keeps the rest: a seat that is free remains free, though the plan may lapse (`Room`);
a key that may be claimed remains issued, though its holder's account may end.
`SeatsSuffice` counts: one membership written adds at most one member (`SeatsAfterwards`), and
whoever adds one holds the organization's row since the count.  It needs seat limits above
zero, the CHECK constraint on `seat_limit` in `models/schema.py`, for the founder's seat.
`AlwaysInCharge` follows from the triggers; `ServicesRefuseFirst` proves that the services do not
need them: another administrator, found under the organization's lock, is still there
(`AnotherAdminStays`, `RoleInCharge`).

`SymbolLifecycle`.  `SomeoneGoesOn` rests on the order of the locks: a request that waits for more
than its first row waits for one of the rows that every plan locks last (`LastRows`), and whoever
holds such a row has all its rows (`Progress`).  It commits, unless it has to wait for the holder of
the symbol's row, who has all of its own and commits (`ReadyGoesOn`).
`SelfApprovalIsAllowed` follows from the policy a decision remembers (`PolicyGuarded`): if it found
a row, it holds the row in share mode and the policy is still the one it read.

`Authentication`.  `GuessesCounted` ties the ghost count of wrong PINs to the rows of the
throttle, from which the bound follows: the bucket is locked from the check to the commit.  A
challenge and its session are written in one commit under the challenge's lock
(`OneSessionEach`); a reset locks the account and sweeps, and whoever opens a session after that holds
the account's row and sees the flag (`ChangeComesFirst`).

Proving changed the models in four places.  `Authentication`, `SymbolLifecycle` and
`OrganizationAdministration` now say which rows they start from.  `RoomFor` in
`SymbolLifecycle` lets `create_draft` make the one symbol of an instance once, also when two
are on their way: in the code each makes a symbol of its own.  `SeatLimits` excludes zero, as the schema does.
`Operations` contains operations only.

Only model-checked: `RequestsFinish`, `RequestsAnswered` and `RequestsEnd`, since liveness is
outside the prover.

## 5. Where the code and its documentation differ

Three have a run whose counterexample is the story; `PROJECT.json` quotes the lines.

1. `stamped_after_replacement`: a child's handoff stamps the case published after the approval was
   replaced.
2. `approval_not_durable`: a whole-case approval is handed to Rupert while the request holds the
   case's lock and has not committed the approval.  The orchestration document has it published by
   Rupert; his session waits for the lock or finds no approval, and the request ends by the
   timeout or his error.
3. `withdrawn_republished`: a symbol that was demoted is promoted again with no new review.
   The old approved decision is still there, the withdrawn revision still current, and no step
   looks at the revision's state.

Seen while modelling and not given a run, by module.

`ReviewHandoff`.  A published child's item is not moved in the transaction that publishes it
(`RunnerPublishes`, `FinishHandoff`).  A child that was rejected, deleted or sent back for a change
stays open until Libby has carried it out.  When it is approved and published meanwhile,
`dispose_review_split_item` and `return_review_split_item_for_review` (`runtime.py:1955-2057`) still
find it by its key, look neither at its status nor at its latest decision, and take it back while
its page stays; `workspace.py:207` calls published a "no-further-automation terminal state".  A
child's approval is handed off although another request has moved the case on since, because
the stage it is checked against is the one its session remembers (`seen`).  Decision times
have a resolution of one second, so of two decisions of one second either may be taken for the newest: an
approval may be refused for that, and its action stays pending.
Publishing the first child closes the split case; confirming the last open child as a duplicate does
not, and the stage `split_children_processed` is never reached.  An approved child of a fresh split
case is refused by the handoff, whose case is not at `ready_for_publication_handoff`
(`RefuseHandoff`), while `symgov-review-decision-orchestration.md:120` sends it to Rupert.
A batch of several approvals can publish at most one (after the first, the stage is `published`).
Items never become `queued_rupert` or `queued_libby` (`split_item_status_after_handoff` keeps an
open status).  Two look-alike children that pass the gate before either is published both get a
page.  A graphic that cannot be read back passes the gate (`StorageMayFail`).

`PublishedFeedback`.  Two replays of one browser request at the same time in one process stop that
process: the first keeps the key's lock until the loop closes its session, the second blocks the loop
in the wait for the lock.  With two API processes, the file of finished work can be replaced by a
queued one: the files of a request are written after its locks are gone, without a look at what is
there.  A worker that dies between the claimed file and its commit leaves the file running and the row
queued.

`OrganizationAdministration`.  A login whose insert waits for the organization's row while it is being
suspended is committed after the suspension has swept its sessions (`organization_service.py:1317`).
Deactivating an account leaves its organization keys live (`routes/admin.py:288`), deleting it does
not.  A membership that was brought back cannot be ended a second time: the trigger on history
keeps its first `deactivated_at` (`HistoryKept`).  Requests do not keep the canonical lock order of
migration `20260810_0028`: `update_user` locks accounts before the gate, `renew_organization_subscription`
the plan before the organization.  A suspended organization whose only administrator's account
ended cannot be reactivated.

`SymbolLifecycle`.  An edit that was loaded before a submission or an approval may commit after it, and of
two edits at the same time the later one loses the other's (`PayloadPut`).  A revision may be submitted
twice in a row, after a withdrawal or an edit that was late.  A new revision started while the
symbol is being submitted for promotion leaves an open request that can only be withdrawn.  An organization
that has never set a review policy has no row for `get_review_policy` to lock: its first policy can
ask for an independent reviewer between the check of a self-approval and its commit
(`organization_review_policy.py:46` has the two ordered by the lock).  Deciding what was withdrawn ends in the trigger's error, not in the conflict the
service has a message for.  `symbol_withdraw` leaves the visibility, the submissions and the open
promotion requests as they are.

`Authentication`.  A switch that is being served while its session signs out commits its challenge after
the sweep, and the challenge can be used; so can one that survives a reset and the change after it.
Two switches at a time leave two open challenges.  Changing the PIN keeps the step-up of the account's
other sessions.  The current PIN of `change_pin` is checked outside the throttle.  `logout`
and `change_pin` lock sessions and challenges in opposite orders.

## 6. Files

`*.cfg` files are named after their runs.  `tlc -config X.cfg M` checks one, where `M` is

* `MCReviewHandoff` for `split_two_reviewers`, `split_one_reviewer`, `intake_finishes`,
  `stamped_after_replacement`, `approval_not_durable`;
* `MCPublishedFeedback` for `feedback_one_process`, `feedback_two_processes`;
* `MCOrganizationAdministration` for `org_authority`, `org_keys_and_seats`;
* `MCSymbolLifecycle` for `symbol_lifecycle`, `withdrawn_republished`;
* `MCAuthentication` for `authentication`.

`tlapm M.tla` checks the proofs of a module `M` whose name ends in `Proofs`; each takes a few
minutes from nothing.  The definitions whose comment says
"Mutant" or "faulty" are variants of a definition with a plausible mistake in it; `PROJECT.json` says which property
each of them breaks.

## 7. Plan

1. An abstract specification that the three transaction modules share (a request's checks hold at
   its commit), with the refinement proved from `Holds` and `LocksApart`.
2. `SplitFollowUp`: Daisy's re-review and the retirement of a case around the same split items,
   without the case's lock.
3. `AgentQueue`: what the other agents' queue adds, the unclaimed run, the limit of a pass
   and its head of line, follow-up rows; abstract specification: an item is finished once.
4. `PublicationGate`: the gate as a function, against a reference definition.

Not modelled, and not planned.  Most of the repository changes one row at a time, reads, or
talks to services outside it: read models and search, ingestion scripts, the LLM router and its ledger,
roll-ups of usage events, response schemas, the database schema beyond the constraints named above,
the frontend.  The agents' own work (validation, provenance, classification, drawings) is computation on one
item, without an interleaving to check.
