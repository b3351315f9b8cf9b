------------------------- MODULE PublishedFeedback -------------------------
(***************************************************************************)
(* A review request about published symbols, from the client that sends    *)
(* it (perhaps several times) to Ed who works on it: the browser and the   *)
(* Catalog route (routes/published.py, routes/catalog.py), the service     *)
(* they share (services/published_feedback.py), the maintenance gate       *)
(* (published_feedback_gate.py), the claim of the agent queue worker       *)
(* (agent_queue_worker.py) and the reconciliation command                  *)
(* (agent_queue_reconciliation.py).  Ed's runner is not in the repository. *)
(*                                                                         *)
(* The routes are coroutines that wait for the database without awaiting:  *)
(* from its first lock to its return a handler has the event loop of its   *)
(* process to itself, also while it waits.  Everybody else meets it only   *)
(* in the rows, the files and the advisory locks.                          *)
(*                                                                         *)
(* Operators marked "faulty" are used by no action: each takes the place   *)
(* of the operator below it when the properties are tested.                *)
(***************************************************************************)
EXTENDS Integers, FiniteSets

CONSTANTS
    Requests,      \* HTTP requests; a client's retry is a request of its own
    Keys,          \* request anchors: a principal with an idempotency key
    BrowserKeys,   \* the anchors of users; the others are of Catalog API keys
    Symbols,       \* governed symbols, by the order of their ids
    Loops,         \* API processes, each with one event loop
    Calls,         \* what the requests may be, one function for all of them
    Workers,       \* threads and commands that work on Ed's queue
    MaxFaults,     \* bound: crashes and I/O errors
    MaxSwitches,   \* bound: how often the gate is closed or opened
    NoItem

(* What a request asks for: a send_for_review of some symbols under an     *)
(* idempotency key, received by one API process.  The symbols stand for    *)
(* everything the request's fingerprint covers.                            *)
Call == [key : Keys, symbols : (SUBSET Symbols) \ {{}}, loop : Loops]

ASSUME FeedbackAssumption ==
    /\ Symbols \subseteq Int
    /\ BrowserKeys \subseteq Keys
    /\ Calls \subseteq [Requests -> Call]
    /\ \A c \in Calls : \A r \in Requests :
          c[r].key \notin BrowserKeys => \E s \in Symbols : c[r].symbols = {s}
    /\ {MaxFaults, MaxSwitches} \subseteq Nat
    /\ NoItem \notin Keys \X Symbols

\* Ed's work on one symbol of one request; its id is derived from the two.
Items == Keys \X Symbols

\* "done" is completed or failed, the statuses a replay calls historical.
Status == {"absent", "queued", "running", "done"}

VARIABLES
    call,      \* what each request asks for
    pc,        \* how far each request is
    todo,      \* the symbols a request has still to treat in this phase
    reused,    \* the symbols for which a request has validated an open case
    anchor,    \* the symbols accepted under each key, {} if the key is new
    cases,     \* how many open review cases each published symbol has
    row,       \* agent_queue_items.status
    file,      \* status in the runtime queue file
    paused,    \* the maintenance marker exists
    switches,  \* how often the marker was created or removed
    wpc,       \* how far each worker is
    witem,     \* the item it works on
    wlist,     \* the files it has listed and not yet treated
    runs,      \* how often Ed has been started on each item
    snapshot,  \* items whose file a reconciliation has read as finished
    faults     \* crashes and I/O errors so far

requestVars == <<call, pc, todo, reused>>
workerVars  == <<wpc, witem, wlist, runs>>
gateVars    == <<paused, switches>>
vars == <<call, pc, todo, reused, anchor, cases, row, file, paused, switches,
          wpc, witem, wlist, runs, snapshot, faults>>

Init ==
    /\ call \in Calls
    /\ pc = [r \in Requests |-> "sent"]
    /\ todo = [r \in Requests |-> {}]
    /\ reused = [r \in Requests |-> {}]
    /\ anchor = [k \in Keys |-> {}]
    /\ cases = [s \in Symbols |-> 0]
    /\ row = [i \in Items |-> "absent"]
    /\ file = [i \in Items |-> "absent"]
    /\ paused = FALSE
    /\ switches = 0
    /\ wpc = [w \in Workers |-> "idle"]
    /\ witem = [w \in Workers |-> NoItem]
    /\ wlist = [w \in Workers |-> {}]
    /\ runs = [i \in Items |-> 0]
    /\ snapshot = {}
    /\ faults = 0

Fault == faults < MaxFaults /\ faults' = faults + 1

-----------------------------------------------------------------------------
(* Who holds what.                                                         *)

\* The stretch of a handler without an await: it has its loop to itself.
OnLoop == {"locking", "submitting", "validated", "committed",
           "replaying", "repairing"}

LoopFree(l) == \A r \in Requests : call[r].loop = l => pc[r] \notin OnLoop

HasNoTransaction == {"sent", "parsing", "locking", "committed", "over"}

HoldsKey(r, k) == call[r].key = k /\ pc[r] \notin HasNoTransaction

HoldsSymbol(r, s) ==
    /\ pc[r] \in {"submitting", "validated"}
    /\ s \in call[r].symbols \ todo[r]

KeyFree(k) == \A r \in Requests : ~HoldsKey(r, k)

SymbolUnguarded(s) == TRUE               \* faulty: no lock on the symbol

SymbolFree(s) == \A r \in Requests : ~HoldsSymbol(r, s)

\* The worker that has the item's row under FOR UPDATE.
RowFree(i) == \A w \in Workers : witem[w] = i => wpc[w] \notin {"gated", "written"}

AnyOf(S, s) == s \in S                   \* faulty: locks taken in any order

InOrder(S, s) == s \in S /\ \A t \in S : s <= t

ItemsOf(r) == {call[r].key} \X call[r].symbols

-----------------------------------------------------------------------------
(* The routes.                                                             *)

Goes(r, step) == pc' = [pc EXCEPT ![r] = step]

\* The handler starts: the gate first, then the body is awaited.
Receive(r) ==
    /\ pc[r] = "sent"
    /\ LoopFree(call[r].loop)
    /\ Goes(r, IF paused THEN "over" ELSE "parsing")
    /\ UNCHANGED <<call, todo, reused, anchor, cases, row, file, gateVars,
                   workerVars, snapshot, faults>>

Enter(r) ==
    /\ pc[r] = "parsing"
    /\ LoopFree(call[r].loop)
    /\ Goes(r, "locking")
    /\ UNCHANGED <<call, todo, reused, anchor, cases, row, file, gateVars,
                   workerVars, snapshot, faults>>

(* pg_advisory_xact_lock on the anchor, and the anchor read: a new request, *)
(* a replay, or another request under the same key (409).                   *)
LockKey(r) ==
    LET k == call[r].key IN
    /\ pc[r] = "locking"
    /\ KeyFree(k)
    /\ \/ /\ anchor[k] = {}
          /\ Goes(r, "submitting")
          /\ todo' = [todo EXCEPT ![r] = call[r].symbols]
       \/ /\ anchor[k] = call[r].symbols
          /\ Goes(r, "replaying")
          /\ todo' = [todo EXCEPT ![r] = call[r].symbols]
       \/ /\ anchor[k] \notin {{}, call[r].symbols}
          /\ Goes(r, "over")
          /\ UNCHANGED todo
    /\ UNCHANGED <<call, reused, anchor, cases, row, file, gateVars, workerVars,
                   snapshot, faults>>

LockSymbol(r) ==
    /\ pc[r] = "submitting"
    /\ \E s \in Symbols :
          /\ InOrder(todo[r], s)
          /\ SymbolFree(s)
          /\ todo' = [todo EXCEPT ![r] = @ \ {s}]
    /\ UNCHANGED <<call, pc, reused, anchor, cases, row, file, gateVars,
                   workerVars, snapshot, faults>>

\* validate_published_feedback_review_case, for every symbol.
Validate(r) ==
    /\ pc[r] = "submitting"
    /\ todo[r] = {}
    /\ \A s \in call[r].symbols : cases[s] <= 1
    /\ reused' = [reused EXCEPT ![r] = {s \in call[r].symbols : cases[s] = 1}]
    /\ Goes(r, "validated")
    /\ UNCHANGED <<call, todo, anchor, cases, row, file, gateVars, workerVars,
                   snapshot, faults>>

\* faulty: only the first of the symbols is queued
EnqueueFirst(r) ==
    row' = [i \in Items |-> IF i[1] = call[r].key /\ InOrder(call[r].symbols, i[2])
                           THEN "queued" ELSE row[i]]

Enqueue(r) == row' = [i \in Items |-> IF i \in ItemsOf(r) THEN "queued" ELSE row[i]]

(* The one transaction: a case for each symbol that had none, the action,  *)
(* the queue row, the audit events, the anchor.                            *)
Commit(r) ==
    /\ pc[r] = "validated"
    /\ cases' = [s \in Symbols |->
                   IF s \in call[r].symbols \ reused[r] THEN cases[s] + 1
                                                        ELSE cases[s]]
    /\ Enqueue(r)
    /\ anchor' = [anchor EXCEPT ![call[r].key] = call[r].symbols]
    /\ reused' = [reused EXCEPT ![r] = {}]
    /\ todo' = [todo EXCEPT ![r] = call[r].symbols]
    /\ Goes(r, "committed")
    /\ UNCHANGED <<call, file, gateVars, workerVars, snapshot, faults>>

\* A conflict (404, 409) or an exception: rollback, and the answer.
Refuse(r) ==
    /\ pc[r] \in {"submitting", "validated"}
    /\ Goes(r, "over")
    /\ todo' = [todo EXCEPT ![r] = {}]
    /\ reused' = [reused EXCEPT ![r] = {}]
    /\ UNCHANGED <<call, anchor, cases, row, file, gateVars, workerVars, snapshot,
                   faults>>

(* After the commit: one queue file per item, written beside and renamed   *)
(* over whatever is there.  An OSError is answered with "pending".         *)
Materialize(r) ==
    /\ pc[r] = "committed"
    /\ \E s \in Symbols :
          /\ InOrder(todo[r], s)
          /\ todo' = [todo EXCEPT ![r] = @ \ {s}]
          /\ Goes(r, IF todo[r] = {s} THEN "over" ELSE "committed")
          /\ \/ /\ file' = [file EXCEPT ![<<call[r].key, s>>] = "queued"]
                /\ UNCHANGED faults
             \/ /\ Fault
                /\ UNCHANGED file
    /\ UNCHANGED <<call, reused, anchor, cases, row, gateVars, workerVars,
                   snapshot>>

(* The end of a replay.  The Catalog route commits; the browser route only *)
(* returns, and its transaction ends with the session, which the framework *)
(* closes once the loop lets it.                                           *)
Replayed(r) == IF call[r].key \in BrowserKeys THEN "closing" ELSE "over"

\* faulty: what is not finished needs a file
Unfinished(i) == row[i] \in {"queued", "running"}

Missing(i) == row[i] = "queued" /\ file[i] = "absent"

\* replay_workflow_delivery_state for one item: only a queued row without a
\* file asks for anything.
Replay(r) ==
    /\ pc[r] = "replaying"
    /\ \E s \in Symbols :
          /\ InOrder(todo[r], s)
          /\ \/ /\ Missing(<<call[r].key, s>>)
                /\ Goes(r, "repairing")
                /\ UNCHANGED todo
             \/ /\ ~Missing(<<call[r].key, s>>)
                /\ todo' = [todo EXCEPT ![r] = @ \ {s}]
                /\ Goes(r, IF todo[r] = {s} THEN Replayed(r) ELSE "replaying")
    /\ UNCHANGED <<call, reused, anchor, cases, row, file, gateVars, workerVars,
                   snapshot, faults>>

\* materialize(runtime_envelope_for_queue_item(...)); an OSError is ignored.
Repair(r) ==
    /\ pc[r] = "repairing"
    /\ \E s \in Symbols :
          /\ InOrder(todo[r], s)
          /\ todo' = [todo EXCEPT ![r] = @ \ {s}]
          /\ Goes(r, IF todo[r] = {s} THEN Replayed(r) ELSE "replaying")
          /\ \/ /\ file' = [file EXCEPT ![<<call[r].key, s>>] = "queued"]
                /\ UNCHANGED faults
             \/ /\ Fault
                /\ UNCHANGED file
    /\ UNCHANGED <<call, reused, anchor, cases, row, gateVars, workerVars,
                   snapshot>>

\* get_db_session closes the session of a replay, which ends its transaction.
CloseSession(r) ==
    /\ pc[r] = "closing"
    /\ LoopFree(call[r].loop)
    /\ Goes(r, "over")
    /\ UNCHANGED <<call, todo, reused, anchor, cases, row, file, gateVars,
                   workerVars, snapshot, faults>>

\* The API process dies: the database rolls back what was open.
ProcessDies(l) ==
    LET dead == {r \in Requests : call[r].loop = l /\ pc[r] \notin {"sent", "over"}}
    IN
    /\ dead # {}
    /\ Fault
    /\ pc' = [r \in Requests |-> IF r \in dead THEN "over" ELSE pc[r]]
    /\ todo' = [r \in Requests |-> IF r \in dead THEN {} ELSE todo[r]]
    /\ reused' = [r \in Requests |-> IF r \in dead THEN {} ELSE reused[r]]
    /\ UNCHANGED <<call, anchor, cases, row, file, gateVars, workerVars, snapshot>>

-----------------------------------------------------------------------------
(* The agent queue worker, for Ed's queue.                                 *)

\* faulty: the worker keeps the item
KeepItem(w) ==
    /\ wpc' = [wpc EXCEPT ![w] = IF wlist[w] = {} THEN "idle" ELSE "listed"]
    /\ UNCHANGED witem

\* Where a worker goes with a file it is done with or has skipped.
NextFile(w) ==
    /\ wpc' = [wpc EXCEPT ![w] = IF wlist[w] = {} THEN "idle" ELSE "listed"]
    /\ witem' = [witem EXCEPT ![w] = NoItem]

\* queued_item_paths.
ListFiles(w) ==
    LET queued == {i \in Items : file[i] = "queued"} IN
    /\ wpc[w] = "idle"
    /\ queued # {}
    /\ wpc' = [wpc EXCEPT ![w] = "listed"]
    /\ wlist' = [wlist EXCEPT ![w] = queued]
    /\ UNCHANGED <<requestVars, anchor, cases, row, file, gateVars, witem, runs,
                   snapshot, faults>>

\* The file is read again: it may no longer be queued.
ReadFile(w) ==
    /\ wpc[w] = "listed"
    /\ \E i \in wlist[w] :
          /\ wlist' = [wlist EXCEPT ![w] = @ \ {i}]
          /\ \/ /\ file[i] = "queued"
                /\ wpc' = [wpc EXCEPT ![w] = "claiming"]
                /\ witem' = [witem EXCEPT ![w] = i]
             \/ /\ file[i] # "queued"
                /\ wpc' = [wpc EXCEPT ![w] = IF wlist[w] = {i} THEN "idle"
                                                               ELSE "listed"]
                /\ UNCHANGED witem
    /\ UNCHANGED <<requestVars, anchor, cases, row, file, gateVars, runs, snapshot,
                   faults>>

FileSaysQueued(i) == ~paused             \* faulty: trusts the file it has read

Claimable(i) == row[i] = "queued" /\ ~paused

\* The row FOR UPDATE, its status, and the gate last of all.
LockRow(w) ==
    /\ wpc[w] = "claiming"
    /\ RowFree(witem[w])
    /\ \/ /\ Claimable(witem[w])
          /\ wpc' = [wpc EXCEPT ![w] = "gated"]
          /\ UNCHANGED witem
       \/ /\ ~Claimable(witem[w])
          /\ NextFile(w)
    /\ UNCHANGED <<requestVars, anchor, cases, row, file, gateVars, wlist, runs,
                   snapshot, faults>>

ClaimFile(i) == file' = [file EXCEPT ![i] = "running"]

WriteClaim(w) ==
    /\ wpc[w] = "gated"
    /\ \/ /\ ClaimFile(witem[w])
          /\ wpc' = [wpc EXCEPT ![w] = "written"]
          /\ UNCHANGED <<witem, faults>>
       \/ /\ Fault
          /\ NextFile(w)
          /\ UNCHANGED file
    /\ UNCHANGED <<requestVars, anchor, cases, row, gateVars, wlist, runs, snapshot>>

\* The end of the claim's transaction.
CommitClaim(w) ==
    /\ wpc[w] = "written"
    /\ row' = [row EXCEPT ![witem[w]] = "running"]
    /\ wpc' = [wpc EXCEPT ![w] = "owned"]
    /\ UNCHANGED <<requestVars, anchor, cases, file, gateVars, witem, wlist, runs,
                   snapshot, faults>>

\* COMMIT fails, or the connection is lost before its answer.
CommitFails(w) ==
    /\ wpc[w] = "written"
    /\ Fault
    /\ row' \in {row, [row EXCEPT ![witem[w]] = "running"]}
    /\ wpc' = [wpc EXCEPT ![w] = "restoring"]
    /\ UNCHANGED <<requestVars, anchor, cases, file, gateVars, witem, wlist, runs,
                   snapshot>>

\* _restore_queue_item_bytes_atomically.
Restore(w) ==
    /\ wpc[w] = "restoring"
    /\ file' = [file EXCEPT ![witem[w]] = "queued"]
    /\ NextFile(w)
    /\ UNCHANGED <<requestVars, anchor, cases, row, gateVars, wlist, runs, snapshot,
                   faults>>

(* Ed's runner: it leaves the file and the row finished, in an order the   *)
(* repository does not show, or raises at any point.                       *)
StartEd(w) ==
    /\ wpc[w] = "owned"
    /\ runs' = [runs EXCEPT ![witem[w]] = @ + 1]
    /\ wpc' = [wpc EXCEPT ![w] = "working"]
    /\ UNCHANGED <<requestVars, anchor, cases, row, file, gateVars, witem, wlist,
                   snapshot, faults>>

EdSavesFile(w) ==
    /\ wpc[w] \in {"working", "recorded"}
    /\ file' = [file EXCEPT ![witem[w]] = "done"]
    /\ IF wpc[w] = "working"
       THEN wpc' = [wpc EXCEPT ![w] = "filed"] /\ UNCHANGED witem
       ELSE NextFile(w)
    /\ UNCHANGED <<requestVars, anchor, cases, row, gateVars, wlist, runs, snapshot,
                   faults>>

EdSavesRow(w) ==
    /\ wpc[w] \in {"working", "filed"}
    /\ row' = [row EXCEPT ![witem[w]] = "done"]
    /\ IF wpc[w] = "working"
       THEN wpc' = [wpc EXCEPT ![w] = "recorded"] /\ UNCHANGED witem
       ELSE NextFile(w)
    /\ UNCHANGED <<requestVars, anchor, cases, file, gateVars, wlist, runs, snapshot,
                   faults>>

EdRaises(w) ==
    /\ wpc[w] \in {"working", "filed", "recorded"}
    /\ Fault
    /\ NextFile(w)
    /\ UNCHANGED <<requestVars, anchor, cases, row, file, gateVars, wlist, runs,
                   snapshot>>

WorkerDies(w) ==
    /\ wpc[w] # "idle"
    /\ Fault
    /\ wpc' = [wpc EXCEPT ![w] = "idle"]
    /\ witem' = [witem EXCEPT ![w] = NoItem]
    /\ wlist' = [wlist EXCEPT ![w] = {}]
    /\ UNCHANGED <<requestVars, anchor, cases, row, file, gateVars, runs, snapshot>>

-----------------------------------------------------------------------------
(* The operator and the reviewers.                                         *)

\* The maintenance marker is created or removed.
SwitchGate ==
    /\ switches < MaxSwitches
    /\ switches' = switches + 1
    /\ paused' = ~paused
    /\ UNCHANGED <<requestVars, anchor, cases, row, file, workerVars, snapshot,
                   faults>>

\* reconcile_agent_queue_state --apply: all files first ...
ReconcileReadsFiles ==
    /\ snapshot = {}
    /\ snapshot' = {i \in Items : file[i] = "done"}
    /\ snapshot' # {}
    /\ UNCHANGED <<requestVars, anchor, cases, row, file, gateVars, workerVars,
                   faults>>

\* ... then the rows, of which the active ones are repaired.
ReconcileRows ==
    /\ snapshot # {}
    /\ row' = [i \in Items |->
                 IF i \in snapshot /\ row[i] \in {"queued", "running"}
                 THEN "done" ELSE row[i]]
    /\ snapshot' = {}
    /\ UNCHANGED <<requestVars, anchor, cases, file, gateVars, workerVars, faults>>

\* A decision in the workspace closes the case.
CloseCase(s) ==
    /\ cases[s] > 0
    /\ cases' = [cases EXCEPT ![s] = @ - 1]
    /\ UNCHANGED <<requestVars, anchor, row, file, gateVars, workerVars, snapshot,
                   faults>>

-----------------------------------------------------------------------------
\* What a request does unless it is refused.
Proceeds(r) ==
    \/ Receive(r) \/ Enter(r) \/ LockKey(r) \/ LockSymbol(r) \/ Validate(r)
    \/ Commit(r) \/ Materialize(r) \/ Replay(r) \/ Repair(r) \/ CloseSession(r)

WorkerNext(w) ==
    \/ ListFiles(w) \/ ReadFile(w) \/ LockRow(w) \/ WriteClaim(w)
    \/ CommitClaim(w) \/ CommitFails(w) \/ Restore(w) \/ StartEd(w)
    \/ EdSavesFile(w) \/ EdSavesRow(w) \/ EdRaises(w) \/ WorkerDies(w)

Next ==
    \/ \E r \in Requests : Proceeds(r) \/ Refuse(r)
    \/ \E l \in Loops : ProcessDies(l)
    \/ \E w \in Workers : WorkerNext(w)
    \/ \E s \in Symbols : CloseCase(s)
    \/ SwitchGate \/ ReconcileReadsFiles \/ ReconcileRows

Spec == Init /\ [][Next]_vars

(* An event loop runs what is ready in turn and PostgreSQL grants a lock in *)
(* the order of the requests for it, so who keeps asking for a loop or a    *)
(* lock gets it (SF).  Nothing is assumed of workers, operators, reviewers. *)
Fairness == \A r \in Requests : SF_vars(Proceeds(r))

FairSpec == Spec /\ Fairness

-----------------------------------------------------------------------------
(* Properties.                                                             *)

\* Every variable has its type, and a worker an item while it treats one.
TypeOK ==
    /\ call \in [Requests -> Call]
    /\ pc \in [Requests -> {"sent", "parsing", "locking", "submitting",
                           "validated", "committed", "replaying", "repairing",
                           "closing", "over"}]
    /\ todo \in [Requests -> SUBSET Symbols]
    /\ reused \in [Requests -> SUBSET Symbols]
    /\ anchor \in [Keys -> SUBSET Symbols]
    /\ cases \in [Symbols -> Nat]
    /\ row \in [Items -> Status]
    /\ file \in [Items -> Status]
    /\ paused \in BOOLEAN
    /\ switches \in 0..MaxSwitches
    /\ wpc \in [Workers -> {"idle", "listed", "claiming", "gated", "written",
                           "owned", "restoring", "working", "filed",
                           "recorded"}]
    /\ witem \in [Workers -> Items \union {NoItem}]
    /\ \A w \in Workers : witem[w] = NoItem <=> wpc[w] \in {"idle", "listed"}
    /\ wlist \in [Workers -> SUBSET Items]
    /\ runs \in [Items -> Nat]
    /\ snapshot \subseteq Items
    /\ faults \in 0..MaxFaults

(* Nothing Ed could read exists before the transaction that accepts the    *)
(* request, whoever crashes: routes/published.py commits, then materializes. *)
RowsPrecedeFiles == \A i \in Items : file[i] # "absent" => row[i] # "absent"

(* Ed is started at most once on an item, whatever number of workers list  *)
(* its file, claims fail at their commit and are restored, requests are    *)
(* replayed and files repaired (claim_published_feedback_queue_item).      *)
ClaimedOnce == \A i \in Items : runs[i] <= 1

(* A symbol never has two open review cases of this origin, although each  *)
(* request looks for one and creates it in two steps: the symbol's lock.   *)
OneOpenCase == \A s \in Symbols : cases[s] <= 1

Rank == [absent |-> 0, queued |-> 1, running |-> 2, done |-> 3]

(* A queue row only advances: no replay, second acceptance under the same  *)
(* key, failed claim or reconciliation takes work back or does it again.   *)
RowsMoveForward == [][\A i \in Items : Rank[row[i]] <= Rank[row'[i]]]_vars

(* The file of finished work is never queued again, "never rewrites a      *)
(* materialized/terminal item", except by a worker whose commit failed and *)
(* who restores the file it had claimed after another has finished the     *)
(* work.  Needs a single loop.                                             *)
FinishedFilesStay ==
    [][\A i \in Items :
          file[i] = "done" =>
             \/ file'[i] = "done"
             \/ \E w \in Workers : wpc[w] = "restoring" /\ witem[w] = i]_vars

(* A request whose body has been read is answered, though it may wait for  *)
(* a loop and for several locks that others hold.                          *)
RequestsAnswered == \A r \in Requests : pc[r] = "parsing" ~> pc[r] = "over"

=============================================================================
