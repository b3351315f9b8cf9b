--------------------------- MODULE ReviewHandoff ---------------------------
(***************************************************************************)
(* One review case of SymGov between a reviewer's decision and the public  *)
(* catalogue: the decision endpoints (routes/workspace.py), the            *)
(* publication handoff (publication_handoff.py), the follow-up handoff     *)
(* (review_followup_handoff.py), Rupert's runner and its database session  *)
(* (run_rupert_publication.py, runtime.py), the agent queue worker that    *)
(* may run the same Rupert file, and what Libby and Vlad do to the split   *)
(* items afterwards (run_libby_classification.py, run_vlad_validation.py). *)
(*                                                                         *)
(* Every variable but pc, job, seen and the runners' states is durable: a   *)
(* row, or a file.  An action is one transaction, or the stretch between two    *)
(* points at which another process may look.  What an open transaction has *)
(* not committed is not in the state: it is written by the action that     *)
(* commits it.                                                             *)
(*                                                                         *)
(* A few guards are operators preceded by a one-line variant marked        *)
(* "faulty": no action uses it, it takes the guard's place when the        *)
(* properties are tested.                                                  *)
(***************************************************************************)
EXTENDS Integers, Sequences, FiniteSets

CONSTANTS
    Reviewers,       \* request handlers that may decide this case at once
    Subjects,        \* what the case may publish: its symbol, or its children
    Items,           \* the split items: {} for an intake case, else Subjects
    Codes,           \* the decision codes reviewers use, of DOMAIN ToStage
    Looks,           \* the graphic of each subject, as the gate compares them
    Runners,         \* who runs Rupert's files: "child", perhaps "worker"
    StorageMayFail,  \* whether reading a graphic back may fail
    MaxDecisions,    \* bound: decisions recorded on the case
    NoReviewer, NoItem

\* DECISION_TRANSITIONS: the stage each decision code moves the case to.
ToStage ==
    [approve                |-> "ready_for_publication_handoff",
     reject                 |-> "libby_disposition_review",
     request_changes        |-> "changes_requested",
     more_evidence          |-> "waiting_for_evidence",
     rename_classify        |-> "classification_change_requested",
     duplicate              |-> "libby_duplicate_review",
     deleted                |-> "libby_deletion_review",
     defer                  |-> "deferred",
     child_actions_submitted|-> "review_actions_recorded"]

ASSUME HandoffAssumption ==
    /\ MaxDecisions \in Nat \ {0}
    /\ Items \in {{}, Subjects}
    /\ Codes \subseteq DOMAIN ToStage
    /\ Looks = [s \in Subjects |-> Looks[s]]
    /\ Runners \in {{"child"}, {"child", "worker"}}
    /\ StorageMayFail \in BOOLEAN
    /\ NoReviewer \notin Reviewers
    /\ NoItem \notin Items

Ids == 1..MaxDecisions

MisspeltStage == "split_review"       \* faulty: a stage nothing knows

FirstStage == IF Items = {} THEN "classification_review"
                            ELSE "raster_split_review"

Stages == {ToStage[c] : c \in DOMAIN ToStage} \union
          {"classification_review", "raster_split_review", "published",
           "duplicate_resolution", "split_children_processed"}

OpenStatuses == {"awaiting_decision", "returned_for_review",
                 "duplicate_exception"}
TerminalStatuses == {"published", "duplicate_resolved", "deleted",
                     "rejected", "blocked", "deferred"}
ItemStatuses == OpenStatuses \union TerminalStatuses \union
                {"queued_rupert", "queued_libby", "duplicate_pending"}

(* A HumanReviewDecision.  item is the split child it is about, NoItem for *)
(* a whole-case decision; subjects is what it publishes if it approves,    *)
(* else the children its follow-up names; at is created_at, which has a    *)
(* resolution of one second.                                               *)
Decision ==
    [code     : Codes,
     item     : Items \union {NoItem},
     subjects : SUBSET Subjects,
     override : BOOLEAN,
     at       : Nat]

VARIABLES
    stage,       \* review_cases.current_stage
    closed,      \* review_cases.closed_at is set
    log,         \* human_review_decisions, in the order recorded
    live,        \* the decisions whose superseded_at is null
    action,      \* the status of each decision's review_case_action
    target,      \* the decisions with a durable publication approval target
    item,        \* review_split_items.status
    latest,      \* review_split_items.latest_decision_id, 0 for none
    libbyRow,    \* decisions with a Libby agent_queue_items row
    libbyFile,   \* decisions with a Libby queue file, which Libby reads
    libbyDone,   \* <<decision, child>>: what Libby has written to a split item
    vladFile,    \* decisions whose graphic change Libby has handed to Vlad
    vladBack,    \* those whose result Vlad has handed back to Libby
    file,        \* Rupert's queue file of each decision
    run,         \* how far each runner of that file has come
    published,   \* the decisions whose revisions have a published page
    lock,        \* holder of the case's advisory transaction lock
    pc,          \* where each request handler is
    job,         \* the decisions a request has still to hand off
    seen         \* the case's row as each request's session remembers it

caseVars     == <<stage, closed>>
decisionVars == <<log, live, action, target>>
itemVars     == <<item, latest>>
libbyVars    == <<libbyRow, libbyFile, libbyDone, vladFile, vladBack>>
rupertVars   == <<file, run, published>>
handlerVars  == <<lock, pc, job, seen>>
vars == <<stage, closed, log, live, action, target, item, latest, libbyRow,
          libbyFile, libbyDone, vladFile, vladBack, file, run, published,
          lock, pc, job, seen>>

(* A request's session keeps the rows it has read across its own commits   *)
(* (db.py sets expire_on_commit=False) and forgets them at a rollback.     *)
CaseRow   == [stage |-> stage, closed |-> closed]
Forgotten == [stage |-> "unknown", closed |-> FALSE]
Seen(r)   == IF seen[r] = Forgotten THEN CaseRow ELSE seen[r]

TypeOK ==
    /\ stage \in Stages
    /\ closed \in BOOLEAN
    /\ log \in Seq(Decision)
    /\ Len(log) \in 0..MaxDecisions
    /\ live \subseteq 1..Len(log)
    /\ action \in [Ids -> {"none", "pending", "running", "completed", "failed"}]
    /\ target \subseteq 1..Len(log)
    /\ item \in [Items -> ItemStatuses]
    /\ latest \in [Items -> 0..MaxDecisions]
    /\ libbyRow \subseteq 1..Len(log)
    /\ libbyFile \subseteq 1..Len(log)
    /\ libbyDone \subseteq (1..Len(log)) \X Items
    /\ vladFile \subseteq 1..Len(log)
    /\ vladBack \subseteq 1..Len(log)
    /\ file \in [Ids -> {"none", "queued", "claimed"}]
    /\ run \in [Ids -> [Runners -> {"off", "ready", "staged", "ok", "failed"}]]
    /\ published \subseteq 1..Len(log)
    /\ lock \in Reviewers \union {NoReviewer}
    /\ pc \in [Reviewers -> {"idle", "handoff", "launch", "rupert", "deliver"}]
    /\ job \in [Reviewers -> SUBSET (1..Len(log))]
    /\ seen \in [Reviewers -> [stage : Stages \union {"unknown"},
                              closed : BOOLEAN]]

Init ==
    /\ stage = FirstStage
    /\ closed = FALSE
    /\ log = <<>>
    /\ live = {}
    /\ action = [d \in Ids |-> "none"]
    /\ target = {}
    /\ item = [i \in Items |-> "awaiting_decision"]
    /\ latest = [i \in Items |-> 0]
    /\ libbyRow = {}
    /\ libbyFile = {}
    /\ libbyDone = {}
    /\ vladFile = {}
    /\ vladBack = {}
    /\ file = [d \in Ids |-> "none"]
    /\ run = [d \in Ids |-> [k \in Runners |-> "off"]]
    /\ published = {}
    /\ lock = NoReviewer
    /\ pc = [r \in Reviewers |-> "idle"]
    /\ job = [r \in Reviewers |-> {}]
    /\ seen = [r \in Reviewers |-> Forgotten]

-----------------------------------------------------------------------------
(* The advisory lock.  It is taken for the transaction, so whoever holds it *)
(* gives it up with the next commit or rollback.                            *)

AuthorityNotTaken(r) == r \in Reviewers     \* faulty: no lock is waited for

AuthorityFree(r) == lock \in {NoReviewer, r}

Released(r) == IF lock = r THEN NoReviewer ELSE lock

(* The clock both endpoints read after they have the lock. *)
LastAt == IF log = <<>> THEN 0 ELSE log[Len(log)].at
Now    == {LastAt, LastAt + 1}

Whole(d)    == log[d].item = NoItem
Approves(d) == log[d].code = "approve"

(* The decision r hands off next. *)
Next1(r, d) == d \in job[r] /\ \A e \in job[r] : d =< e

-----------------------------------------------------------------------------
(* POST /review-cases/{id}/decisions.  One transaction under the lock; the *)
(* case's stage is overwritten whatever it was.                            *)

(* The children a whole-case decision names, whatever their status is, or  *)
(* the one symbol an intake case publishes.                                *)
NamedSubjects(code) ==
    IF Items # {} THEN SUBSET Items
    ELSE IF code = "approve" THEN {Subjects} ELSE {{}}

RecordDecision(r) ==
    LET new == Len(log) + 1 IN
    /\ pc[r] = "idle"
    /\ AuthorityFree(r)
    /\ new \in Ids
    /\ \E code \in Codes : \E subjects \in NamedSubjects(code), at \in Now :
         /\ log' = Append(log, [code |-> code, item |-> NoItem,
                                subjects |-> subjects, override |-> FALSE,
                                at |-> at])
         /\ stage' = ToStage[code]
    /\ live' = {new}
    /\ action' = [action EXCEPT ![new] = "pending"]
    /\ pc' = [pc EXCEPT ![r] = "handoff"]
    /\ job' = [job EXCEPT ![r] = {new}]
    /\ seen' = [seen EXCEPT ![r] = [stage |-> stage', closed |-> closed]]
    /\ UNCHANGED <<closed, target, itemVars, libbyVars, rupertVars, lock>>

(* POST /review-cases/{id}/split-items/process-decisions.  A batch chooses *)
(* a code for some open children; a duplicate exception the reviewer       *)
(* confirms is settled at once, every other decision is handed off after   *)
(* the commit.  Nothing is superseded.  The open items are counted by a    *)
(* query, which sees what was flushed (db.py sets autoflush=False): a      *)
(* confirmation that comes last in the batch is still counted as open.     *)
Batches ==
    {b \in UNION {[1..n -> Items \X Codes] : n \in 1..(MaxDecisions - Len(log))} :
        /\ \A x \in DOMAIN b : item[b[x][1]] \in OpenStatuses
        /\ \A x, y \in DOMAIN b : b[x][1] = b[y][1] => x = y}

ConfirmsDuplicate(choice) ==
    item[choice[1]] = "duplicate_exception" /\ choice[2] = "duplicate"

ChildDecision(choice, at) ==
    [code     |-> choice[2],
     item     |-> choice[1],
     subjects |-> {choice[1]},
     override |-> item[choice[1]] = "duplicate_exception"
                  /\ choice[2] = "approve",
     at       |-> at]

ProcessChildren(r) ==
    /\ pc[r] = "idle"
    /\ AuthorityFree(r)
    /\ \E batch \in Batches, at \in Now :
         LET n       == Len(batch)
             new     == (Len(log) + 1)..(Len(log) + n)
             of(d)   == batch[d - Len(log)]
             settled == {d \in new : ConfirmsDuplicate(of(d))}
         IN
         /\ log' = log \o [x \in 1..n |-> ChildDecision(batch[x], at)]
         /\ live' = live \union new
         /\ action' = [d \in Ids |-> IF d \in settled THEN "completed"
                                     ELSE IF d \in new THEN "pending"
                                     ELSE action[d]]
         /\ item' = [i \in Items |-> IF \E d \in settled : of(d)[1] = i
                                     THEN "duplicate_resolved" ELSE item[i]]
         /\ latest' = [i \in Items |->
                         IF \E d \in new : of(d)[1] = i
                         THEN CHOOSE d \in new : of(d)[1] = i ELSE latest[i]]
         /\ job' = [job EXCEPT ![r] = new \ settled]
         /\ IF /\ Len(log) + n \notin settled
               /\ \A i \in Items : item'[i] \notin OpenStatuses
            THEN stage' = "split_children_processed" /\ closed' = TRUE
            ELSE UNCHANGED caseVars
    /\ pc' = [pc EXCEPT ![r] = "handoff"]
    /\ seen' = [seen EXCEPT ![r] = CaseRow']
    /\ UNCHANGED <<target, libbyVars, rupertVars, lock>>

-----------------------------------------------------------------------------
(* execute_publication_handoff.  It takes the lock, validates the decision *)
(* and either refuses, fails, diverts a duplicate to Libby or starts       *)
(* Rupert.                                                                 *)

CurrentStageFits(r) == Seen(r).stage = ToStage["approve"]

Authorised(r, d) ==
    /\ d \in live
    /\ CurrentStageFits(r)
    /\ \A e \in live : log[e].at =< log[d].at

(* The newest decision by created_at; equal times are in no order. *)
Unauthorised(r, d) ==
    \/ d \notin live
    \/ ~CurrentStageFits(r)
    \/ \E e \in live \ {d} : log[e].at >= log[d].at

Handing(r, d) == pc[r] = "handoff" /\ Next1(r, d) /\ Approves(d)

(* The refusal is returned without a commit: the action stays pending and  *)
(* the lock stays with the session until its next commit.                  *)
RefuseHandoff(r, d) ==
    /\ Handing(r, d)
    /\ AuthorityFree(r)
    /\ Unauthorised(r, d)
    /\ lock' = r
    /\ job' = [job EXCEPT ![r] = @ \ {d}]
    /\ seen' = [seen EXCEPT ![r] = Seen(r)]
    /\ UNCHANGED <<caseVars, decisionVars, itemVars, libbyVars, rupertVars, pc>>

(* The rollback, then the transaction that marks the action failed. *)
FailAction(r, d) ==
    /\ action' = [action EXCEPT ![d] = "failed"]
    /\ lock' = Released(r)
    /\ pc' = [pc EXCEPT ![r] = "handoff"]
    /\ job' = [job EXCEPT ![r] = @ \ {d}]
    /\ seen' = [seen EXCEPT ![r] = Forgotten]
    /\ UNCHANGED <<caseVars, log, live, target, itemVars, libbyVars, published>>

NothingApproved(r, d) ==
    /\ Handing(r, d)
    /\ AuthorityFree(r)
    /\ Authorised(r, d)
    /\ log[d].subjects = {}
    /\ FailAction(r, d)
    /\ UNCHANGED <<file, run>>

(* detect_graphical_duplicates: some published revision looks the same. *)
LooksPublished(d) ==
    \E p \in published \ {d} : \E s \in log[d].subjects, t \in log[p].subjects :
        Looks[s] = Looks[t]

(* Clearing closed_at writes nothing when the session remembers it clear. *)
DivertDuplicate(r, d) ==
    /\ Handing(r, d)
    /\ AuthorityFree(r)
    /\ Authorised(r, d)
    /\ ~log[d].override
    /\ LooksPublished(d)
    /\ stage' = "duplicate_resolution"
    /\ closed' = (closed /\ ~Seen(r).closed)
    /\ seen' = [seen EXCEPT ![r] = [stage |-> stage', closed |-> FALSE]]
    /\ action' = [action EXCEPT ![d] = "completed"]
    /\ item' = [i \in Items |->
                  IF i = log[d].item THEN "duplicate_pending" ELSE item[i]]
    /\ libbyRow' = libbyRow \union {d}
    /\ lock' = NoReviewer
    /\ pc' = [pc EXCEPT ![r] = "deliver"]
    /\ UNCHANGED <<log, live, target, latest, libbyFile, libbyDone, vladFile,
                   vladBack, rupertVars, job>>

NeverCommitsFirst(d) == d \notin Ids   \* faulty: Rupert starts uncommitted

(* commit_before_external: set for child decisions only. *)
CommitsFirst(d) == ~Whole(d)

StartRelease(r, d) ==
    /\ Handing(r, d)
    /\ AuthorityFree(r)
    /\ Authorised(r, d)
    /\ log[d].subjects # {}
    /\ log[d].override \/ StorageMayFail \/ ~LooksPublished(d)
    /\ IF CommitsFirst(d)
       THEN /\ target' = target \union {d}
            /\ action' = [action EXCEPT ![d] = "running"]
            /\ lock' = NoReviewer
       ELSE /\ lock' = r
            /\ UNCHANGED <<target, action>>
    /\ pc' = [pc EXCEPT ![r] = "launch"]
    /\ seen' = [seen EXCEPT ![r] = Seen(r)]
    /\ UNCHANGED <<caseVars, log, live, itemVars, libbyVars, rupertVars, job>>

(* write_rupert_queue_item, then the subprocess is started. *)
Launch(r, d) ==
    /\ pc[r] = "launch"
    /\ Next1(r, d)
    /\ file' = [file EXCEPT ![d] = "queued"]
    /\ run' = [run EXCEPT ![d]["child"] = "ready"]
    /\ pc' = [pc EXCEPT ![r] = "rupert"]
    /\ UNCHANGED <<caseVars, decisionVars, itemVars, libbyVars, published,
                   lock, job, seen>>

RupertReturned(d) == run[d]["child"] \in {"ok", "failed"}  \* faulty: any exit

RupertDelivered(d) == run[d]["child"] = "ok"

(* Rupert exited with status 0.  The items, the action and the case are    *)
(* written in one transaction; a child's handoff gave the lock up before   *)
(* Rupert ran and does not take it again.                                  *)
FinishHandoff(r, d) ==
    /\ pc[r] = "rupert"
    /\ Next1(r, d)
    /\ RupertDelivered(d)
    /\ item' = [i \in Items |->
                  IF i \in log[d].subjects THEN "published" ELSE item[i]]
    /\ action' = [action EXCEPT ![d] = "completed"]
    /\ target' = target \union {d}
    /\ stage' = "published"
    /\ closed' = TRUE
    /\ lock' = Released(r)
    /\ pc' = [pc EXCEPT ![r] = "handoff"]
    /\ job' = [job EXCEPT ![r] = @ \ {d}]
    /\ seen' = [seen EXCEPT ![r] = CaseRow']
    /\ UNCHANGED <<log, live, latest, libbyVars, rupertVars>>

(* Rupert exited with an error. *)
RupertErrors(r, d) ==
    /\ pc[r] = "rupert"
    /\ Next1(r, d)
    /\ run[d]["child"] = "failed"
    /\ FailAction(r, d)
    /\ UNCHANGED <<file, run>>

NoTimeout(r, d) == pc[r] = "rupert" /\ d \notin Ids   \* faulty: waits for ever

TimeIsUp(r, d) == pc[r] = "rupert" /\ Next1(r, d)

(* Two minutes have passed: the subprocess is killed wherever it is, also  *)
(* after it committed and before it exited.                                *)
RupertTimesOut(r, d) ==
    /\ TimeIsUp(r, d)
    /\ run[d]["child"] \in {"ready", "staged", "ok"}
    /\ run' = [run EXCEPT ![d]["child"] = IF @ = "ok" THEN "ok" ELSE "failed"]
    /\ FailAction(r, d)
    /\ UNCHANGED file

-----------------------------------------------------------------------------
(* execute_review_followup_handoff, for every decision that does not       *)
(* approve.  The row is committed, then the file Libby reads is written.   *)

QueueFollowUp(r, d) ==
    /\ pc[r] = "handoff"
    /\ Next1(r, d)
    /\ ~Approves(d)
    /\ action' = [action EXCEPT ![d] = "completed"]
    /\ libbyRow' = libbyRow \union {d}
    /\ lock' = Released(r)
    /\ pc' = [pc EXCEPT ![r] = "deliver"]
    /\ seen' = [seen EXCEPT ![r] = Seen(r)]
    /\ UNCHANGED <<caseVars, log, live, target, itemVars, libbyFile, libbyDone,
                   vladFile, vladBack, rupertVars, job>>

WriteLibbyFile(r, d) ==
    /\ pc[r] = "deliver"
    /\ Next1(r, d)
    /\ libbyFile' = libbyFile \union {d}
    /\ pc' = [pc EXCEPT ![r] = "handoff"]
    /\ job' = [job EXCEPT ![r] = @ \ {d}]
    /\ UNCHANGED <<caseVars, decisionVars, itemVars, libbyRow, libbyDone,
                   vladFile, vladBack, rupertVars, lock, seen>>

(* The file of Rupert, or of the diverted duplicate, cannot be written. *)
WriteFails(r, d) ==
    /\ pc[r] \in {"launch", "deliver"}
    /\ Next1(r, d)
    /\ Approves(d)
    /\ FailAction(r, d)
    /\ UNCHANGED <<file, run>>

(* The session is committed or closed and the response is sent. *)
EndRequest(r) ==
    /\ pc[r] = "handoff"
    /\ job[r] = {}
    /\ lock' = Released(r)
    /\ pc' = [pc EXCEPT ![r] = "idle"]
    /\ seen' = [seen EXCEPT ![r] = Forgotten]
    /\ UNCHANGED <<caseVars, decisionVars, itemVars, libbyVars, rupertVars, job>>

(* The process dies, or an exception between two commits ends the request. *)
(* A Rupert subprocess survives it.                                        *)
RequestDies(r) ==
    /\ pc[r] # "idle"
    /\ lock' = Released(r)
    /\ pc' = [pc EXCEPT ![r] = "idle"]
    /\ job' = [job EXCEPT ![r] = {}]
    /\ seen' = [seen EXCEPT ![r] = Forgotten]
    /\ UNCHANGED <<caseVars, decisionVars, itemVars, libbyVars, rupertVars>>

-----------------------------------------------------------------------------
(* Rupert.  The worker lists files whose status is queued and runs them    *)
(* later without looking again; the subprocess never looks.                *)

WorkerLists(d) ==
    /\ "worker" \in Runners
    /\ file[d] = "queued"
    /\ run[d]["worker"] = "off"
    /\ run' = [run EXCEPT ![d]["worker"] = "ready"]
    /\ UNCHANGED <<caseVars, decisionVars, itemVars, libbyVars, file,
                   published, handlerVars>>

RunnerStages(d, k) ==
    /\ run[d][k] = "ready"
    /\ run' = [run EXCEPT ![d][k] = "staged"]
    /\ file' = [file EXCEPT ![d] = "claimed"]
    /\ UNCHANGED <<caseVars, decisionVars, itemVars, libbyVars, published,
                   handlerVars>>

TargetExists(d) == d \in target       \* faulty: superseded_at is not checked

(* resolve_durable_publication_approval and ..._revisions. *)
DurablyApproved(d) == d \in live /\ d \in target /\ Approves(d)

(* persist_publication_execution, one transaction under the case's lock. *)
RunnerPublishes(d, k) ==
    /\ run[d][k] = "staged"
    /\ lock = NoReviewer
    /\ DurablyApproved(d)
    /\ published' = published \union {d}
    /\ run' = [run EXCEPT ![d][k] = "ok"]
    /\ UNCHANGED <<caseVars, decisionVars, itemVars, libbyVars, file,
                   handlerVars>>

(* The approval, the publication gate or the database refuses, or the      *)
(* runner dies.                                                            *)
RunnerFails(d, k) ==
    /\ run[d][k] \in {"ready", "staged"}
    /\ run' = [run EXCEPT ![d][k] = "failed"]
    /\ UNCHANGED <<caseVars, decisionVars, itemVars, libbyVars, file,
                   published, handlerVars>>

-----------------------------------------------------------------------------
(* Libby.  What she does with a follow-up depends on its type, which the    *)
(* code and the named children's actions and remarks decide; a follow-up   *)
(* for metadata, evidence or a deferral changes no split item.  She writes *)
(* the items one by one, in a transaction each, and takes no lock.         *)

LibbyWrites(d, i, status) ==
    /\ <<d, i>> \notin libbyDone
    /\ libbyDone' = libbyDone \union {<<d, i>>}
    /\ item' = [item EXCEPT ![i] = status]
    /\ UNCHANGED <<caseVars, decisionVars, latest, libbyRow, libbyFile,
                   vladFile, vladBack, rupertVars, handlerVars>>

DecidedItem(d, i) == log[d].item = i    \* faulty: not the latest decision

LatestItem(d, i) == latest[i] = d

(* resolve_duplicate_review_split_item finds the item through its latest   *)
(* decision and fails when there is none.                                  *)
LibbyResolves(d, i) ==
    /\ d \in libbyFile
    /\ log[d].code \in {"duplicate", "approve"}
    /\ LatestItem(d, i)
    /\ \E outcome \in {"duplicate_resolved", "duplicate_exception"} :
         LibbyWrites(d, i, outcome)

(* A whole-case decision may carry a child marked for rejection whatever   *)
(* its own code is.                                                        *)
MayDispose(d) ==
    ~Approves(d) /\ (Whole(d) \/ log[d].code \in {"reject", "deleted"})

Dispositions(d) ==
    IF Whole(d) THEN {"deleted", "rejected"}
    ELSE IF log[d].code = "deleted" THEN {"deleted"} ELSE {"rejected"}

(* dispose_review_split_item finds the item by its child key, whatever has *)
(* become of it.                                                           *)
LibbyDisposes(d, i) ==
    /\ d \in libbyFile \ vladFile
    /\ MayDispose(d)
    /\ i \in log[d].subjects
    /\ \E disposition \in Dispositions(d) : LibbyWrites(d, i, disposition)

(* A change of the graphic goes to Vlad, and comes back to Libby. *)
AsksForGraphics(d) ==
    log[d].code \in {"request_changes", "child_actions_submitted"}

LibbyAsksVlad(d) ==
    /\ d \in libbyFile \ vladFile
    /\ AsksForGraphics(d)
    /\ \A i \in Items : <<d, i>> \notin libbyDone
    /\ vladFile' = vladFile \union {d}
    /\ UNCHANGED <<caseVars, decisionVars, itemVars, libbyRow, libbyFile,
                   libbyDone, vladBack, rupertVars, handlerVars>>

VladReturns(d) ==
    /\ d \in vladFile \ vladBack
    /\ vladBack' = vladBack \union {d}
    /\ UNCHANGED <<caseVars, decisionVars, itemVars, libbyRow, libbyFile,
                   libbyDone, vladFile, rupertVars, handlerVars>>

(* return_review_split_item_for_review, for every child Vlad was sent, by  *)
(* its child key.                                                          *)
LibbyReturns(d, i) ==
    /\ d \in vladBack
    /\ i \in log[d].subjects
    /\ LibbyWrites(d, i, "returned_for_review")

-----------------------------------------------------------------------------
Handler(r) ==
    \/ RecordDecision(r)
    \/ ProcessChildren(r)
    \/ EndRequest(r)
    \/ RequestDies(r)
    \/ \E d \in 1..Len(log) :
         \/ RefuseHandoff(r, d)
         \/ NothingApproved(r, d)
         \/ DivertDuplicate(r, d)
         \/ StartRelease(r, d)
         \/ Launch(r, d)
         \/ FinishHandoff(r, d)
         \/ RupertErrors(r, d)
         \/ RupertTimesOut(r, d)
         \/ QueueFollowUp(r, d)
         \/ WriteLibbyFile(r, d)
         \/ WriteFails(r, d)

Rupert ==
    \E d \in 1..Len(log) :
        \/ WorkerLists(d)
        \/ \E k \in Runners :
             RunnerStages(d, k) \/ RunnerPublishes(d, k) \/ RunnerFails(d, k)

Libby ==
    \E d \in 1..Len(log) :
        \/ LibbyAsksVlad(d)
        \/ VladReturns(d)
        \/ \E i \in Items :
             LibbyResolves(d, i) \/ LibbyDisposes(d, i) \/ LibbyReturns(d, i)

Next == (\E r \in Reviewers : Handler(r)) \/ Rupert \/ Libby

Spec == Init /\ [][Next]_vars

(* Every handler is a thread that keeps running: none of its own steps is  *)
(* postponed for ever.  The lock is granted in the order it was asked for, *)
(* so a handler that keeps asking gets it (strong fairness).  A subprocess *)
(* is killed after two minutes whatever it does.  Nothing is assumed of    *)
(* Rupert, the worker or Libby.                                            *)
LockStep(r) ==
    \E d \in 1..Len(log) :
        \/ RefuseHandoff(r, d)
        \/ NothingApproved(r, d)
        \/ DivertDuplicate(r, d)
        \/ StartRelease(r, d)

OwnStep(r) ==
    \/ EndRequest(r)
    \/ \E d \in 1..Len(log) :
         \/ Launch(r, d)
         \/ FinishHandoff(r, d)
         \/ RupertErrors(r, d)
         \/ RupertTimesOut(r, d)
         \/ QueueFollowUp(r, d)
         \/ WriteLibbyFile(r, d)

FairSpec ==
    Spec /\ \A r \in Reviewers : WF_vars(OwnStep(r)) /\ SF_vars(LockStep(r))

-----------------------------------------------------------------------------
(* Properties that hold.                                                   *)

(* The case implements the ledger: whatever two endpoints, an orphaned     *)
(* subprocess and the worker do in whatever order, a page appears only for *)
(* an approval that no later whole-case decision has replaced.             *)
Ledger == INSTANCE ReviewAuthority WITH
    recorded  <- Len(log),
    inForce   <- live,
    approvals <- {d \in 1..Len(log) : Approves(d)}

ImplementsLedger == Ledger!Spec

(* While a whole-case approval is being released, from the moment Rupert's *)
(* file is about to be written until Rupert is done with, it stays the     *)
(* newest decision in force, and its handler alone holds the case's lock:  *)
(* publication_authority.py's serialization of decision replacement.       *)
WholeReleaseIsExclusive ==
    \A r \in Reviewers : \A d \in job[r] :
        (pc[r] \in {"launch", "rupert"} /\ Next1(r, d) /\ Whole(d)) =>
            /\ lock = r
            /\ d \in live
            /\ \A e \in live : log[e].at =< log[d].at

(* An action reported as completed has had its effect: the decision's      *)
(* revisions are published, or Libby has a durable row to follow up, or    *)
(* the decision settled a duplicate exception on the spot.                 *)
CompletedActionHasEffect ==
    \A d \in 1..Len(log) : action[d] = "completed" =>
        \/ d \in published
        \/ d \in libbyRow
        \/ (log[d].code = "duplicate" /\ ~Whole(d))

(* A split item shown as published has a published page of its own, even   *)
(* when the subprocess failed, was killed or was run twice.                *)
PublishedItemHasPage ==
    \A i \in Items : item[i] = "published" =>
        \E d \in published : i \in log[d].subjects

(* "A child failure cannot leave an orphan queue file" (the comment on the *)
(* deferred handoffs): a child's Rupert file names a durable target, and   *)
(* every file Libby reads has its row, at every instant and so at a crash. *)
NoOrphanQueueFile ==
    /\ \A d \in 1..Len(log) : file[d] # "none" /\ ~Whole(d) => d \in target
    /\ libbyFile \subseteq libbyRow

(* Only a follow-up takes a published item back: while one request at a    *)
(* time decides the case (the run has one reviewer), no duplicate verdict  *)
(* of Libby's, no diverted duplicate and no batch changes it, only a       *)
(* follow-up that was delivered to Libby, names the item, and asked for    *)
(* something else than to publish it or to compare it.                     *)
OnlyFollowUpsTakeBack ==
    [][\A i \in Items : item[i] = "published" =>
          \/ item'[i] = "published"
          \/ /\ item'[i] \in {"rejected", "deleted", "returned_for_review"}
             /\ \E d \in libbyFile :
                   /\ i \in log[d].subjects /\ ~Approves(d)
                   /\ Whole(d) \/ log[d].code # "duplicate"]_vars

-----------------------------------------------------------------------------
(* The inductive invariant behind them (ReviewHandoffProofs).              *)

(* Nothing is known of a decision before it is recorded. *)
FreshIdsAreBlank ==
    \A d \in Ids : d > Len(log) =>
        /\ action[d] = "none"
        /\ file[d] = "none"
        /\ \A k \in Runners : run[d][k] = "off"

(* Nobody runs a decision whose Rupert file was never written. *)
RunnersHaveFiles ==
    \A d \in 1..Len(log) : \A k \in Runners :
        run[d][k] # "off" => file[d] # "none"

(* A runner that reports success has published. *)
SuccessIsPublished ==
    \A d \in 1..Len(log) : \A k \in Runners :
        run[d][k] = "ok" => d \in published

(* Whole-case decisions never own a durable target, which is committed     *)
(* only after Rupert has exited, so Rupert never publishes one.  This is   *)
(* the general form of what HandedApprovalCanPublish below is refuted by.  *)
WholeHasNoTarget == \A d \in target : ~Whole(d)

WholeApprovalNeverPublishes == \A d \in published : ~Whole(d)

(* What is handed to Rupert or to Libby was committed before. *)
HandedOverIsCommitted ==
    \A r \in Reviewers : \A d \in job[r] :
        /\ (pc[r] \in {"launch", "rupert"} /\ Next1(r, d) /\ ~Whole(d)) =>
              d \in target
        /\ (pc[r] = "deliver" /\ Next1(r, d)) => d \in libbyRow

IInv ==
    /\ TypeOK
    /\ FreshIdsAreBlank
    /\ RunnersHaveFiles
    /\ SuccessIsPublished
    /\ WholeHasNoTarget
    /\ WholeApprovalNeverPublishes
    /\ HandedOverIsCommitted
    /\ NoOrphanQueueFile
    /\ CompletedActionHasEffect
    /\ PublishedItemHasPage
    /\ WholeReleaseIsExclusive

(* What one request at a time adds: while every decision a request has     *)
(* still to hand off belongs to the newest batch, each is the latest of    *)
(* its item, has not reached Libby, and is not one that published.         *)
OneReviewer == \A p, q \in Reviewers : p = q

LatestIsRecorded == \A i \in Items : latest[i] \in 0..Len(log)

JobIsLatest ==
    \A r \in Reviewers : \A d \in job[r] : ~Whole(d) =>
        log[d].subjects = {log[d].item} /\ latest[log[d].item] = d

JobIsNotWithLibby == \A r \in Reviewers : job[r] \intersect libbyFile = {}

PublishedIsSettled ==
    \A i \in Items : item[i] = "published" =>
        /\ latest[i] \notin libbyFile
        /\ \A r \in Reviewers : latest[i] \notin job[r]

VladHasFollowUps ==
    /\ vladBack \subseteq vladFile
    /\ vladFile \subseteq {d \in libbyFile : AsksForGraphics(d)}

SInv ==
    /\ LatestIsRecorded
    /\ JobIsLatest
    /\ JobIsNotWithLibby
    /\ PublishedIsSettled
    /\ VladHasFollowUps

-----------------------------------------------------------------------------
(* Every request ends: the endpoint that waits for Rupert while Rupert     *)
(* waits for its lock gets out by the timeout.                             *)
RequestsFinish == \A r \in Reviewers : pc[r] # "idle" ~> pc[r] = "idle"

-----------------------------------------------------------------------------
(* What the repository says of the case, and the code does not do.         *)

(* publication_authority.py: review-decision replacement and publication   *)
(* effects are serialized, so the case is never stamped published on       *)
(* behalf of a decision that has been replaced.                            *)
PublishedStageUnderAuthority ==
    [][\A r \in Reviewers, d \in 1..Len(log) :
          FinishHandoff(r, d) => d \in live]_vars

(* publication_handoff.py, before Rupert is started: "Commit the           *)
(* authority/queue state before starting it so that session cannot wait on *)
(* the lock still held by this transaction"; and the orchestration         *)
(* document: "`approve` creates and executes the Rupert publication        *)
(* handoff".  So while an approval in force is with Rupert, his session    *)
(* finds it durably approved, and the request does not hold the lock he    *)
(* needs.                                                                  *)
HandedApprovalCanPublish ==
    \A r \in Reviewers : \A d \in job[r] :
        (pc[r] = "rupert" /\ Next1(r, d) /\ d \in live) =>
            d \in target /\ lock # r

=============================================================================
