------------------------ MODULE ReviewHandoffProofs ------------------------
(***************************************************************************)
(* What ReviewHandoff guarantees for every set of reviewers and children,  *)
(* every number of decisions and with or without the queue worker.         *)
(***************************************************************************)
EXTENDS ReviewHandoff, TLAPS

USE HandoffAssumption

(* Appending a decision keeps the log a sequence of decisions and leaves   *)
(* the earlier ones alone.                                                 *)
LEMMA AppendDecision ==
    ASSUME NEW ds \in Seq(Decision), NEW x \in Decision
    PROVE  /\ Append(ds, x) \in Seq(Decision)
           /\ Len(Append(ds, x)) = Len(ds) + 1
           /\ \A e \in 1..Len(ds) : Append(ds, x)[e] = ds[e]
           /\ Append(ds, x)[Len(ds) + 1] = x
  OBVIOUS

(* The same for a batch of decisions. *)
LEMMA AppendBatch ==
    ASSUME NEW ds \in Seq(Decision), NEW n \in Nat,
           NEW more \in [1..n -> Decision]
    PROVE  /\ ds \o more \in Seq(Decision)
           /\ Len(ds \o more) = Len(ds) + n
           /\ \A e \in 1..Len(ds) : (ds \o more)[e] = ds[e]
           /\ \A e \in (Len(ds) + 1)..(Len(ds) + n) :
                 (ds \o more)[e] = more[e - Len(ds)]
  <1>1. more \in Seq(Decision) /\ Len(more) = n
    OBVIOUS
  <1> QED BY <1>1

-----------------------------------------------------------------------------
(* Facts about the two actions that record decisions, in the form every    *)
(* later proof uses them.                                                  *)

(* The clock only moves forward. *)
LEMMA NowType ==
    ASSUME TypeOK  PROVE  Now \subseteq Nat
  <1>1. CASE log = <<>>
    BY <1>1 DEF Now, LastAt
  <1>2. CASE log # <<>>
    <2>1. Len(log) \in 1..Len(log) /\ log \in Seq(Decision)
      BY <1>2 DEF TypeOK
    <2>2. log[Len(log)] \in Decision
      BY <2>1
    <2> QED BY <1>2, <2>2 DEF Now, LastAt, Decision
  <1> QED BY <1>1, <1>2

(* RecordDecision appends one whole-case decision and puts it alone in     *)
(* force.                                                                  *)
LEMMA RecordStep ==
    ASSUME TypeOK, NEW r \in Reviewers, RecordDecision(r)
    PROVE  /\ log' \in Seq(Decision)
           /\ Len(log') = Len(log) + 1
           /\ Len(log') \in Ids
           /\ \A e \in 1..Len(log) : log'[e] = log[e]
           /\ log'[Len(log) + 1].item = NoItem
           /\ log'[Len(log) + 1].code \in Codes
           /\ stage' \in Stages
  <1> DEFINE new == Len(log) + 1
  <1>0. PICK code \in Codes :
          \E subjects \in NamedSubjects(code), at \in Now :
            /\ log' = Append(log, [code |-> code, item |-> NoItem,
                                   subjects |-> subjects, override |-> FALSE,
                                   at |-> at])
            /\ stage' = ToStage[code]
    BY DEF RecordDecision
  <1>1. PICK subjects \in NamedSubjects(code), at \in Now :
          /\ log' = Append(log, [code |-> code, item |-> NoItem,
                                 subjects |-> subjects, override |-> FALSE,
                                 at |-> at])
          /\ stage' = ToStage[code]
    BY <1>0
  <1>2. [code |-> code, item |-> NoItem, subjects |-> subjects,
         override |-> FALSE, at |-> at] \in Decision
    <2>1. subjects \subseteq Subjects
      BY DEF NamedSubjects
    <2>2. at \in Nat
      BY NowType
    <2> QED BY <2>1, <2>2 DEF Decision
  <1>3. log \in Seq(Decision)
    BY DEF TypeOK
  <1>4. stage' \in Stages
    BY <1>1 DEF Stages
  <1>5. new \in Ids
    BY DEF RecordDecision
  <1> HIDE DEF new
  <1> QED BY <1>1, <1>2, <1>3, <1>4, <1>5, AppendDecision DEF new

(* ProcessChildren appends at least one child decision, keeps everything   *)
(* in force and settles nothing but confirmed duplicates.  A batch takes   *)
(* open items only, each once: its decisions become the latest of theirs.  *)
LEMMA BatchStep ==
    ASSUME TypeOK, NEW r \in Reviewers, ProcessChildren(r)
    PROVE  LET new == (Len(log) + 1)..Len(log') IN
           /\ log' \in Seq(Decision)
           /\ Len(log') \in (Len(log) + 1)..MaxDecisions
           /\ \A e \in 1..Len(log) : log'[e] = log[e]
           /\ \A e \in new : /\ log'[e].item \in Items
                             /\ log'[e].subjects = {log'[e].item}
                             /\ latest'[log'[e].item] = e
           /\ live' = live \union new
           /\ action' \in [Ids -> {"none", "pending", "running", "completed",
                                   "failed"}]
           /\ \A d \in Ids : \/ action'[d] \in {action[d], "pending"}
                              \/ (d \in new /\ log'[d].code = "duplicate")
           /\ item' \in [Items -> ItemStatuses]
           /\ \A i \in Items : item'[i] \in {item[i], "duplicate_resolved"}
           /\ latest' \in [Items -> 0..MaxDecisions]
           /\ \A i \in Items : \/ latest'[i] = latest[i]
                               \/ item[i] # "published" /\ latest'[i] \in new
           /\ job'[r] \subseteq new
           /\ job' \in [Reviewers -> SUBSET (1..Len(log'))]
           /\ \A q \in Reviewers : q # r => job'[q] = job[q]
           /\ stage' \in Stages
           /\ closed' \in BOOLEAN
  <1> DEFINE len == Len(log)
  <1>0. /\ log \in Seq(Decision)  /\ len \in Nat
        /\ action \in [Ids -> {"none", "pending", "running", "completed",
                               "failed"}]
        /\ item \in [Items -> ItemStatuses]
        /\ latest \in [Items -> 0..MaxDecisions]
        /\ job \in [Reviewers -> SUBSET (1..len)]
        /\ stage \in Stages /\ closed \in BOOLEAN
    BY DEF TypeOK
  <1>1. PICK b \in Batches, at \in Now :
          LET n       == Len(b)
              new     == (Len(log) + 1)..(Len(log) + n)
              of(d)   == b[d - Len(log)]
              settled == {d \in new : ConfirmsDuplicate(of(d))}
          IN
          /\ log' = log \o [x \in 1..n |-> ChildDecision(b[x], at)]
          /\ live' = live \union new
          /\ action' = [d \in Ids |-> IF d \in settled THEN "completed"
                                      ELSE IF d \in new THEN "pending"
                                      ELSE action[d]]
          /\ item' = [i \in Items |-> IF \E d \in settled : of(d)[1] = i
                                      THEN "duplicate_resolved" ELSE item[i]]
          /\ latest' = [i \in Items |->
                          IF \E d \in new : of(d)[1] = i
                          THEN CHOOSE d \in new : of(d)[1] = i ELSE latest[i]]
          /\ job' = [job EXCEPT ![r] = new \ settled]
          /\ IF /\ Len(log) + n \notin settled
                /\ \A i \in Items : item'[i] \notin OpenStatuses
             THEN stage' = "split_children_processed" /\ closed' = TRUE
             ELSE UNCHANGED caseVars
    BY DEF ProcessChildren
  <1>2. PICK n \in 1..(MaxDecisions - len) : b \in [1..n -> Items \X Codes]
    BY DEF Batches
  <1> DEFINE more == [x \in 1..n |-> ChildDecision(b[x], at)]
             new  == (len + 1)..(len + n)
             settled == {d \in new : ConfirmsDuplicate(b[d - len])}
  <1>3. n \in Nat \ {0} /\ len + n \in (len + 1)..MaxDecisions
    BY <1>0, <1>2
  <1>4. Len(b) = n
    BY <1>2, <1>3
  <1>5. more \in [1..n -> Decision]
    <2>1. at \in Nat
      BY NowType
    <2> SUFFICES ASSUME NEW x \in 1..n PROVE ChildDecision(b[x], at) \in Decision
      OBVIOUS
    <2>2. b[x][1] \in Items /\ b[x][2] \in Codes
      BY <1>2
    <2>3. {b[x][1]} \subseteq Subjects
      BY <2>2
    <2> QED BY <2>1, <2>2, <2>3 DEF ChildDecision, Decision
  <1>6. /\ log' = log \o more
        /\ live' = live \union new
        /\ action' = [d \in Ids |-> IF d \in settled THEN "completed"
                                    ELSE IF d \in new THEN "pending"
                                    ELSE action[d]]
        /\ item' = [i \in Items |-> IF \E d \in settled : b[d - len][1] = i
                                    THEN "duplicate_resolved" ELSE item[i]]
        /\ latest' = [i \in Items |->
                        IF \E d \in new : b[d - len][1] = i
                        THEN CHOOSE d \in new : b[d - len][1] = i ELSE latest[i]]
        /\ job' = [job EXCEPT ![r] = new \ settled]
    BY <1>1, <1>4
  <1> HIDE DEF more, settled
  <1>7. /\ log' \in Seq(Decision)
        /\ Len(log') = len + n
        /\ \A e \in 1..len : log'[e] = log[e]
        /\ \A e \in new : log'[e] = more[e - len]
    BY <1>0, <1>3, <1>5, <1>6, AppendBatch
  <1>8. \A e \in new : log'[e] = ChildDecision(b[e - len], at)
    <2> SUFFICES ASSUME NEW e \in new
                 PROVE  log'[e] = ChildDecision(b[e - len], at)
      OBVIOUS
    <2>1. e - len \in 1..n
      BY <1>0, <1>3
    <2>2. log'[e] = more[e - len]
      BY <1>7
    <2> QED BY <2>1, <2>2 DEF more
  <1>9. \A e \in new : log'[e].item \in Items
    <2> SUFFICES ASSUME NEW e \in new PROVE log'[e].item \in Items
      OBVIOUS
    <2>1. e - len \in 1..n
      BY <1>0, <1>3
    <2>2. b[e - len][1] \in Items
      BY <2>1, <1>2
    <2>3. log'[e] = ChildDecision(b[e - len], at)
      BY <1>8
    <2>4. log'[e].item = b[e - len][1]
      BY <2>3 DEF ChildDecision
    <2> QED BY <2>2, <2>4
  <1>10. \A d \in settled : d \in new /\ log'[d].code = "duplicate"
    <2> SUFFICES ASSUME NEW d \in settled
                 PROVE  d \in new /\ log'[d].code = "duplicate"
      OBVIOUS
    <2>1. d \in new /\ b[d - len][2] = "duplicate"
      BY DEF settled, ConfirmsDuplicate
    <2>2. log'[d] = ChildDecision(b[d - len], at)
      BY <1>8, <2>1
    <2>3. log'[d].code = b[d - len][2]
      BY <2>2 DEF ChildDecision
    <2> QED BY <2>1, <2>3
  <1>11. latest' \in [Items -> 0..MaxDecisions]
    <2>1. new \subseteq 0..MaxDecisions
      BY <1>0, <1>3
    <2>2. \A i \in Items : (\E d \in new : b[d - len][1] = i) =>
             (CHOOSE d \in new : b[d - len][1] = i) \in new
      OBVIOUS
    <2> HIDE DEF new
    <2> QED BY <1>0, <1>6, <2>1, <2>2
  <1>12. stage' \in Stages /\ closed' \in BOOLEAN
    <2>1. \/ stage' = "split_children_processed" /\ closed' = TRUE
          \/ stage' = stage /\ closed' = closed
      BY <1>1 DEF caseVars
    <2> QED BY <1>0, <2>1 DEF Stages
  <1>13. item' \in [Items -> ItemStatuses]
    BY <1>0, <1>6 DEF ItemStatuses, TerminalStatuses
  <1>14. job' \in [Reviewers -> SUBSET (1..Len(log'))]
    <2>1. new \ settled \subseteq 1..Len(log') /\ 1..len \subseteq 1..Len(log')
      BY <1>0, <1>3, <1>7
    <2> QED BY <1>0, <1>6, <2>1
  <1>15. new = (Len(log) + 1)..Len(log')
    BY <1>7
  <1>16. action' \in [Ids -> {"none", "pending", "running", "completed",
                              "failed"}]
    BY <1>0, <1>6
  <1>17. \A d \in Ids : \/ action'[d] \in {action[d], "pending"}
                        \/ (d \in new /\ log'[d].code = "duplicate")
    BY <1>6, <1>10
  <1>18. \A i \in Items : item'[i] \in {item[i], "duplicate_resolved"}
    BY <1>6
  <1>19. \A q \in Reviewers : q # r => job'[q] = job[q]
    BY <1>0, <1>6
  <1>20. live' = live \union new
    BY <1>6
  <1>21. Len(log') \in (Len(log) + 1)..MaxDecisions
    BY <1>3, <1>7
  <1>22. \A d \in new : d - len \in 1..n
    BY <1>0, <1>3
  <1>23. \A d \in new : /\ log'[d].item = b[d - len][1]
                        /\ log'[d].subjects = {log'[d].item}
    <2> SUFFICES ASSUME NEW d \in new
                 PROVE  /\ log'[d].item = b[d - len][1]
                        /\ log'[d].subjects = {log'[d].item}
      OBVIOUS
    <2>1. log'[d] = ChildDecision(b[d - len], at)
      BY <1>8
    <2> QED BY <2>1 DEF ChildDecision
  <1>24. \A d, e \in new : b[d - len][1] = b[e - len][1] => d = e
    <2>1. \A x, y \in 1..n : b[x][1] = b[y][1] => x = y
      BY <1>2 DEF Batches
    <2> SUFFICES ASSUME NEW d \in new, NEW e \in new,
                        b[d - len][1] = b[e - len][1]
                 PROVE  d = e
      OBVIOUS
    <2>2. d - len = e - len
      BY <1>22, <2>1
    <2> QED BY <1>0, <1>3, <2>2
  <1>25. \A d \in new : b[d - len][1] \in Items /\ item[b[d - len][1]] # "published"
    <2>1. \A x \in 1..n : b[x][1] \in Items /\ item[b[x][1]] \in OpenStatuses
      BY <1>2 DEF Batches
    <2> QED BY <1>22, <2>1 DEF OpenStatuses
  <1>26. job'[r] \subseteq new
    BY <1>0, <1>6
  <1> HIDE DEF new
  <1>27. \A d \in new : latest'[b[d - len][1]] = d
    <2> SUFFICES ASSUME NEW d \in new PROVE latest'[b[d - len][1]] = d
      OBVIOUS
    <2> DEFINE c == CHOOSE e \in new : b[e - len][1] = b[d - len][1]
    <2>1. c \in new /\ b[c - len][1] = b[d - len][1]
      OBVIOUS
    <2>2. latest'[b[d - len][1]] = c
      BY <1>6, <1>25
    <2> QED BY <1>24, <2>1, <2>2
  <1>28. \A i \in Items : \/ latest'[i] = latest[i]
                          \/ item[i] # "published" /\ latest'[i] \in new
    <2> SUFFICES ASSUME NEW i \in Items
                 PROVE  \/ latest'[i] = latest[i]
                        \/ item[i] # "published" /\ latest'[i] \in new
      OBVIOUS
    <2>1. CASE \E d \in new : b[d - len][1] = i
      BY <1>25, <1>27, <2>1
    <2>2. CASE ~ \E d \in new : b[d - len][1] = i
      BY <1>6, <2>2
    <2> QED BY <2>1, <2>2
  <1>29. \A d \in new : latest'[log'[d].item] = d
    BY <1>23, <1>27
  <1> QED
    BY <1>7, <1>9, <1>11, <1>12, <1>13, <1>14, <1>15, <1>16, <1>17, <1>18,
       <1>19, <1>20, <1>21, <1>23, <1>26, <1>28, <1>29

-----------------------------------------------------------------------------
(* Type correctness.                                                       *)

USE DEF caseVars, decisionVars, itemVars, libbyVars, rupertVars, handlerVars

\* The types hold at the start.
LEMMA TypeInit == Init => TypeOK
  <1>1. FirstStage \in Stages
    BY DEF FirstStage, Stages
  <1>2. <<>> \in Seq(Decision) /\ Len(<<>>) = 0
    OBVIOUS
  <1>3. "awaiting_decision" \in ItemStatuses
    BY DEF ItemStatuses, OpenStatuses
  <1>4. 0 \in 0..MaxDecisions
    OBVIOUS
  <1>5. ASSUME Init PROVE live = {} /\ target = {} /\ published = {}
                          /\ libbyRow = {} /\ libbyFile = {} /\ libbyDone = {}
                          /\ vladFile = {} /\ vladBack = {} /\ log = <<>>
    BY <1>5 DEF Init
  <1>6. ASSUME Init PROVE /\ stage \in Stages /\ closed \in BOOLEAN
                          /\ item \in [Items -> ItemStatuses]
                          /\ latest \in [Items -> 0..MaxDecisions]
    BY <1>1, <1>3, <1>4, <1>6 DEF Init
  <1>7. ASSUME Init
        PROVE  /\ action \in [Ids -> {"none", "pending", "running",
                                      "completed", "failed"}]
               /\ file \in [Ids -> {"none", "queued", "claimed"}]
               /\ run \in [Ids -> [Runners -> {"off", "ready", "staged", "ok",
                                               "failed"}]]
               /\ lock \in Reviewers \union {NoReviewer}
               /\ pc \in [Reviewers -> {"idle", "handoff", "launch", "rupert",
                                         "deliver"}]
               /\ job = [r \in Reviewers |-> {}]
    BY <1>7 DEF Init
  <1>8. ASSUME Init
        PROVE  seen \in [Reviewers -> [stage : Stages \union {"unknown"},
                                       closed : BOOLEAN]]
    BY <1>8 DEF Init, Forgotten
  <1> QED BY <1>2, <1>4, <1>5, <1>6, <1>7, <1>8 DEF TypeOK

(* What a session remembers of the case is a row of it, or nothing. *)
LEMMA SeenType ==
    ASSUME TypeOK
    PROVE  LET rows == [stage : Stages \union {"unknown"}, closed : BOOLEAN]
           IN  /\ Forgotten \in rows
               /\ \A r \in Reviewers : Seen(r) \in rows
               /\ \A s \in Stages, b \in BOOLEAN :
                     [stage |-> s, closed |-> b] \in rows
  <1>1. stage \in Stages /\ closed \in BOOLEAN
    BY DEF TypeOK
  <1>2. \A r \in Reviewers :
           seen[r] \in [stage : Stages \union {"unknown"}, closed : BOOLEAN]
    BY DEF TypeOK
  <1> QED BY <1>1, <1>2 DEF Forgotten, Seen, CaseRow

(* Libby and Vlad change no variable but the items' status and their own,  *)
(* and publish nothing.                                                    *)
LEMMA LibbyStep ==
    ASSUME TypeOK, Libby
    PROVE  /\ UNCHANGED <<stage, closed, log, live, action, target, latest,
                          libbyRow, libbyFile, file, run, published, lock, pc,
                          job, seen>>
           /\ libbyDone' \subseteq (1..Len(log)) \X Items
           /\ vladFile' \subseteq 1..Len(log)
           /\ vladBack' \subseteq 1..Len(log)
           /\ item' \in [Items -> ItemStatuses]
           /\ \A i \in Items : item'[i] # item[i] =>
                 \E d \in 1..Len(log) : \/ LibbyResolves(d, i)
                                       \/ LibbyDisposes(d, i)
                                       \/ LibbyReturns(d, i)
           /\ \A i \in Items : item'[i] = "published" => item[i] = "published"
  <1>0. /\ item \in [Items -> ItemStatuses]
        /\ libbyDone \subseteq (1..Len(log)) \X Items
        /\ vladFile \subseteq 1..Len(log)
        /\ vladBack \subseteq 1..Len(log)
        /\ libbyFile \subseteq 1..Len(log)
    BY DEF TypeOK
  <1>1. ASSUME NEW d \in 1..Len(log), LibbyAsksVlad(d) \/ VladReturns(d)
        PROVE  /\ UNCHANGED <<stage, closed, log, live, action, target, latest,
                              libbyRow, libbyFile, file, run, published, lock,
                              pc, job, seen, item, libbyDone>>
               /\ vladFile' \subseteq 1..Len(log)
               /\ vladBack' \subseteq 1..Len(log)
    BY <1>0, <1>1 DEF LibbyAsksVlad, VladReturns
  <1>2. ASSUME NEW d \in 1..Len(log), NEW j \in Items,
               LibbyResolves(d, j) \/ LibbyDisposes(d, j) \/ LibbyReturns(d, j)
        PROVE  \E status \in ItemStatuses \ {"published"} :
                  LibbyWrites(d, j, status)
    BY <1>2 DEF LibbyResolves, LibbyDisposes, LibbyReturns, Dispositions,
                ItemStatuses, OpenStatuses, TerminalStatuses
  <1>3. ASSUME NEW d \in 1..Len(log), NEW j \in Items,
               NEW status \in ItemStatuses \ {"published"},
               LibbyWrites(d, j, status)
        PROVE  /\ UNCHANGED <<stage, closed, log, live, action, target, latest,
                              libbyRow, libbyFile, file, run, published, lock,
                              pc, job, seen, vladFile, vladBack>>
               /\ libbyDone' \subseteq (1..Len(log)) \X Items
               /\ item' \in [Items -> ItemStatuses]
               /\ \A i \in Items : item'[i] # item[i] => i = j
               /\ item'[j] # "published"
    BY <1>0, <1>3 DEF LibbyWrites
  <1>4. CASE \E d \in 1..Len(log) : LibbyAsksVlad(d) \/ VladReturns(d)
    BY <1>0, <1>1, <1>4
  <1>5. CASE \E d \in 1..Len(log), j \in Items :
                LibbyResolves(d, j) \/ LibbyDisposes(d, j) \/ LibbyReturns(d, j)
    <2>1. PICK d \in 1..Len(log), j \in Items :
             LibbyResolves(d, j) \/ LibbyDisposes(d, j) \/ LibbyReturns(d, j)
      BY <1>5
    <2>2. PICK status \in ItemStatuses \ {"published"} : LibbyWrites(d, j, status)
      BY <1>2, <2>1
    <2> QED BY <1>0, <1>3, <2>1, <2>2
  <1> QED BY <1>4, <1>5 DEF Libby

\* The types are preserved by every step.
LEMMA TypeStep == TypeOK /\ [Next]_vars => TypeOK'
  <1> SUFFICES ASSUME TypeOK, [Next]_vars PROVE TypeOK'
    OBVIOUS
  <1>0. /\ log \in Seq(Decision) /\ Len(log) \in Nat
        /\ 1..Len(log) \subseteq Ids
    BY DEF TypeOK, Ids
  <1>1. ASSUME NEW r \in Reviewers, RecordDecision(r) PROVE TypeOK'
    <2>1. /\ log' \in Seq(Decision)
          /\ Len(log') = Len(log) + 1 /\ Len(log') \in Ids
          /\ stage' \in Stages
      BY <1>1, RecordStep
    <2>2. 1..Len(log) \subseteq 1..Len(log')
      BY <1>0, <2>1
    <2>3. seen' \in [Reviewers -> [stage : Stages \union {"unknown"},
                                  closed : BOOLEAN]]
      BY <1>1, <2>1, SeenType DEF RecordDecision, TypeOK
    <2> QED BY <1>0, <1>1, <2>1, <2>2, <2>3 DEF RecordDecision, TypeOK, Ids
  <1>2. ASSUME NEW r \in Reviewers, ProcessChildren(r) PROVE TypeOK'
    <2>1. /\ log' \in Seq(Decision)
          /\ Len(log') \in (Len(log) + 1)..MaxDecisions
          /\ live' = live \union ((Len(log) + 1)..Len(log'))
          /\ action' \in [Ids -> {"none", "pending", "running", "completed",
                                  "failed"}]
          /\ item' \in [Items -> ItemStatuses]
          /\ latest' \in [Items -> 0..MaxDecisions]
          /\ job' \in [Reviewers -> SUBSET (1..Len(log'))]
          /\ stage' \in Stages
          /\ closed' \in BOOLEAN
      BY <1>2, BatchStep
    <2>2. 1..Len(log) \subseteq 1..Len(log') /\ Len(log') \in 0..MaxDecisions
          /\ (Len(log) + 1)..Len(log') \subseteq 1..Len(log')
      BY <1>0, <2>1
    <2>3. /\ UNCHANGED <<target, libbyVars, rupertVars, lock>>
          /\ pc' = [pc EXCEPT ![r] = "handoff"]
          /\ seen' = [seen EXCEPT ![r] = [stage |-> stage', closed |-> closed']]
      BY <1>2 DEF ProcessChildren, CaseRow
    <2>4. seen' \in [Reviewers -> [stage : Stages \union {"unknown"},
                                  closed : BOOLEAN]]
      BY <2>1, <2>3, SeenType DEF TypeOK
    <2> QED BY <2>1, <2>2, <2>3, <2>4 DEF TypeOK
  <1>3. ASSUME NEW r \in Reviewers, EndRequest(r) PROVE TypeOK'
    BY <1>3, SeenType DEF EndRequest, TypeOK, Released
  <1>4. ASSUME NEW r \in Reviewers, RequestDies(r) PROVE TypeOK'
    BY <1>4, SeenType DEF RequestDies, TypeOK, Released
  <1>5. ASSUME NEW r \in Reviewers, NEW d \in 1..Len(log), RefuseHandoff(r, d)
        PROVE  TypeOK'
    BY <1>0, <1>5, SeenType DEF RefuseHandoff, TypeOK
  <1>6. ASSUME NEW r \in Reviewers, NEW d \in 1..Len(log), NothingApproved(r, d)
        PROVE  TypeOK'
    BY <1>0, <1>6, SeenType DEF NothingApproved, TypeOK, FailAction, Released
  <1>7. ASSUME NEW r \in Reviewers, NEW d \in 1..Len(log), DivertDuplicate(r, d)
        PROVE  TypeOK'
    <2>1. stage' \in Stages
      BY <1>7 DEF DivertDuplicate, Stages
    <2>2. item' \in [Items -> ItemStatuses]
      BY <1>7 DEF DivertDuplicate, TypeOK, ItemStatuses
    <2>3. seen' \in [Reviewers -> [stage : Stages \union {"unknown"},
                                  closed : BOOLEAN]]
      BY <1>7, <2>1, SeenType DEF DivertDuplicate, TypeOK
    <2>4. closed' \in BOOLEAN
      BY <1>7 DEF DivertDuplicate
    <2> QED BY <1>0, <1>7, <2>1, <2>2, <2>3, <2>4 DEF DivertDuplicate, TypeOK
  <1>8. ASSUME NEW r \in Reviewers, NEW d \in 1..Len(log), StartRelease(r, d)
        PROVE  TypeOK'
    <2>1. /\ \/ /\ target' = target \union {d}
                /\ action' = [action EXCEPT ![d] = "running"]
                /\ lock' = NoReviewer
             \/ lock' = r /\ UNCHANGED <<target, action>>
          /\ pc' = [pc EXCEPT ![r] = "launch"]
          /\ UNCHANGED <<caseVars, log, live, itemVars, libbyVars, rupertVars,
                         job>>
          /\ seen' = [seen EXCEPT ![r] = Seen(r)]
      BY <1>8 DEF StartRelease
    <2>2. seen' \in [Reviewers -> [stage : Stages \union {"unknown"},
                                  closed : BOOLEAN]]
      BY <2>1, SeenType DEF TypeOK
    <2>3. UNCHANGED <<stage, closed, log, live, item, latest, libbyRow, libbyFile,
                      libbyDone, vladFile, vladBack, file, run,
                      published, job>>
      BY <2>1
    <2>4. /\ target' \subseteq 1..Len(log)
          /\ action' \in [Ids -> {"none", "pending", "running", "completed",
                                  "failed"}]
          /\ lock' \in Reviewers \union {NoReviewer}
          /\ pc' \in [Reviewers -> {"idle", "handoff", "launch", "rupert",
                                    "deliver"}]
      <3>1. /\ target \subseteq 1..Len(log)
            /\ action \in [Ids -> {"none", "pending", "running", "completed",
                                   "failed"}]
            /\ pc \in [Reviewers -> {"idle", "handoff", "launch", "rupert",
                                     "deliver"}]
        BY DEF TypeOK
      <3>2. target' \subseteq 1..Len(log) /\ lock' \in Reviewers \union {NoReviewer}
        BY <2>1, <3>1
      <3>3. pc' \in [Reviewers -> {"idle", "handoff", "launch", "rupert",
                                  "deliver"}]
        BY <2>1, <3>1
      <3>4. action' \in [Ids -> {"none", "pending", "running", "completed",
                                "failed"}]
        BY <1>0, <2>1, <3>1
      <3> QED BY <3>2, <3>3, <3>4
    <2> QED BY <2>2, <2>3, <2>4 DEF TypeOK
  <1>9. ASSUME NEW r \in Reviewers, NEW d \in 1..Len(log), Launch(r, d)
        PROVE  TypeOK'
    BY <1>0, <1>9 DEF Launch, TypeOK
  <1>10. ASSUME NEW r \in Reviewers, NEW d \in 1..Len(log), FinishHandoff(r, d)
        PROVE  TypeOK'
    <2>1. stage' \in Stages /\ closed' \in BOOLEAN
      BY <1>10 DEF FinishHandoff, Stages
    <2>2. seen' \in [Reviewers -> [stage : Stages \union {"unknown"},
                                  closed : BOOLEAN]]
      BY <1>10, <2>1, SeenType DEF FinishHandoff, TypeOK, CaseRow
    <2>3. item' \in [Items -> ItemStatuses]
      BY <1>10 DEF FinishHandoff, TypeOK, ItemStatuses, TerminalStatuses
    <2>4. /\ target' \subseteq 1..Len(log)
          /\ action' \in [Ids -> {"none", "pending", "running", "completed",
                                  "failed"}]
          /\ lock' \in Reviewers \union {NoReviewer}
          /\ pc' \in [Reviewers -> {"idle", "handoff", "launch", "rupert",
                                    "deliver"}]
          /\ job' \in [Reviewers -> SUBSET (1..Len(log))]
      BY <1>0, <1>10 DEF FinishHandoff, TypeOK, Released
    <2> QED BY <1>10, <2>1, <2>2, <2>3, <2>4 DEF FinishHandoff, TypeOK
  <1>11. ASSUME NEW r \in Reviewers, NEW d \in 1..Len(log), RupertErrors(r, d)
        PROVE  TypeOK'
    BY <1>0, <1>11, SeenType DEF RupertErrors, TypeOK, FailAction, Released
  <1>12. ASSUME NEW r \in Reviewers, NEW d \in 1..Len(log), RupertTimesOut(r, d)
        PROVE  TypeOK'
    BY <1>0, <1>12, SeenType DEF RupertTimesOut, TypeOK, FailAction, Released
  <1>13. ASSUME NEW r \in Reviewers, NEW d \in 1..Len(log), QueueFollowUp(r, d)
        PROVE  TypeOK'
    BY <1>0, <1>13, SeenType DEF QueueFollowUp, TypeOK, Released
  <1>14. ASSUME NEW r \in Reviewers, NEW d \in 1..Len(log), WriteLibbyFile(r, d)
        PROVE  TypeOK'
    BY <1>0, <1>14 DEF WriteLibbyFile, TypeOK
  <1>21. ASSUME NEW r \in Reviewers, NEW d \in 1..Len(log), WriteFails(r, d)
        PROVE  TypeOK'
    BY <1>0, <1>21, SeenType DEF WriteFails, TypeOK, FailAction, Released
  <1>15. ASSUME NEW d \in 1..Len(log), WorkerLists(d) PROVE TypeOK'
    BY <1>0, <1>15 DEF WorkerLists, TypeOK
  <1>16. ASSUME NEW d \in 1..Len(log), NEW k \in Runners, RunnerStages(d, k)
        PROVE  TypeOK'
    BY <1>0, <1>16 DEF RunnerStages, TypeOK
  <1>17. ASSUME NEW d \in 1..Len(log), NEW k \in Runners, RunnerPublishes(d, k)
        PROVE  TypeOK'
    BY <1>0, <1>17 DEF RunnerPublishes, TypeOK
  <1>18. ASSUME NEW d \in 1..Len(log), NEW k \in Runners, RunnerFails(d, k)
        PROVE  TypeOK'
    BY <1>0, <1>18 DEF RunnerFails, TypeOK
  <1>19. ASSUME Libby PROVE TypeOK'
    BY <1>19, LibbyStep DEF TypeOK
  <1>20. CASE UNCHANGED vars
    BY <1>20 DEF TypeOK, vars
  <1> QED
    BY <1>1, <1>2, <1>3, <1>4, <1>5, <1>6, <1>7, <1>8, <1>9, <1>10,
       <1>11, <1>12, <1>13, <1>14, <1>15, <1>16, <1>17, <1>18,
       <1>19, <1>20, <1>21
    DEF Next, Handler, Rupert

(* The state always has its shape: decisions, targets, pages and Libby's   *)
(* work only ever name decisions that have been recorded.                  *)
THEOREM TypeCorrect == Spec => []TypeOK
  <1> QED BY TypeInit, TypeStep, PTL DEF Spec

-----------------------------------------------------------------------------
(* Which steps touch what.                                                 *)

(* Recorded decisions are never changed or forgotten. *)
LEMMA LogStep ==
    ASSUME TypeOK, [Next]_vars
    PROVE  /\ Len(log) \in Nat /\ Len(log') \in Nat
           /\ Len(log) =< Len(log')
           /\ 1..Len(log) \subseteq 1..Len(log')
           /\ \A e \in 1..Len(log) : log'[e] = log[e]
           /\ \/ UNCHANGED <<log, live>>
              \/ \E r \in Reviewers : RecordDecision(r) \/ ProcessChildren(r)
  <1>0. Len(log) \in Nat
    BY DEF TypeOK
  <1>1. ASSUME NEW r \in Reviewers, RecordDecision(r)
        PROVE  /\ Len(log') = Len(log) + 1
               /\ \A e \in 1..Len(log) : log'[e] = log[e]
    BY <1>1, RecordStep
  <1>2. ASSUME NEW r \in Reviewers, ProcessChildren(r)
        PROVE  /\ Len(log') \in (Len(log) + 1)..MaxDecisions
               /\ \A e \in 1..Len(log) : log'[e] = log[e]
    BY <1>2, BatchStep
  <1>3. \/ UNCHANGED <<log, live>>
        \/ \E r \in Reviewers : RecordDecision(r) \/ ProcessChildren(r)
    <2>3. ASSUME NEW r \in Reviewers, EndRequest(r)
          PROVE  UNCHANGED <<log, live>>
      BY <2>3 DEF EndRequest
    <2>4. ASSUME NEW r \in Reviewers, RequestDies(r)
          PROVE  UNCHANGED <<log, live>>
      BY <2>4 DEF RequestDies
    <2>5. ASSUME NEW r \in Reviewers, NEW d \in 1..Len(log), RefuseHandoff(r, d)
          PROVE  UNCHANGED <<log, live>>
      BY <2>5 DEF RefuseHandoff
    <2>6. ASSUME NEW r \in Reviewers, NEW d \in 1..Len(log), NothingApproved(r, d)
          PROVE  UNCHANGED <<log, live>>
      BY <2>6 DEF NothingApproved, FailAction
    <2>7. ASSUME NEW r \in Reviewers, NEW d \in 1..Len(log), DivertDuplicate(r, d)
          PROVE  UNCHANGED <<log, live>>
      BY <2>7 DEF DivertDuplicate
    <2>8. ASSUME NEW r \in Reviewers, NEW d \in 1..Len(log), StartRelease(r, d)
          PROVE  UNCHANGED <<log, live>>
      BY <2>8 DEF StartRelease
    <2>9. ASSUME NEW r \in Reviewers, NEW d \in 1..Len(log), Launch(r, d)
          PROVE  UNCHANGED <<log, live>>
      BY <2>9 DEF Launch
    <2>10. ASSUME NEW r \in Reviewers, NEW d \in 1..Len(log), FinishHandoff(r, d)
          PROVE  UNCHANGED <<log, live>>
      BY <2>10 DEF FinishHandoff
    <2>11. ASSUME NEW r \in Reviewers, NEW d \in 1..Len(log), RupertErrors(r, d)
          PROVE  UNCHANGED <<log, live>>
      BY <2>11 DEF RupertErrors, FailAction
    <2>12. ASSUME NEW r \in Reviewers, NEW d \in 1..Len(log), RupertTimesOut(r, d)
          PROVE  UNCHANGED <<log, live>>
      BY <2>12 DEF RupertTimesOut, FailAction
    <2>13. ASSUME NEW r \in Reviewers, NEW d \in 1..Len(log), QueueFollowUp(r, d)
          PROVE  UNCHANGED <<log, live>>
      BY <2>13 DEF QueueFollowUp
    <2>14. ASSUME NEW r \in Reviewers, NEW d \in 1..Len(log), WriteLibbyFile(r, d)
          PROVE  UNCHANGED <<log, live>>
      BY <2>14 DEF WriteLibbyFile
    <2>21. ASSUME NEW r \in Reviewers, NEW d \in 1..Len(log), WriteFails(r, d)
          PROVE  UNCHANGED <<log, live>>
      BY <2>21 DEF WriteFails, FailAction
    <2>15. ASSUME NEW d \in 1..Len(log), WorkerLists(d)
          PROVE  UNCHANGED <<log, live>>
      BY <2>15 DEF WorkerLists
    <2>16. ASSUME NEW d \in 1..Len(log), NEW k \in Runners, RunnerStages(d, k)
          PROVE  UNCHANGED <<log, live>>
      BY <2>16 DEF RunnerStages
    <2>17. ASSUME NEW d \in 1..Len(log), NEW k \in Runners, RunnerPublishes(d, k)
          PROVE  UNCHANGED <<log, live>>
      BY <2>17 DEF RunnerPublishes
    <2>18. ASSUME NEW d \in 1..Len(log), NEW k \in Runners, RunnerFails(d, k)
          PROVE  UNCHANGED <<log, live>>
      BY <2>18 DEF RunnerFails
    <2>19. ASSUME Libby PROVE UNCHANGED <<log, live>>
      BY <2>19, LibbyStep
    <2> QED
      BY <2>3, <2>4, <2>5, <2>6, <2>7, <2>8, <2>9, <2>10, <2>11,
         <2>12, <2>13, <2>14, <2>15, <2>16, <2>17, <2>18, <2>19, <2>21
      DEF Next, Handler, Rupert, vars
  <1> QED BY <1>0, <1>1, <1>2, <1>3

(* The steps behind each change of the variables the invariants relate. *)
LEMMA Changes ==
    ASSUME TypeOK, [Next]_vars
    PROVE
    /\ \/ UNCHANGED published
       \/ \E d \in 1..Len(log), k \in Runners : RunnerPublishes(d, k)
    /\ \/ UNCHANGED target
       \/ \E r \in Reviewers, d \in 1..Len(log) :
             StartRelease(r, d) \/ FinishHandoff(r, d)
    /\ \/ UNCHANGED <<libbyRow, libbyFile>>
       \/ \E r \in Reviewers, d \in 1..Len(log) :
             \/ DivertDuplicate(r, d) \/ QueueFollowUp(r, d)
             \/ WriteLibbyFile(r, d)
    /\ \/ UNCHANGED action
       \/ \E r \in Reviewers : RecordDecision(r) \/ ProcessChildren(r)
       \/ \E r \in Reviewers, d \in 1..Len(log) :
             \/ FailAction(r, d) \/ DivertDuplicate(r, d) \/ StartRelease(r, d)
             \/ FinishHandoff(r, d) \/ QueueFollowUp(r, d)
    /\ \/ UNCHANGED item
       \/ \E r \in Reviewers : ProcessChildren(r)
       \/ \E r \in Reviewers, d \in 1..Len(log) :
             DivertDuplicate(r, d) \/ FinishHandoff(r, d)
       \/ Libby
    /\ \/ UNCHANGED <<file, run>>
       \/ \E r \in Reviewers, d \in 1..Len(log) :
             Launch(r, d) \/ RupertTimesOut(r, d)
       \/ \E d \in 1..Len(log) : WorkerLists(d)
       \/ \E d \in 1..Len(log), k \in Runners :
             RunnerStages(d, k) \/ RunnerPublishes(d, k) \/ RunnerFails(d, k)
  <1>1. ASSUME NEW r \in Reviewers, RecordDecision(r)
        PROVE  UNCHANGED <<published, target, libbyRow, libbyFile, item, file, run>>
    BY <1>1 DEF RecordDecision
  <1>2. ASSUME NEW r \in Reviewers, ProcessChildren(r)
        PROVE  UNCHANGED <<published, target, libbyRow, libbyFile, file, run>>
    BY <1>2 DEF ProcessChildren
  <1>3. ASSUME NEW r \in Reviewers, EndRequest(r)
        PROVE  UNCHANGED <<published, target, libbyRow, libbyFile, action, item, file, run>>
    BY <1>3 DEF EndRequest
  <1>4. ASSUME NEW r \in Reviewers, RequestDies(r)
        PROVE  UNCHANGED <<published, target, libbyRow, libbyFile, action, item, file, run>>
    BY <1>4 DEF RequestDies
  <1>5. ASSUME NEW r \in Reviewers, NEW d \in 1..Len(log), RefuseHandoff(r, d)
        PROVE  UNCHANGED <<published, target, libbyRow, libbyFile, action, item, file, run>>
    BY <1>5 DEF RefuseHandoff
  <1>6. ASSUME NEW r \in Reviewers, NEW d \in 1..Len(log), NothingApproved(r, d)
        PROVE  /\ FailAction(r, d)
               /\ UNCHANGED <<published, target, libbyRow, libbyFile, item, file, run>>
    BY <1>6 DEF NothingApproved, FailAction
  <1>7. ASSUME NEW r \in Reviewers, NEW d \in 1..Len(log), DivertDuplicate(r, d)
        PROVE  UNCHANGED <<published, target, file, run>>
    BY <1>7 DEF DivertDuplicate
  <1>8. ASSUME NEW r \in Reviewers, NEW d \in 1..Len(log), StartRelease(r, d)
        PROVE  UNCHANGED <<published, libbyRow, libbyFile, item, file, run>>
    BY <1>8 DEF StartRelease
  <1>9. ASSUME NEW r \in Reviewers, NEW d \in 1..Len(log), Launch(r, d)
        PROVE  UNCHANGED <<published, target, libbyRow, libbyFile, action, item>>
    BY <1>9 DEF Launch
  <1>10. ASSUME NEW r \in Reviewers, NEW d \in 1..Len(log), FinishHandoff(r, d)
        PROVE  UNCHANGED <<published, libbyRow, libbyFile, file, run>>
    BY <1>10 DEF FinishHandoff
  <1>11. ASSUME NEW r \in Reviewers, NEW d \in 1..Len(log), RupertErrors(r, d)
        PROVE  /\ FailAction(r, d)
               /\ UNCHANGED <<published, target, libbyRow, libbyFile, item, file, run>>
    BY <1>11 DEF RupertErrors, FailAction
  <1>12. ASSUME NEW r \in Reviewers, NEW d \in 1..Len(log), RupertTimesOut(r, d)
        PROVE  /\ FailAction(r, d)
               /\ UNCHANGED <<published, target, libbyRow, libbyFile, item>>
    BY <1>12 DEF RupertTimesOut, FailAction
  <1>13. ASSUME NEW r \in Reviewers, NEW d \in 1..Len(log), QueueFollowUp(r, d)
        PROVE  UNCHANGED <<published, target, item, file, run>>
    BY <1>13 DEF QueueFollowUp
  <1>14. ASSUME NEW r \in Reviewers, NEW d \in 1..Len(log), WriteLibbyFile(r, d)
        PROVE  UNCHANGED <<published, target, action, item, file, run>>
    BY <1>14 DEF WriteLibbyFile
  <1>21. ASSUME NEW r \in Reviewers, NEW d \in 1..Len(log), WriteFails(r, d)
        PROVE  /\ FailAction(r, d)
               /\ UNCHANGED <<published, target, libbyRow, libbyFile, item, file, run>>
    BY <1>21 DEF WriteFails, FailAction
  <1>15. ASSUME NEW d \in 1..Len(log), WorkerLists(d)
        PROVE  UNCHANGED <<published, target, libbyRow, libbyFile, action, item>>
    BY <1>15 DEF WorkerLists
  <1>16. ASSUME NEW d \in 1..Len(log), NEW k \in Runners, RunnerStages(d, k)
        PROVE  UNCHANGED <<published, target, libbyRow, libbyFile, action, item>>
    BY <1>16 DEF RunnerStages
  <1>17. ASSUME NEW d \in 1..Len(log), NEW k \in Runners, RunnerPublishes(d, k)
        PROVE  UNCHANGED <<target, libbyRow, libbyFile, action, item>>
    BY <1>17 DEF RunnerPublishes
  <1>18. ASSUME NEW d \in 1..Len(log), NEW k \in Runners, RunnerFails(d, k)
        PROVE  UNCHANGED <<published, target, libbyRow, libbyFile, action, item>>
    BY <1>18 DEF RunnerFails
  <1>19. ASSUME Libby
        PROVE  UNCHANGED <<published, target, libbyRow, libbyFile, action, file, run>>
    BY <1>19, LibbyStep
  <1>20. CASE UNCHANGED vars
    BY <1>20 DEF vars
  <1> QED
    BY <1>1, <1>2, <1>3, <1>4, <1>5, <1>6, <1>7, <1>8, <1>9, <1>10, <1>11,
       <1>12, <1>13, <1>14, <1>15, <1>16, <1>17, <1>18, <1>19, <1>20, <1>21
    DEF Next, Handler, Rupert

-----------------------------------------------------------------------------
(* Runners, files and pages.                                               *)

(* What a runner does leaves every other runner and decision alone. *)
LEMMA RunStep ==
    ASSUME TypeOK, [Next]_vars, NEW e \in Ids, NEW j \in Runners
    PROVE  /\ run'[e][j] # "off" => run[e][j] # "off" \/ file'[e] # "none"
           /\ file[e] # "none" => file'[e] # "none"
           /\ run'[e][j] = "ok" => run[e][j] = "ok" \/ e \in published'
           /\ file'[e] # "none" =>
                 \/ file[e] # "none"
                 \/ \E r \in Reviewers : Launch(r, e)
                 \/ \E k \in Runners : RunnerStages(e, k)
           /\ e \notin 1..Len(log) => file'[e] = file[e] /\ run'[e] = run[e]
  <1>0. 1..Len(log) \subseteq Ids
    BY DEF TypeOK, Ids
  <1>1. ASSUME NEW r \in Reviewers, NEW d \in 1..Len(log), Launch(r, d)
        PROVE  /\ file' = [file EXCEPT ![d] = "queued"]
               /\ run' = [run EXCEPT ![d]["child"] = "ready"]
    BY <1>1 DEF Launch
  <1>2. ASSUME NEW r \in Reviewers, NEW d \in 1..Len(log), RupertTimesOut(r, d)
        PROVE  /\ run' = [run EXCEPT ![d]["child"] =
                             IF @ = "ok" THEN "ok" ELSE "failed"]
               /\ run[d]["child"] # "off"
               /\ file' = file
    BY <1>2 DEF RupertTimesOut
  <1>3. ASSUME NEW d \in 1..Len(log), WorkerLists(d)
        PROVE  /\ run' = [run EXCEPT ![d]["worker"] = "ready"]
               /\ file' = file
               /\ file[d] # "none"
    BY <1>3 DEF WorkerLists
  <1>4. ASSUME NEW d \in 1..Len(log), NEW k \in Runners, RunnerStages(d, k)
        PROVE  /\ run' = [run EXCEPT ![d][k] = "staged"]
               /\ file' = [file EXCEPT ![d] = "claimed"]
    BY <1>4 DEF RunnerStages
  <1>5. ASSUME NEW d \in 1..Len(log), NEW k \in Runners, RunnerPublishes(d, k)
        PROVE  /\ run' = [run EXCEPT ![d][k] = "ok"]
               /\ file' = file
               /\ run[d][k] # "off"
               /\ d \in published'
    BY <1>5 DEF RunnerPublishes
  <1>6. ASSUME NEW d \in 1..Len(log), NEW k \in Runners, RunnerFails(d, k)
        PROVE  /\ run' = [run EXCEPT ![d][k] = "failed"]
               /\ file' = file
               /\ run[d][k] # "off"
    BY <1>6 DEF RunnerFails
  <1>7. CASE UNCHANGED <<file, run>>
    BY <1>7
  <1>8. /\ file \in [Ids -> {"none", "queued", "claimed"}]
        /\ run \in [Ids -> [Runners -> {"off", "ready", "staged", "ok",
                                        "failed"}]]
    BY DEF TypeOK
  <1>9. CASE \E r \in Reviewers, d \in 1..Len(log) : Launch(r, d)
    BY <1>0, <1>1, <1>8, <1>9
  <1>10. CASE \E r \in Reviewers, d \in 1..Len(log) : RupertTimesOut(r, d)
    BY <1>0, <1>2, <1>8, <1>10
  <1>11. CASE \E d \in 1..Len(log) : WorkerLists(d)
    BY <1>0, <1>3, <1>8, <1>11
  <1>12. CASE \E d \in 1..Len(log), k \in Runners : RunnerStages(d, k)
    BY <1>0, <1>4, <1>8, <1>12
  <1>13. CASE \E d \in 1..Len(log), k \in Runners : RunnerPublishes(d, k)
    BY <1>0, <1>5, <1>8, <1>13
  <1>14. CASE \E d \in 1..Len(log), k \in Runners : RunnerFails(d, k)
    BY <1>0, <1>6, <1>8, <1>14
  <1> QED
    BY <1>7, <1>9, <1>10, <1>11, <1>12, <1>13, <1>14, Changes

(* Pages are only ever added, each for an approval in force that owns a    *)
(* durable target.                                                         *)
LEMMA PublishedStep ==
    ASSUME TypeOK, [Next]_vars
    PROVE  /\ published \subseteq published'
           /\ \A d \in published' \ published :
                 d \in 1..Len(log) /\ DurablyApproved(d)
  <1>1. CASE UNCHANGED published
    BY <1>1
  <1>2. CASE \E d \in 1..Len(log), k \in Runners : RunnerPublishes(d, k)
    BY <1>2 DEF RunnerPublishes
  <1> QED BY <1>1, <1>2, Changes

(* Targets are only ever added: to a child's decision before Rupert runs,  *)
(* or to a decision whose subprocess has reported success.                 *)
LEMMA TargetStep ==
    ASSUME TypeOK, [Next]_vars
    PROVE  /\ target \subseteq target'
           /\ \A d \in target' \ target :
                 /\ d \in 1..Len(log)
                 /\ ~Whole(d) \/ run[d]["child"] = "ok"
  <1>1. ASSUME NEW r \in Reviewers, NEW d \in 1..Len(log), StartRelease(r, d)
        PROVE  \/ ~Whole(d) /\ target' = target \union {d}
               \/ UNCHANGED target
    BY <1>1 DEF StartRelease, CommitsFirst
  <1>2. ASSUME NEW r \in Reviewers, NEW d \in 1..Len(log), FinishHandoff(r, d)
        PROVE  run[d]["child"] = "ok" /\ target' = target \union {d}
    BY <1>2 DEF FinishHandoff, RupertDelivered
  <1> QED BY <1>1, <1>2, Changes

\* No step writes anything about an id that no decision has yet.
LEMMA FreshStep ==
    ASSUME TypeOK, FreshIdsAreBlank, [Next]_vars
    PROVE  FreshIdsAreBlank'
  <1> SUFFICES ASSUME NEW d \in Ids, d > Len(log')
               PROVE  /\ action'[d] = "none"
                      /\ file'[d] = "none"
                      /\ \A k \in Runners : run'[d][k] = "off"
    BY DEF FreshIdsAreBlank
  <1>1. /\ Len(log) \in Nat /\ Len(log') \in Nat /\ Len(log) =< Len(log')
        /\ d \in Nat
    BY LogStep DEF Ids
  <1>2. d > Len(log) /\ d \notin 1..Len(log)
    BY <1>1
  <1>3. /\ action[d] = "none" /\ file[d] = "none"
        /\ \A k \in Runners : run[d][k] = "off"
    BY <1>2 DEF FreshIdsAreBlank
  <1>4. file'[d] = file[d] /\ run'[d] = run[d]
    BY <1>2, RunStep
  <1>5. action'[d] = action[d]
    <2>0. action \in [Ids -> {"none", "pending", "running", "completed",
                              "failed"}]
      BY DEF TypeOK
    <2>1. ASSUME NEW r \in Reviewers, RecordDecision(r)
          PROVE  action'[d] = action[d]
      <3>1. action' = [action EXCEPT ![Len(log) + 1] = "pending"]
        BY <2>1 DEF RecordDecision
      <3>2. Len(log') = Len(log) + 1
        BY <2>1, RecordStep
      <3> QED BY <1>1, <2>0, <3>1, <3>2
    <2>2. ASSUME NEW r \in Reviewers, ProcessChildren(r)
          PROVE  action'[d] = action[d]
      <3>1. PICK b \in Batches :
              \E settled \in SUBSET ((Len(log) + 1)..(Len(log) + Len(b))) :
                /\ Len(log') = Len(log) + Len(b)
                /\ action' = [e \in Ids |->
                      IF e \in settled THEN "completed"
                      ELSE IF e \in (Len(log) + 1)..(Len(log) + Len(b))
                           THEN "pending" ELSE action[e]]
        <4>1. PICK b \in Batches, at \in Now :
                LET n       == Len(b)
                    new     == (Len(log) + 1)..(Len(log) + n)
                    of(e)   == b[e - Len(log)]
                    settled == {e \in new : ConfirmsDuplicate(of(e))}
                IN
                /\ log' = log \o [x \in 1..n |-> ChildDecision(b[x], at)]
                /\ action' = [e \in Ids |-> IF e \in settled THEN "completed"
                                            ELSE IF e \in new THEN "pending"
                                            ELSE action[e]]
          BY <2>2 DEF ProcessChildren
        <4>2. Len(b) \in Nat
          BY <1>1 DEF Batches
        <4>3. Len(log') = Len(log) + Len(b)
          BY <4>1, <4>2 DEF TypeOK
        <4> WITNESS b \in Batches
        <4> WITNESS {e \in (Len(log) + 1)..(Len(log) + Len(b)) :
                       ConfirmsDuplicate(b[e - Len(log)])}
                    \in SUBSET ((Len(log) + 1)..(Len(log) + Len(b)))
        <4> QED BY <4>1, <4>3
      <3>2. d \notin (Len(log) + 1)..(Len(log) + Len(b))
        BY <1>1, <3>1
      <3> QED BY <3>1, <3>2
    <2>3. ASSUME NEW r \in Reviewers, NEW e \in 1..Len(log),
                 \/ FailAction(r, e) \/ DivertDuplicate(r, e)
                 \/ StartRelease(r, e) \/ FinishHandoff(r, e)
                 \/ QueueFollowUp(r, e)
          PROVE  action'[d] = action[d]
      BY <1>2, <2>0, <2>3 DEF FailAction, DivertDuplicate, StartRelease,
                              FinishHandoff, QueueFollowUp
    <2> QED BY <2>1, <2>2, <2>3, Changes
  <1> QED BY <1>3, <1>4, <1>5

\* A runner starts only where its file was written.
LEMMA FilesStep ==
    ASSUME TypeOK, FreshIdsAreBlank, RunnersHaveFiles, [Next]_vars
    PROVE  RunnersHaveFiles'
  <1> SUFFICES ASSUME NEW d \in 1..Len(log'), NEW k \in Runners,
                      run'[d][k] # "off"
               PROVE  file'[d] # "none"
    BY DEF RunnersHaveFiles
  <1>0. TypeOK' /\ d \in Ids
    BY TypeStep DEF TypeOK, Ids
  <1>1. \/ run[d][k] # "off"
        \/ file'[d] # "none"
    BY <1>0, RunStep
  <1>2. ASSUME run[d][k] # "off" PROVE file[d] # "none"
    <2>1. d \in 1..Len(log)
      BY <1>0, <1>2, LogStep DEF FreshIdsAreBlank
    <2> QED BY <2>1, <1>2 DEF RunnersHaveFiles
  <1> QED BY <1>0, <1>1, <1>2, RunStep

\* A runner reports success only after it has published.
LEMMA SuccessStep ==
    ASSUME TypeOK, FreshIdsAreBlank, SuccessIsPublished, [Next]_vars
    PROVE  SuccessIsPublished'
  <1> SUFFICES ASSUME NEW d \in 1..Len(log'), NEW k \in Runners,
                      run'[d][k] = "ok"
               PROVE  d \in published'
    BY DEF SuccessIsPublished
  <1>0. TypeOK' /\ d \in Ids
    BY TypeStep DEF TypeOK, Ids
  <1>1. ASSUME run[d][k] = "ok" PROVE d \in published
    <2>1. d \in 1..Len(log)
      BY <1>0, <1>1, LogStep DEF FreshIdsAreBlank
    <2> QED BY <2>1, <1>1 DEF SuccessIsPublished
  <1> QED BY <1>0, <1>1, RunStep, PublishedStep

-----------------------------------------------------------------------------
(* Whole-case approvals and the catalogue.                                 *)

LEMMA NoTargetStep ==
    ASSUME TypeOK, SuccessIsPublished, WholeHasNoTarget,
           WholeApprovalNeverPublishes, [Next]_vars
    PROVE  WholeHasNoTarget'
  <1> SUFFICES ASSUME NEW d \in target' PROVE ~Whole(d)'
    BY DEF WholeHasNoTarget
  <1>1. CASE d \in target
    <2>1. d \in 1..Len(log) /\ ~Whole(d)
      BY <1>1 DEF TypeOK, WholeHasNoTarget
    <2> QED BY <2>1, LogStep DEF Whole
  <1>2. CASE d \notin target
    <2>1. d \in 1..Len(log) /\ (~Whole(d) \/ run[d]["child"] = "ok")
      BY <1>2, TargetStep
    <2>2. "child" \in Runners
      OBVIOUS
    <2>3. ~Whole(d)
      BY <2>1, <2>2 DEF SuccessIsPublished, WholeApprovalNeverPublishes
    <2> QED BY <2>1, <2>3, LogStep DEF Whole
  <1> QED BY <1>1, <1>2

\* A whole-case decision has no durable target to publish.
LEMMA NeverPublishesStep ==
    ASSUME TypeOK, WholeHasNoTarget, WholeApprovalNeverPublishes, [Next]_vars
    PROVE  WholeApprovalNeverPublishes'
  <1> SUFFICES ASSUME NEW d \in published' PROVE ~Whole(d)'
    BY DEF WholeApprovalNeverPublishes
  <1>1. d \in 1..Len(log) /\ ~Whole(d)
    BY PublishedStep DEF TypeOK, DurablyApproved, WholeHasNoTarget,
                         WholeApprovalNeverPublishes
  <1> QED BY <1>1, LogStep DEF Whole

-----------------------------------------------------------------------------
(* The handlers: what a step of one leaves of the others.                  *)

(* The decision a handler is at is unique. *)
LEMMA OneAtATime ==
    ASSUME TypeOK, NEW r \in Reviewers, NEW d, NEW e, Next1(r, d), Next1(r, e)
    PROVE  d = e
  <1>1. d \in Nat /\ e \in Nat
    BY DEF TypeOK, Next1
  <1> QED BY <1>1 DEF Next1

(* A handler that is waiting for Rupert or about to write a file is only   *)
(* moved by its own steps, and only StartRelease, DivertDuplicate and      *)
(* QueueFollowUp bring it there.                                           *)
LEMMA HandlerStep ==
    ASSUME TypeOK, [Next]_vars, NEW r \in Reviewers, NEW d \in Ids,
           pc'[r] \in {"launch", "rupert", "deliver"}, Next1(r, d)'
    PROVE  \/ /\ pc[r] \in {"launch", "rupert"} /\ pc'[r] \in {"launch", "rupert"}
              /\ Next1(r, d)
           \/ pc[r] = "deliver" /\ pc'[r] = "deliver" /\ Next1(r, d)
           \/ pc'[r] = "launch" /\ d \in 1..Len(log) /\ StartRelease(r, d)
           \/ /\ pc'[r] = "deliver" /\ d \in 1..Len(log)
              /\ DivertDuplicate(r, d) \/ QueueFollowUp(r, d)
  <1>0. /\ pc \in [Reviewers -> {"idle", "handoff", "launch", "rupert",
                                 "deliver"}]
        /\ job \in [Reviewers -> SUBSET (1..Len(log))]
    BY DEF TypeOK
  <1>1. ASSUME pc'[r] = pc[r], job'[r] = job[r]
        PROVE  /\ pc[r] \in {"launch", "rupert"} => pc'[r] \in {"launch", "rupert"}
               /\ Next1(r, d)
    BY <1>1 DEF Next1
  <1>2. ASSUME NEW q \in Reviewers, RecordDecision(q) \/ ProcessChildren(q)
        PROVE  pc'[r] = pc[r] /\ job'[r] = job[r]
    <2>1. pc' = [pc EXCEPT ![q] = "handoff"]
      BY <1>2 DEF RecordDecision, ProcessChildren
    <2>2. q # r
      BY <1>0, <2>1
    <2>3. \E x : job' = [job EXCEPT ![q] = x]
      BY <1>2 DEF RecordDecision, ProcessChildren
    <2> QED BY <1>0, <2>1, <2>2, <2>3
  <1>3. ASSUME NEW q \in Reviewers, EndRequest(q) \/ RequestDies(q)
        PROVE  pc'[r] = pc[r] /\ job'[r] = job[r]
    BY <1>0, <1>3 DEF EndRequest, RequestDies
  <1>4. ASSUME NEW q \in Reviewers, NEW e \in 1..Len(log), RefuseHandoff(q, e)
        PROVE  pc'[r] = pc[r] /\ job'[r] = job[r]
    BY <1>0, <1>4 DEF RefuseHandoff, Handing
  <1>5. ASSUME NEW q \in Reviewers, NEW e \in 1..Len(log), FailAction(q, e)
        PROVE  pc'[r] = pc[r] /\ job'[r] = job[r]
    BY <1>0, <1>5 DEF FailAction
  <1>6. ASSUME NEW q \in Reviewers, NEW e \in 1..Len(log),
               StartRelease(q, e)
        PROVE  \/ pc'[r] = pc[r] /\ job'[r] = job[r]
               \/ pc'[r] = "launch" /\ d \in 1..Len(log) /\ StartRelease(r, d)
    <2>1. pc' = [pc EXCEPT ![q] = "launch"] /\ job' = job /\ Next1(q, e)
      BY <1>6 DEF StartRelease, Handing
    <2>2. ASSUME q = r PROVE d = e
      BY <2>1, <2>2, OneAtATime DEF Next1
    <2> QED BY <1>0, <1>6, <2>1, <2>2
  <1>7. ASSUME NEW q \in Reviewers, NEW e \in 1..Len(log),
               DivertDuplicate(q, e) \/ QueueFollowUp(q, e)
        PROVE  \/ pc'[r] = pc[r] /\ job'[r] = job[r]
               \/ /\ pc'[r] = "deliver" /\ d \in 1..Len(log)
                  /\ DivertDuplicate(r, d) \/ QueueFollowUp(r, d)
    <2>1. pc' = [pc EXCEPT ![q] = "deliver"] /\ job' = job /\ Next1(q, e)
      BY <1>7 DEF DivertDuplicate, QueueFollowUp, Handing
    <2>2. ASSUME q = r PROVE d = e
      BY <2>1, <2>2, OneAtATime DEF Next1
    <2> QED BY <1>0, <1>7, <2>1, <2>2
  <1>8. ASSUME NEW q \in Reviewers, NEW e \in 1..Len(log), Launch(q, e)
        PROVE  \/ pc'[r] = pc[r] /\ job'[r] = job[r]
               \/ pc[r] = "launch" /\ pc'[r] = "rupert" /\ job'[r] = job[r]
    BY <1>0, <1>8 DEF Launch
  <1>9. ASSUME NEW q \in Reviewers, NEW e \in 1..Len(log),
               FinishHandoff(q, e) \/ WriteLibbyFile(q, e)
        PROVE  pc'[r] = pc[r] /\ job'[r] = job[r]
    BY <1>0, <1>9 DEF FinishHandoff, WriteLibbyFile
  <1>10. \/ UNCHANGED <<pc, job>>
         \/ \E q \in Reviewers : \/ RecordDecision(q) \/ ProcessChildren(q)
                                 \/ EndRequest(q) \/ RequestDies(q)
         \/ \E q \in Reviewers, e \in 1..Len(log) :
               \/ RefuseHandoff(q, e) \/ FailAction(q, e) \/ StartRelease(q, e)
               \/ DivertDuplicate(q, e) \/ QueueFollowUp(q, e) \/ Launch(q, e)
               \/ FinishHandoff(q, e) \/ WriteLibbyFile(q, e)
    <2>1. ASSUME Rupert \/ Libby PROVE UNCHANGED <<pc, job>>
      BY <2>1, LibbyStep DEF Rupert, WorkerLists, RunnerStages,
                             RunnerPublishes, RunnerFails
    <2>2. ASSUME NEW q \in Reviewers, NEW e \in 1..Len(log),
                 \/ NothingApproved(q, e) \/ RupertErrors(q, e)
                 \/ RupertTimesOut(q, e) \/ WriteFails(q, e)
          PROVE  FailAction(q, e)
      BY <2>2 DEF NothingApproved, RupertErrors, RupertTimesOut, WriteFails
    <2> QED BY <2>1, <2>2 DEF Next, Handler, vars
  <1>11. ASSUME pc[r] = "launch", pc'[r] = "rupert", job'[r] = job[r]
         PROVE  Next1(r, d)
    BY <1>11 DEF Next1
  <1> QED
    BY <1>1, <1>2, <1>3, <1>4, <1>5, <1>6, <1>7, <1>8, <1>9, <1>10, <1>11

\* What a handler hands over, it committed before.
LEMMA CommittedStep ==
    ASSUME TypeOK, HandedOverIsCommitted, [Next]_vars
    PROVE  HandedOverIsCommitted'
  <1> SUFFICES ASSUME NEW r \in Reviewers, NEW d \in job'[r], Next1(r, d)'
               PROVE  /\ (pc'[r] \in {"launch", "rupert"} /\ ~Whole(d)') =>
                            d \in target'
                      /\ pc'[r] = "deliver" => d \in libbyRow'
    BY DEF HandedOverIsCommitted
  <1>0. TypeOK' /\ d \in Ids
    BY TypeStep DEF TypeOK, Ids
  <1>1. ASSUME pc'[r] \in {"launch", "rupert"}, ~Whole(d)'
        PROVE  d \in target'
    <2>1. CASE pc[r] \in {"launch", "rupert"} /\ Next1(r, d)
      <3>1. d \in job[r] /\ d \in 1..Len(log)
        BY <2>1 DEF Next1, TypeOK
      <3>2. ~Whole(d)
        BY <1>1, <3>1, LogStep DEF Whole
      <3> QED BY <2>1, <3>1, <3>2, TargetStep DEF HandedOverIsCommitted
    <2>2. CASE d \in 1..Len(log) /\ StartRelease(r, d)
      <3>1. ~Whole(d)
        BY <1>1, <2>2, LogStep DEF Whole
      <3> QED BY <2>2, <3>1 DEF StartRelease, CommitsFirst
    <2> QED BY <1>0, <1>1, <2>1, <2>2, HandlerStep
  <1>2. ASSUME pc'[r] = "deliver" PROVE d \in libbyRow'
    <2>1. CASE pc[r] = "deliver" /\ Next1(r, d)
      <3>1. d \in libbyRow
        BY <2>1 DEF HandedOverIsCommitted, Next1
      <3> QED BY <3>1, Changes DEF DivertDuplicate, QueueFollowUp, WriteLibbyFile
    <2>2. CASE DivertDuplicate(r, d) \/ QueueFollowUp(r, d)
      BY <2>2 DEF DivertDuplicate, QueueFollowUp
    <2> QED BY <1>0, <1>2, <2>1, <2>2, HandlerStep
  <1> QED BY <1>1, <1>2

\* A file is written after its row, and the row stays.
LEMMA NoOrphanStep ==
    ASSUME TypeOK, FreshIdsAreBlank, RunnersHaveFiles, HandedOverIsCommitted,
           NoOrphanQueueFile, [Next]_vars
    PROVE  NoOrphanQueueFile'
  <1>0. TypeOK' /\ 1..Len(log') \subseteq Ids
    BY TypeStep DEF TypeOK, Ids
  <1>1. ASSUME NEW d \in 1..Len(log'), file'[d] # "none", ~Whole(d)'
        PROVE  d \in target'
    <2>1. ASSUME d \in 1..Len(log) PROVE ~Whole(d)
      BY <1>1, <2>1, LogStep DEF Whole
    <2>2. CASE file[d] # "none"
      <3>1. d \in 1..Len(log)
        BY <1>0, <2>2, LogStep DEF FreshIdsAreBlank
      <3> QED BY <2>1, <2>2, <3>1, TargetStep DEF NoOrphanQueueFile
    <2>3. ASSUME NEW r \in Reviewers, Launch(r, d) PROVE d \in target'
      <3>1. pc[r] = "launch" /\ Next1(r, d) /\ target' = target
        BY <2>3 DEF Launch
      <3>2. d \in job[r] /\ d \in 1..Len(log)
        BY <3>1 DEF Next1, TypeOK
      <3> QED BY <2>1, <3>1, <3>2 DEF HandedOverIsCommitted
    <2>4. ASSUME NEW k \in Runners, RunnerStages(d, k) PROVE d \in target'
      <3>1. run[d][k] # "off" /\ target' = target
        BY <2>4 DEF RunnerStages
      <3>2. d \in 1..Len(log)
        BY <1>0, <3>1, LogStep DEF FreshIdsAreBlank
      <3> QED BY <2>1, <3>1, <3>2 DEF RunnersHaveFiles, NoOrphanQueueFile
    <2> QED BY <1>0, <1>1, <2>2, <2>3, <2>4, RunStep
  <1>2. libbyFile' \subseteq libbyRow'
    <2>1. libbyFile \subseteq libbyRow
      BY DEF NoOrphanQueueFile
    <2>2. ASSUME NEW r \in Reviewers, NEW d \in 1..Len(log),
                 DivertDuplicate(r, d) \/ QueueFollowUp(r, d)
          PROVE  libbyFile' \subseteq libbyRow'
      BY <2>1, <2>2 DEF DivertDuplicate, QueueFollowUp
    <2>3. ASSUME NEW r \in Reviewers, NEW d \in 1..Len(log), WriteLibbyFile(r, d)
          PROVE  libbyFile' \subseteq libbyRow'
      <3>1. /\ pc[r] = "deliver" /\ Next1(r, d)
            /\ libbyFile' = libbyFile \union {d}
            /\ libbyRow' = libbyRow
        BY <2>3 DEF WriteLibbyFile
      <3>2. d \in libbyRow
        BY <3>1 DEF HandedOverIsCommitted, Next1
      <3> QED BY <2>1, <3>1, <3>2
    <2> QED BY <2>1, <2>2, <2>3, Changes
  <1> QED BY <1>1, <1>2 DEF NoOrphanQueueFile

-----------------------------------------------------------------------------
(* Actions and items tell the truth.                                       *)

LEMMA EffectStep ==
    ASSUME TypeOK, FreshIdsAreBlank, SuccessIsPublished,
           CompletedActionHasEffect, [Next]_vars
    PROVE  CompletedActionHasEffect'
  <1> SUFFICES ASSUME NEW d \in 1..Len(log'), action'[d] = "completed"
               PROVE  \/ d \in published'
                      \/ d \in libbyRow'
                      \/ log'[d].code = "duplicate" /\ ~Whole(d)'
    BY DEF CompletedActionHasEffect
  <1>0. /\ d \in Ids /\ "child" \in Runners
        /\ action \in [Ids -> {"none", "pending", "running", "completed",
                               "failed"}]
        /\ 1..Len(log) \subseteq Ids
    <2>1. TypeOK'
      BY TypeStep
    <2>2. "child" \in Runners
      OBVIOUS
    <2> QED BY <2>1, <2>2 DEF TypeOK, Ids
  <1>1. libbyRow \subseteq libbyRow'
    BY Changes DEF DivertDuplicate, QueueFollowUp, WriteLibbyFile
  <1>2. CASE action[d] = "completed"
    <2>1. d \in 1..Len(log)
      BY <1>0, <1>2, LogStep DEF FreshIdsAreBlank
    <2>2. \/ d \in published \/ d \in libbyRow
          \/ log[d].code = "duplicate" /\ ~Whole(d)
      BY <1>2, <2>1 DEF CompletedActionHasEffect
    <2> QED BY <1>1, <2>1, <2>2, PublishedStep, LogStep DEF Whole
  <1>3. CASE action[d] # "completed"
    <2>1. ASSUME NEW r \in Reviewers, RecordDecision(r) PROVE FALSE
      BY <1>0, <1>3, <2>1 DEF RecordDecision
    <2>2. ASSUME NEW r \in Reviewers, ProcessChildren(r)
          PROVE  log'[d].code = "duplicate" /\ ~Whole(d)'
      <3>1. d \in (Len(log) + 1)..Len(log') /\ log'[d].code = "duplicate"
        BY <1>0, <1>3, <2>2, BatchStep
      <3>2. log'[d].item \in Items
        BY <2>2, <3>1, BatchStep
      <3> QED BY <3>1, <3>2 DEF Whole
    <2>3. ASSUME NEW r \in Reviewers, NEW e \in 1..Len(log),
                 FailAction(r, e) \/ StartRelease(r, e)
          PROVE  FALSE
      BY <1>0, <1>3, <2>3 DEF FailAction, StartRelease
    <2>4. ASSUME NEW r \in Reviewers, NEW e \in 1..Len(log),
                 DivertDuplicate(r, e) \/ QueueFollowUp(r, e)
          PROVE  d \in libbyRow'
      BY <1>0, <1>3, <2>4 DEF DivertDuplicate, QueueFollowUp
    <2>5. ASSUME NEW r \in Reviewers, NEW e \in 1..Len(log), FinishHandoff(r, e)
          PROVE  d \in published'
      <3>1. e = d /\ run[d]["child"] = "ok"
        BY <1>0, <1>3, <2>5 DEF FinishHandoff, RupertDelivered
      <3> QED BY <1>0, <3>1, PublishedStep DEF SuccessIsPublished
    <2> QED BY <1>3, <2>1, <2>2, <2>3, <2>4, <2>5, Changes
  <1> QED BY <1>2, <1>3

\* An item is shown as published only when its page exists.
LEMMA PageStep ==
    ASSUME TypeOK, SuccessIsPublished, PublishedItemHasPage, [Next]_vars
    PROVE  PublishedItemHasPage'
  <1> SUFFICES ASSUME NEW i \in Items, item'[i] = "published"
               PROVE  \E d \in published' : i \in log'[d].subjects
    BY DEF PublishedItemHasPage
  <1>0. item \in [Items -> ItemStatuses] /\ published \subseteq 1..Len(log)
        /\ "child" \in Runners
    BY DEF TypeOK
  <1>1. CASE item[i] = "published"
    <2>1. PICK d \in published : i \in log[d].subjects
      BY <1>1 DEF PublishedItemHasPage
    <2> QED BY <1>0, <2>1, LogStep, PublishedStep
  <1>2. CASE item[i] # "published"
    <2>1. ASSUME NEW r \in Reviewers, ProcessChildren(r) PROVE FALSE
      BY <1>2, <2>1, BatchStep
    <2>2. ASSUME NEW r \in Reviewers, NEW e \in 1..Len(log), DivertDuplicate(r, e)
          PROVE  FALSE
      BY <1>0, <1>2, <2>2 DEF DivertDuplicate
    <2>3. ASSUME Libby PROVE FALSE
      BY <1>2, <2>3, LibbyStep
    <2>4. ASSUME NEW r \in Reviewers, NEW e \in 1..Len(log), FinishHandoff(r, e)
          PROVE  \E d \in published' : i \in log'[d].subjects
      <3>1. i \in log[e].subjects /\ run[e]["child"] = "ok"
        BY <1>0, <1>2, <2>4 DEF FinishHandoff, RupertDelivered
      <3>2. e \in published
        BY <1>0, <3>1 DEF SuccessIsPublished
      <3> QED BY <3>1, <3>2, LogStep, PublishedStep
    <2> QED BY <1>2, <2>1, <2>2, <2>3, <2>4, Changes
  <1> QED BY <1>1, <1>2

-----------------------------------------------------------------------------
(* The lock.                                                               *)

(* Nobody but its holder gives the lock up, and recording a decision takes *)
(* it for the transaction.                                                 *)
LEMMA HolderKeepsLock ==
    ASSUME TypeOK, [Next]_vars, NEW r \in Reviewers, lock = r,
           pc[r] \in {"launch", "rupert"}, pc'[r] \in {"launch", "rupert"}
    PROVE  lock' = r /\ UNCHANGED <<log, live>>
  <1>0. /\ pc \in [Reviewers -> {"idle", "handoff", "launch", "rupert",
                                 "deliver"}]
        /\ lock # NoReviewer
    BY DEF TypeOK
  <1>1. ASSUME NEW q \in Reviewers, RecordDecision(q) \/ ProcessChildren(q)
        PROVE  FALSE
    <2>1. pc[q] = "idle" /\ AuthorityFree(q)
      BY <1>1 DEF RecordDecision, ProcessChildren
    <2> QED BY <1>0, <2>1 DEF AuthorityFree
  <1>2. ASSUME NEW q \in Reviewers, EndRequest(q) \/ RequestDies(q)
        PROVE  lock' = r
    <2>1. lock' = Released(q) /\ pc' = [pc EXCEPT ![q] = "idle"]
      BY <1>2 DEF EndRequest, RequestDies
    <2> QED BY <1>0, <2>1 DEF Released
  <1>3. ASSUME NEW q \in Reviewers, NEW d \in 1..Len(log),
               \/ RefuseHandoff(q, d) \/ NothingApproved(q, d)
               \/ DivertDuplicate(q, d) \/ StartRelease(q, d)
        PROVE  FALSE
    <2>1. pc[q] = "handoff" /\ AuthorityFree(q)
      BY <1>3 DEF RefuseHandoff, NothingApproved, DivertDuplicate,
                  StartRelease, Handing
    <2> QED BY <1>0, <2>1 DEF AuthorityFree
  <1>4. ASSUME NEW q \in Reviewers, NEW d \in 1..Len(log),
               \/ FinishHandoff(q, d) \/ RupertErrors(q, d)
               \/ RupertTimesOut(q, d) \/ WriteFails(q, d)
        PROVE  lock' = r
    <2>1. lock' = Released(q) /\ pc' = [pc EXCEPT ![q] = "handoff"]
      BY <1>4 DEF FinishHandoff, RupertErrors, RupertTimesOut, WriteFails,
                  FailAction
    <2> QED BY <1>0, <2>1 DEF Released
  <1>5. ASSUME NEW q \in Reviewers, NEW d \in 1..Len(log), QueueFollowUp(q, d)
        PROVE  lock' = r
    <2>1. lock' = Released(q) /\ pc' = [pc EXCEPT ![q] = "deliver"]
      BY <1>5 DEF QueueFollowUp
    <2> QED BY <1>0, <2>1 DEF Released
  <1>6. ASSUME NEW q \in Reviewers, NEW d \in 1..Len(log),
               Launch(q, d) \/ WriteLibbyFile(q, d)
        PROVE  lock' = r
    BY <1>6 DEF Launch, WriteLibbyFile
  <1>7. ASSUME Rupert \/ Libby PROVE lock' = r
    BY <1>7, LibbyStep DEF Rupert, WorkerLists, RunnerStages,
                           RunnerPublishes, RunnerFails
  <1>8. CASE UNCHANGED vars
    BY <1>8 DEF vars
  <1>9. lock' = r
    BY <1>1, <1>2, <1>3, <1>4, <1>5, <1>6, <1>7, <1>8 DEF Next, Handler
  <1> QED BY <1>1, <1>9, LogStep

\* Nobody but its holder changes what the case's lock protects.
LEMMA ExclusiveStep ==
    ASSUME TypeOK, WholeReleaseIsExclusive, [Next]_vars
    PROVE  WholeReleaseIsExclusive'
  <1> SUFFICES ASSUME NEW r \in Reviewers, NEW d \in job'[r],
                      pc'[r] \in {"launch", "rupert"}, Next1(r, d)', Whole(d)'
               PROVE  /\ lock' = r
                      /\ d \in live'
                      /\ \A e \in live' : log'[e].at =< log'[d].at
    BY DEF WholeReleaseIsExclusive
  <1>0. d \in Ids
    <2>1. TypeOK'
      BY TypeStep
    <2> QED BY <2>1 DEF TypeOK, Ids
  <1>1. CASE pc[r] \in {"launch", "rupert"} /\ Next1(r, d)
    <2>1. d \in job[r] /\ d \in 1..Len(log)
      BY <1>1 DEF Next1, TypeOK
    <2>2. Whole(d)
      BY <2>1, LogStep DEF Whole
    <2>3. /\ lock = r
          /\ d \in live
          /\ \A e \in live : log[e].at =< log[d].at
      BY <1>1, <2>1, <2>2 DEF WholeReleaseIsExclusive
    <2>4. lock' = r /\ UNCHANGED <<log, live>>
      BY <1>1, <2>3, HolderKeepsLock
    <2> QED BY <2>3, <2>4
  <1>2. CASE d \in 1..Len(log) /\ StartRelease(r, d)
    <2>1. /\ Authorised(r, d)
          /\ CommitsFirst(d) \/ lock' = r
          /\ UNCHANGED <<log, live>>
      BY <1>2 DEF StartRelease
    <2>2. Whole(d)
      BY <2>1 DEF Whole
    <2> QED BY <2>1, <2>2 DEF Authorised, CommitsFirst
  <1> QED BY <1>0, <1>1, <1>2, HandlerStep

-----------------------------------------------------------------------------
(* The inductive invariant.                                                *)

LEMMA InvariantInit == Init => IInv
  <1> SUFFICES ASSUME Init PROVE IInv
    OBVIOUS
  <1>1. TypeOK
    BY TypeInit
  <1>2. /\ log = <<>> /\ target = {} /\ published = {} /\ libbyRow = {}
        /\ libbyFile = {} /\ Len(log) = 0
        /\ action = [d \in Ids |-> "none"]
        /\ item = [i \in Items |-> "awaiting_decision"]
        /\ file = [d \in Ids |-> "none"]
        /\ run = [d \in Ids |-> [k \in Runners |-> "off"]]
        /\ job = [r \in Reviewers |-> {}]
    BY DEF Init
  <1>3. FreshIdsAreBlank
    BY <1>2 DEF FreshIdsAreBlank
  <1>4. RunnersHaveFiles /\ SuccessIsPublished /\ CompletedActionHasEffect
    BY <1>2 DEF RunnersHaveFiles, SuccessIsPublished, CompletedActionHasEffect
  <1>5. WholeHasNoTarget /\ WholeApprovalNeverPublishes
    BY <1>2 DEF WholeHasNoTarget, WholeApprovalNeverPublishes
  <1>6. HandedOverIsCommitted /\ WholeReleaseIsExclusive
    BY <1>2 DEF HandedOverIsCommitted, WholeReleaseIsExclusive
  <1>7. NoOrphanQueueFile /\ PublishedItemHasPage
    BY <1>2 DEF NoOrphanQueueFile, PublishedItemHasPage
  <1> QED BY <1>1, <1>3, <1>4, <1>5, <1>6, <1>7 DEF IInv

\* The inductive invariant is preserved by every step.
LEMMA InvariantStep == IInv /\ [Next]_vars => IInv'
  <1> SUFFICES ASSUME IInv, [Next]_vars PROVE IInv'
    OBVIOUS
  <1>1. /\ TypeOK /\ FreshIdsAreBlank /\ RunnersHaveFiles
        /\ SuccessIsPublished /\ WholeHasNoTarget
        /\ WholeApprovalNeverPublishes /\ HandedOverIsCommitted
        /\ NoOrphanQueueFile /\ CompletedActionHasEffect
        /\ PublishedItemHasPage /\ WholeReleaseIsExclusive
    BY DEF IInv
  <1>2. TypeOK' /\ FreshIdsAreBlank' /\ RunnersHaveFiles'
    BY <1>1, TypeStep, FreshStep, FilesStep
  <1>3. SuccessIsPublished' /\ WholeHasNoTarget' /\ WholeApprovalNeverPublishes'
    BY <1>1, SuccessStep, NoTargetStep, NeverPublishesStep
  <1>4. HandedOverIsCommitted' /\ NoOrphanQueueFile'
    BY <1>1, CommittedStep, NoOrphanStep
  <1>5. CompletedActionHasEffect' /\ PublishedItemHasPage'
    BY <1>1, EffectStep, PageStep
  <1>6. WholeReleaseIsExclusive'
    BY <1>1, ExclusiveStep
  <1> QED BY <1>2, <1>3, <1>4, <1>5, <1>6 DEF IInv

(* All parts of the invariant hold together, for every instance. *)
THEOREM InvariantHolds == Spec => []IInv
  <1> QED BY InvariantInit, InvariantStep, PTL DEF Spec

(* The serialization promise of publication_authority.py for the part of   *)
(* the handoff that keeps the lock: no decision is recorded on the case    *)
(* while a whole-case approval is with Rupert.                             *)
THEOREM ExclusiveRelease == Spec => []WholeReleaseIsExclusive
  <1>1. IInv => WholeReleaseIsExclusive
    BY DEF IInv
  <1> QED BY <1>1, InvariantHolds, PTL

(* A completed action was carried out: published, or durably with Libby,   *)
(* or settled in place.                                                    *)
THEOREM CompletedActions == Spec => []CompletedActionHasEffect
  <1>1. IInv => CompletedActionHasEffect
    BY DEF IInv
  <1> QED BY <1>1, InvariantHolds, PTL

(* No split item is shown as published without a page, whatever subprocess *)
(* and worker do with its file.                                            *)
THEOREM PublishedItems == Spec => []PublishedItemHasPage
  <1>1. IInv => PublishedItemHasPage
    BY DEF IInv
  <1> QED BY <1>1, InvariantHolds, PTL

(* No crash leaves a queue file whose authority or row is missing. *)
THEOREM NoOrphans == Spec => []NoOrphanQueueFile
  <1>1. IInv => NoOrphanQueueFile
    BY DEF IInv
  <1> QED BY <1>1, InvariantHolds, PTL

(* A whole-case approval cannot be published by any schedule: the target   *)
(* Rupert asks for is committed only after Rupert has succeeded.           *)
THEOREM WholeApprovals == Spec => []WholeApprovalNeverPublishes
  <1>1. IInv => WholeApprovalNeverPublishes
    BY DEF IInv
  <1> QED BY <1>1, InvariantHolds, PTL

-----------------------------------------------------------------------------
(* Published items, while one request at a time decides the case.          *)

(* Only a new request gets decisions to hand off, and what it is done with *)
(* it gives up; only Libby's own file takes a decision off the request.    *)
LEMMA JobStep ==
    ASSUME TypeOK, [Next]_vars
    PROVE  /\ \/ UNCHANGED latest
              \/ \E r \in Reviewers : ProcessChildren(r)
           /\ \/ \A r \in Reviewers : job'[r] \subseteq job[r]
              \/ \E r \in Reviewers : RecordDecision(r) \/ ProcessChildren(r)
           /\ \/ UNCHANGED libbyFile
              \/ \E r \in Reviewers, d \in 1..Len(log) : WriteLibbyFile(r, d)
           /\ \/ UNCHANGED <<vladFile, vladBack>>
              \/ \E d \in 1..Len(log) : LibbyAsksVlad(d) \/ VladReturns(d)
  <1>0. job \in [Reviewers -> SUBSET (1..Len(log))]
    BY DEF TypeOK
  <1> DEFINE Quiet == /\ UNCHANGED <<latest, libbyFile, vladFile, vladBack>>
                      /\ \A q \in Reviewers : job'[q] \subseteq job[q]
  <1>1. ASSUME NEW r \in Reviewers, RecordDecision(r)
        PROVE  UNCHANGED <<latest, libbyFile, vladFile, vladBack>>
    BY <1>1 DEF RecordDecision
  <1>2. ASSUME NEW r \in Reviewers, ProcessChildren(r)
        PROVE  UNCHANGED <<libbyFile, vladFile, vladBack>>
    BY <1>2 DEF ProcessChildren
  <1>3. ASSUME NEW r \in Reviewers, EndRequest(r) \/ RequestDies(r)
        PROVE  Quiet
    BY <1>0, <1>3 DEF EndRequest, RequestDies
  <1>4. ASSUME NEW r \in Reviewers, NEW d \in 1..Len(log),
               RefuseHandoff(r, d) \/ NothingApproved(r, d)
        PROVE  Quiet
    BY <1>0, <1>4 DEF RefuseHandoff, NothingApproved, FailAction
  <1>5. ASSUME NEW r \in Reviewers, NEW d \in 1..Len(log),
               DivertDuplicate(r, d) \/ StartRelease(r, d) \/ Launch(r, d)
        PROVE  Quiet
    BY <1>5 DEF DivertDuplicate, StartRelease, Launch
  <1>6. ASSUME NEW r \in Reviewers, NEW d \in 1..Len(log),
               FinishHandoff(r, d) \/ RupertErrors(r, d)
        PROVE  Quiet
    BY <1>0, <1>6 DEF FinishHandoff, RupertErrors, FailAction
  <1>7. ASSUME NEW r \in Reviewers, NEW d \in 1..Len(log),
               RupertTimesOut(r, d) \/ WriteFails(r, d) \/ QueueFollowUp(r, d)
        PROVE  Quiet
    BY <1>0, <1>7 DEF RupertTimesOut, WriteFails, FailAction, QueueFollowUp
  <1>8. ASSUME NEW r \in Reviewers, NEW d \in 1..Len(log), WriteLibbyFile(r, d)
        PROVE  /\ UNCHANGED <<latest, vladFile, vladBack>>
               /\ \A q \in Reviewers : job'[q] \subseteq job[q]
    BY <1>0, <1>8 DEF WriteLibbyFile
  <1>9. CASE Rupert
    BY <1>9 DEF Rupert, WorkerLists, RunnerStages, RunnerPublishes, RunnerFails
  <1>11. CASE Libby
    <2>1. \/ UNCHANGED <<vladFile, vladBack>>
          \/ \E d \in 1..Len(log) : LibbyAsksVlad(d) \/ VladReturns(d)
      BY <1>11 DEF Libby, LibbyResolves, LibbyDisposes, LibbyReturns, LibbyWrites
    <2> QED BY <1>11, <2>1, LibbyStep
  <1>10. CASE UNCHANGED vars
    BY <1>10 DEF vars
  <1> QED
    BY <1>1, <1>2, <1>3, <1>4, <1>5, <1>6, <1>7, <1>8, <1>9, <1>10, <1>11
    DEF Next, Handler

\* An item's latest decision has been recorded.
LEMMA LatestStep ==
    ASSUME TypeOK, LatestIsRecorded, [Next]_vars
    PROVE  LatestIsRecorded'
  <1>1. Len(log) \in Nat /\ Len(log') \in Nat /\ Len(log) =< Len(log')
    BY LogStep
  <1> SUFFICES ASSUME NEW i \in Items PROVE latest'[i] \in 0..Len(log')
    BY DEF LatestIsRecorded
  <1>2. latest[i] \in 0..Len(log)
    BY DEF LatestIsRecorded
  <1>3. \/ latest'[i] = latest[i]
        \/ latest'[i] \in (Len(log) + 1)..Len(log')
    BY BatchStep, JobStep
  <1> QED BY <1>1, <1>2, <1>3

(* What one request still has to hand off is the latest of its item:       *)
(* nobody else records a decision meanwhile.                               *)
LEMMA JobIsLatestStep ==
    ASSUME OneReviewer, TypeOK, JobIsLatest, [Next]_vars
    PROVE  JobIsLatest'
  <1> SUFFICES ASSUME NEW r \in Reviewers, NEW d \in job'[r], log'[d].item # NoItem
               PROVE  log'[d].subjects = {log'[d].item} /\ latest'[log'[d].item] = d
    BY DEF JobIsLatest, Whole
  <1>0. job \in [Reviewers -> SUBSET (1..Len(log))]
    BY DEF TypeOK
  <1>1. ASSUME NEW q \in Reviewers, RecordDecision(q) PROVE FALSE
    <2>1. q = r
      BY DEF OneReviewer
    <2>2. d = Len(log) + 1
      BY <1>0, <1>1, <2>1 DEF RecordDecision
    <2> QED BY <1>1, <2>2, RecordStep
  <1>2. ASSUME NEW q \in Reviewers, ProcessChildren(q)
        PROVE  log'[d].subjects = {log'[d].item} /\ latest'[log'[d].item] = d
    <2>1. q = r
      BY DEF OneReviewer
    <2>2. d \in (Len(log) + 1)..Len(log')
      BY <1>2, <2>1, BatchStep
    <2> QED BY <1>2, <2>2, BatchStep
  <1>3. CASE /\ UNCHANGED latest
             /\ \A q \in Reviewers : job'[q] \subseteq job[q]
    <2>1. d \in job[r] /\ log'[d] = log[d]
      BY <1>0, <1>3, LogStep
    <2> QED BY <1>3, <2>1 DEF JobIsLatest, Whole
  <1> QED BY <1>1, <1>2, <1>3, JobStep

(* A decision reaches Libby's file as it leaves the request. *)
LEMMA NotWithLibbyStep ==
    ASSUME OneReviewer, TypeOK, JobIsNotWithLibby, [Next]_vars
    PROVE  JobIsNotWithLibby'
  <1> SUFFICES ASSUME NEW r \in Reviewers, NEW d \in job'[r], d \in libbyFile'
               PROVE  FALSE
    BY DEF JobIsNotWithLibby
  <1>0. /\ job \in [Reviewers -> SUBSET (1..Len(log))]
        /\ libbyFile \subseteq 1..Len(log)
        /\ Len(log) \in Nat
    BY DEF TypeOK
  <1>1. ASSUME NEW q \in Reviewers, RecordDecision(q) \/ ProcessChildren(q)
        PROVE  FALSE
    <2>1. q = r
      BY DEF OneReviewer
    <2>2. libbyFile' = libbyFile
      BY <1>1 DEF RecordDecision, ProcessChildren
    <2>3. d \notin 1..Len(log)
      <3>1. ASSUME RecordDecision(r) PROVE d = Len(log) + 1
        BY <1>0, <3>1 DEF RecordDecision
      <3>2. ASSUME ProcessChildren(r) PROVE d \in (Len(log) + 1)..Len(log')
        BY <3>2, BatchStep
      <3> QED BY <1>0, <1>1, <2>1, <3>1, <3>2, LogStep
    <2> QED BY <1>0, <2>2, <2>3
  <1>2. ASSUME NEW q \in Reviewers, NEW e \in 1..Len(log), WriteLibbyFile(q, e)
        PROVE  FALSE
    <2>1. q = r
      BY DEF OneReviewer
    <2>2. job'[r] = job[r] \ {e} /\ libbyFile' = libbyFile \union {e}
      BY <1>0, <1>2, <2>1 DEF WriteLibbyFile
    <2> QED BY <2>2 DEF JobIsNotWithLibby
  <1>3. CASE /\ UNCHANGED libbyFile
             /\ \A q \in Reviewers : job'[q] \subseteq job[q]
    BY <1>3 DEF JobIsNotWithLibby
  <1> QED BY <1>1, <1>2, <1>3, JobStep

(* A published item is not open, so no batch takes it, and its latest      *)
(* decision is neither diverted nor resolved by Libby: only what Libby     *)
(* writes by the child's key changes it.                                   *)
LEMMA ItemStays ==
    ASSUME TypeOK, LatestIsRecorded, JobIsLatest, PublishedIsSettled, [Next]_vars,
           NEW i \in Items, item[i] = "published"
    PROVE  \/ item'[i] = "published"
           \/ \E d \in 1..Len(log) : LibbyDisposes(d, i) \/ LibbyReturns(d, i)
  <1>0. item \in [Items -> ItemStatuses]
    BY DEF TypeOK
  <1>1. /\ latest[i] \notin libbyFile
        /\ \A r \in Reviewers : latest[i] \notin job[r]
    BY DEF PublishedIsSettled
  <1>2. ASSUME NEW r \in Reviewers, ProcessChildren(r) PROVE item'[i] = "published"
    <2>1. PICK b \in Batches, at \in Now :
            LET n       == Len(b)
                new     == (Len(log) + 1)..(Len(log) + n)
                of(d)   == b[d - Len(log)]
                settled == {d \in new : ConfirmsDuplicate(of(d))}
            IN  item' = [j \in Items |-> IF \E d \in settled : of(d)[1] = j
                                         THEN "duplicate_resolved" ELSE item[j]]
      BY <1>2 DEF ProcessChildren
    <2> QED BY <2>1 DEF ConfirmsDuplicate
  <1>3. ASSUME NEW r \in Reviewers, NEW d \in 1..Len(log), DivertDuplicate(r, d)
        PROVE  item'[i] = "published"
    <2>1. d \in job[r]
      BY <1>3 DEF DivertDuplicate, Handing, Next1
    <2>2. i # log[d].item
      BY <1>1, <2>1 DEF JobIsLatest, Whole
    <2> QED BY <1>3, <2>2 DEF DivertDuplicate
  <1>4. ASSUME NEW r \in Reviewers, NEW d \in 1..Len(log), FinishHandoff(r, d)
        PROVE  item'[i] = "published"
    BY <1>4 DEF FinishHandoff
  <1>5. ASSUME Libby, item'[i] # "published"
        PROVE  \E d \in 1..Len(log) : LibbyDisposes(d, i) \/ LibbyReturns(d, i)
    <2>1. ASSUME NEW d \in 1..Len(log), LibbyResolves(d, i) PROVE FALSE
      BY <1>1, <2>1 DEF LibbyResolves, LatestItem
    <2> QED BY <1>5, <2>1, LibbyStep
  <1> QED BY <1>2, <1>3, <1>4, <1>5, Changes

(* An item becomes published when the request is done with its latest      *)
(* decision, which Libby was never given.                                  *)
LEMMA SettledStep ==
    ASSUME OneReviewer, IInv, SInv, [Next]_vars
    PROVE  PublishedIsSettled'
  <1> SUFFICES ASSUME NEW i \in Items, item'[i] = "published"
               PROVE  /\ latest'[i] \notin libbyFile'
                      /\ \A r \in Reviewers : latest'[i] \notin job'[r]
    BY DEF PublishedIsSettled
  <1>0. /\ TypeOK /\ SuccessIsPublished /\ WholeApprovalNeverPublishes
        /\ LatestIsRecorded /\ JobIsLatest /\ JobIsNotWithLibby
        /\ PublishedIsSettled
    BY DEF IInv, SInv
  <1>1. /\ job \in [Reviewers -> SUBSET (1..Len(log))]
        /\ item \in [Items -> ItemStatuses]
        /\ libbyFile \subseteq 1..Len(log)
        /\ Len(log) \in Nat
        /\ "child" \in Runners
    BY <1>0 DEF TypeOK
  <1>2. CASE item[i] = "published"
    <2>1. /\ latest[i] \notin libbyFile
          /\ \A r \in Reviewers : latest[i] \notin job[r]
          /\ latest[i] \in 0..Len(log)
      BY <1>0, <1>2 DEF PublishedIsSettled, LatestIsRecorded
    <2>2. latest'[i] = latest[i]
      BY <1>0, <1>2, BatchStep, JobStep
    <2>3. ASSUME NEW r \in Reviewers, RecordDecision(r) PROVE job'[r] = {Len(log) + 1}
      BY <1>1, <2>3 DEF RecordDecision
    <2>4. ASSUME NEW r \in Reviewers, ProcessChildren(r)
          PROVE  job'[r] \subseteq (Len(log) + 1)..Len(log')
      BY <1>0, <2>4, BatchStep
    <2>5. \A r \in Reviewers : latest[i] \notin job'[r]
      <3>1. ASSUME NEW r \in Reviewers, RecordDecision(r) \/ ProcessChildren(r),
                   NEW q \in Reviewers
            PROVE  latest[i] \notin job'[q]
        <4>1. q = r
          BY DEF OneReviewer
        <4>2. latest[i] # Len(log) + 1
              /\ latest[i] \notin (Len(log) + 1)..Len(log')
          BY <1>0, <1>1, <2>1, LogStep
        <4> QED BY <2>3, <2>4, <3>1, <4>1, <4>2
      <3> QED BY <1>0, <2>1, <3>1, JobStep
    <2>6. latest[i] \notin libbyFile'
      <3>1. ASSUME NEW r \in Reviewers, NEW d \in 1..Len(log), WriteLibbyFile(r, d)
            PROVE  d \in job[r] /\ libbyFile' = libbyFile \union {d}
        BY <3>1 DEF WriteLibbyFile, Next1
      <3> QED BY <1>0, <2>1, <3>1, JobStep
    <2> QED BY <2>2, <2>5, <2>6
  <1>3. CASE item[i] # "published"
    <2>1. ASSUME NEW r \in Reviewers, ProcessChildren(r) PROVE FALSE
      BY <1>0, <1>3, <2>1, BatchStep
    <2>2. ASSUME NEW r \in Reviewers, NEW d \in 1..Len(log), DivertDuplicate(r, d)
          PROVE  FALSE
      BY <1>1, <1>3, <2>2 DEF DivertDuplicate
    <2>3. ASSUME Libby PROVE FALSE
      BY <1>0, <1>3, <2>3, LibbyStep
    <2>4. ASSUME NEW r \in Reviewers, NEW d \in 1..Len(log), FinishHandoff(r, d)
          PROVE  /\ latest'[i] \notin libbyFile'
                 /\ \A q \in Reviewers : latest'[i] \notin job'[q]
      <3>1. /\ d \in job[r] /\ i \in log[d].subjects
            /\ run[d]["child"] = "ok"
            /\ job'[r] = job[r] \ {d}
            /\ UNCHANGED <<latest, libbyFile>>
        BY <1>1, <1>3, <2>4 DEF FinishHandoff, RupertDelivered, Next1
      <3>2. d \in published
        BY <1>0, <1>1, <3>1 DEF SuccessIsPublished
      <3>3. ~Whole(d)
        BY <1>0, <3>2 DEF WholeApprovalNeverPublishes
      <3>4. i = log[d].item /\ latest[i] = d
        BY <1>0, <3>1, <3>3 DEF JobIsLatest
      <3>5. d \notin libbyFile
        BY <1>0, <3>1 DEF JobIsNotWithLibby
      <3>6. \A q \in Reviewers : q = r
        BY DEF OneReviewer
      <3> QED BY <3>1, <3>4, <3>5, <3>6
    <2> QED BY <1>0, <1>3, <2>1, <2>2, <2>3, <2>4, Changes
  <1> QED BY <1>2, <1>3

(* Libby hands Vlad her own follow-ups only, and only those that may ask   *)
(* for a change of the graphic.                                            *)
LEMMA VladStep ==
    ASSUME TypeOK, VladHasFollowUps, [Next]_vars
    PROVE  VladHasFollowUps'
  <1>0. libbyFile \subseteq 1..Len(log)
    BY DEF TypeOK
  <1>1. libbyFile \subseteq libbyFile'
    BY JobStep DEF WriteLibbyFile
  <1>2. \A d \in libbyFile : AsksForGraphics(d) => AsksForGraphics(d)'
    BY <1>0, LogStep DEF AsksForGraphics
  <1>3. CASE UNCHANGED <<vladFile, vladBack>>
    BY <1>1, <1>2, <1>3 DEF VladHasFollowUps
  <1>4. ASSUME NEW d \in 1..Len(log), LibbyAsksVlad(d) \/ VladReturns(d)
        PROVE  VladHasFollowUps'
    <2>1. /\ vladBack' \subseteq vladFile'
          /\ vladFile' \subseteq {e \in libbyFile : AsksForGraphics(e)}
      BY <1>4 DEF LibbyAsksVlad, VladReturns, VladHasFollowUps
    <2> QED BY <1>1, <1>2, <2>1 DEF VladHasFollowUps
  <1> QED BY <1>3, <1>4, JobStep

\* The invariant of one request at a time holds at the start.
LEMMA SettledInit == Init => SInv
  <1> SUFFICES ASSUME Init PROVE SInv
    OBVIOUS
  <1>1. /\ log = <<>> /\ Len(log) = 0 /\ libbyFile = {}
        /\ item = [i \in Items |-> "awaiting_decision"]
        /\ latest = [i \in Items |-> 0]
        /\ job = [r \in Reviewers |-> {}]
        /\ vladFile = {} /\ vladBack = {}
    BY DEF Init
  <1> QED BY <1>1 DEF SInv, LatestIsRecorded, JobIsLatest, JobIsNotWithLibby,
                      PublishedIsSettled, VladHasFollowUps

(* What Libby writes by the child's key, she writes for a follow-up that   *)
(* was delivered to her, names the item and asked for something else than  *)
(* to publish or to compare it.                                            *)
LEMMA TakenBack ==
    ASSUME TypeOK, VladHasFollowUps, NEW i \in Items, NEW d \in 1..Len(log),
           LibbyDisposes(d, i) \/ LibbyReturns(d, i)
    PROVE  /\ item'[i] \in {"rejected", "deleted", "returned_for_review"}
           /\ d \in libbyFile /\ i \in log[d].subjects /\ ~Approves(d)
           /\ Whole(d) \/ log[d].code # "duplicate"
  <1>0. item \in [Items -> ItemStatuses]
    BY DEF TypeOK
  <1>1. ASSUME LibbyDisposes(d, i)
        PROVE  /\ item'[i] \in {"rejected", "deleted"}
               /\ d \in libbyFile /\ i \in log[d].subjects /\ ~Approves(d)
               /\ Whole(d) \/ log[d].code # "duplicate"
    BY <1>0, <1>1 DEF LibbyDisposes, LibbyWrites, Dispositions, MayDispose
  <1>2. ASSUME LibbyReturns(d, i)
        PROVE  /\ item'[i] = "returned_for_review"
               /\ d \in libbyFile /\ i \in log[d].subjects /\ ~Approves(d)
               /\ log[d].code # "duplicate"
    BY <1>0, <1>2 DEF LibbyReturns, LibbyWrites, VladHasFollowUps,
                      AsksForGraphics, Approves
  <1> QED BY <1>1, <1>2

(* Once a split item is shown as published, no verdict of Libby's on a     *)
(* duplicate, no divert and no later batch takes it back, as long as one   *)
(* request at a time decides the case: only a rejection, a deletion or a   *)
(* change of the graphic that was asked for can.                           *)
THEOREM PublishedStays == OneReviewer => (Spec => OnlyFollowUpsTakeBack)
  <1> SUFFICES ASSUME OneReviewer PROVE Spec => OnlyFollowUpsTakeBack
    OBVIOUS
  <1>1. IInv /\ SInv /\ [Next]_vars => SInv'
    BY LatestStep, JobIsLatestStep, NotWithLibbyStep, SettledStep, VladStep
    DEF SInv, IInv
  <1>2. Spec => []SInv
    BY <1>1, SettledInit, InvariantHolds, PTL DEF Spec
  <1>3. /\ IInv /\ SInv /\ [Next]_vars
        => [\A i \in Items : item[i] = "published" =>
               \/ item'[i] = "published"
               \/ /\ item'[i] \in {"rejected", "deleted", "returned_for_review"}
                  /\ \E d \in libbyFile :
                        /\ i \in log[d].subjects /\ ~Approves(d)
                        /\ Whole(d) \/ log[d].code # "duplicate"]_vars
    BY ItemStays, TakenBack DEF IInv, SInv
  <1> QED BY <1>2, <1>3, InvariantHolds, PTL DEF Spec, OnlyFollowUpsTakeBack

-----------------------------------------------------------------------------
(* Refinement: the case implements the ledger.                             *)

Approvals == {d \in 1..Len(log) : Approves(d)}

(* Recording decisions adds to the approvals only what was recorded. *)
LEMMA ApprovalsStep ==
    ASSUME TypeOK, [Next]_vars
    PROVE  Approvals' = Approvals \union
                        {d \in (Len(log) + 1)..Len(log') : Approves(d)'}
  <1>1. /\ Len(log) \in Nat /\ Len(log') \in Nat /\ Len(log) =< Len(log')
        /\ \A e \in 1..Len(log) : log'[e] = log[e]
    BY LogStep
  <1>2. 1..Len(log') = (1..Len(log)) \union ((Len(log) + 1)..Len(log'))
    BY <1>1
  <1>3. \A e \in 1..Len(log) : Approves(e)' <=> Approves(e)
    BY <1>1 DEF Approves
  <1> QED BY <1>2, <1>3 DEF Approvals

\* The initial states map to the ledger's initial state.
LEMMA LedgerInit == Init => Ledger!Init
  BY DEF Init, Ledger!Init

\* Every step maps to a step of the ledger or changes nothing of it.
LEMMA LedgerStep == TypeOK /\ [Next]_vars => [Ledger!Next]_(Ledger!ledger)
  <1> SUFFICES ASSUME TypeOK, [Next]_vars
               PROVE  Ledger!Next \/ UNCHANGED <<Len(log), live, Approvals, published>>
    BY DEF Ledger!ledger, Approvals
  <1>0. Len(log) \in Nat
    BY DEF TypeOK
  <1>1. ASSUME NEW r \in Reviewers, RecordDecision(r) PROVE Ledger!Replace
    <2>1. /\ live' = {Len(log) + 1} /\ published' = published
      BY <1>1 DEF RecordDecision
    <2>2. Len(log') = Len(log) + 1 /\ Len(log') \in 1..MaxDecisions
      BY <1>1, RecordStep DEF Ids
    <2>3. Approvals' \in {Approvals, Approvals \union {Len(log) + 1}}
      <3> DEFINE new == {d \in (Len(log) + 1)..Len(log') : Approves(d)'}
      <3>1. (Len(log) + 1)..Len(log') = {Len(log) + 1}
        BY <1>0, <2>2
      <3>2. new \subseteq {Len(log) + 1}
        BY <3>1
      <3>3. Approvals' = Approvals \union new
        BY ApprovalsStep
      <3> HIDE DEF new
      <3>4. new = {} \/ new = {Len(log) + 1}
        BY <3>2
      <3> QED BY <3>3, <3>4
    <2>4. Len(log) < MaxDecisions
      BY <1>0, <2>2
    <2> QED BY <2>1, <2>2, <2>3, <2>4 DEF Ledger!Replace, Approvals
  <1>2. ASSUME NEW r \in Reviewers, ProcessChildren(r) PROVE Ledger!Add
    <2>1. /\ Len(log') \in (Len(log) + 1)..MaxDecisions
          /\ live' = live \union ((Len(log) + 1)..Len(log'))
      BY <1>2, BatchStep
    <2>2. published' = published
      BY <1>2 DEF ProcessChildren
    <2>3. \E more \in SUBSET ((Len(log) + 1)..Len(log')) :
             Approvals' = Approvals \union more
      <3> WITNESS {d \in (Len(log) + 1)..Len(log') : Approves(d)'}
                  \in SUBSET ((Len(log) + 1)..Len(log'))
      <3> QED BY ApprovalsStep
    <2> QED BY <2>1, <2>2, <2>3 DEF Ledger!Add, Approvals
  <1>3. ASSUME NEW d \in 1..Len(log), NEW k \in Runners, RunnerPublishes(d, k)
        PROVE  Ledger!Publish
    <2>1. /\ d \in live /\ Approves(d)
          /\ published' = published \union {d}
          /\ UNCHANGED <<log, live>>
      BY <1>3 DEF RunnerPublishes, DurablyApproved
    <2>2. Approvals' = Approvals
      BY <2>1 DEF Approvals, Approves
    <2>3. d \in live \intersect Approvals
      BY <2>1 DEF Approvals
    <2> QED BY <2>1, <2>2, <2>3 DEF Ledger!Publish, Approvals
  <1>4. CASE UNCHANGED <<log, live>> /\ UNCHANGED published
    <2>1. Approvals' = Approvals
      BY <1>4 DEF Approvals, Approves
    <2> QED BY <1>4, <2>1
  <1>5. \/ UNCHANGED <<log, live>>
        \/ \E r \in Reviewers : RecordDecision(r) \/ ProcessChildren(r)
    BY LogStep
  <1>6. \/ UNCHANGED published
        \/ \E d \in 1..Len(log), k \in Runners : RunnerPublishes(d, k)
    BY Changes
  <1> QED
    BY <1>1, <1>2, <1>3, <1>4, <1>5, <1>6 DEF Ledger!Next

(* Whatever requests, subprocesses and the worker do in whatever order and *)
(* wherever they die, a page appears only for an approval that is in force *)
(* at that instant: publication takes effect under the decision authority. *)
THEOREM CaseImplementsLedger == Spec => ImplementsLedger
  <1> QED
    BY LedgerInit, LedgerStep, TypeCorrect, PTL
    DEF Spec, ImplementsLedger, Ledger!Spec

=============================================================================
