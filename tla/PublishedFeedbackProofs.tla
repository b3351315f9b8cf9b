---------------------- MODULE PublishedFeedbackProofs ----------------------
(***************************************************************************)
(* What PublishedFeedback guarantees for every set of requests, keys,      *)
(* symbols, API processes and workers, and any number of crashes.          *)
(***************************************************************************)
EXTENDS PublishedFeedback, TLAPS

USE FeedbackAssumption

Started == {"running", "done"}
Claiming == {"gated", "written"}
Owning == {"owned", "working", "filed", "recorded"}

(* TypeOK in the three parts its proof goes by.                            *)
RequestsTyped ==
    /\ call \in [Requests -> Call]
    /\ pc \in [Requests -> {"sent", "parsing", "locking", "submitting",
                           "validated", "committed", "replaying", "repairing",
                           "closing", "over"}]
    /\ todo \in [Requests -> SUBSET Symbols]
    /\ reused \in [Requests -> SUBSET Symbols]

RecordsTyped ==
    /\ anchor \in [Keys -> SUBSET Symbols]
    /\ cases \in [Symbols -> Nat]
    /\ row \in [Items -> Status]
    /\ file \in [Items -> Status]
    /\ paused \in BOOLEAN
    /\ switches \in 0..MaxSwitches
    /\ snapshot \subseteq Items
    /\ faults \in 0..MaxFaults

WorkersTyped ==
    /\ wpc \in [Workers -> {"idle", "listed", "claiming", "gated", "written",
                           "owned", "restoring", "working", "filed",
                           "recorded"}]
    /\ witem \in [Workers -> Items \union {NoItem}]
    /\ \A w \in Workers : witem[w] = NoItem <=> wpc[w] \in {"idle", "listed"}
    /\ wlist \in [Workers -> SUBSET Items]
    /\ runs \in [Items -> Nat]

(* The rows of a key are those of the symbols accepted under it.           *)
RowsAreAccepted ==
    \A k \in Keys, s \in Symbols : row[<<k, s>>] # "absent" <=> s \in anchor[k]

(* A worker's item has a file, and a request that will write files writes  *)
(* those of accepted items.                                                *)
WorkIsOnFile == \A w \in Workers : witem[w] # NoItem => file[witem[w]] # "absent"
WritersAreAccepted ==
    \A r \in Requests :
       pc[r] \in {"committed", "replaying", "repairing"} =>
          todo[r] \subseteq anchor[call[r].key]

(* Whatever says that an item was finished, or that a worker has it, says  *)
(* it after the claim has been committed.                                  *)
ClaimsAreCommitted ==
    /\ \A i \in Items : file[i] = "done" => row[i] \in Started
    /\ \A i \in snapshot : row[i] \in Started
    /\ \A w \in Workers : wpc[w] \in Owning => row[witem[w]] \in Started

(* The row lock of a claim: one worker, and the row stays queued.          *)
ClaimsExclude ==
    /\ \A w \in Workers : wpc[w] \in Claiming => row[witem[w]] = "queued"
    /\ \A v, w \in Workers :
          v # w /\ wpc[v] \in Claiming /\ wpc[w] \in Claiming => witem[v] # witem[w]

(* Ed has been started on an item only after a claim, and the claim is     *)
(* spent by it.                                                            *)
StartsAreClaimed ==
    /\ \A i \in Items : runs[i] <= 1 /\ (runs[i] # 0 => row[i] \in Started)
    /\ \A w \in Workers : wpc[w] = "owned" => runs[witem[w]] = 0
    /\ \A v, w \in Workers :
          v # w /\ wpc[v] = "owned" /\ wpc[w] = "owned" => witem[v] # witem[w]

(* The advisory lock of the key: one request, and a new key stays new.     *)
KeysExclude ==
    /\ \A q, r \in Requests, k \in Keys : HoldsKey(q, k) /\ HoldsKey(r, k) => q = r
    /\ \A r \in Requests :
          pc[r] \in {"submitting", "validated"} => anchor[call[r].key] = {}

(* The locks of the symbols: one request, and what it has seen of the open *)
(* cases still stands.                                                     *)
SymbolsExclude ==
    /\ \A q, r \in Requests, s \in Symbols :
          HoldsSymbol(q, s) /\ HoldsSymbol(r, s) => q = r
    /\ \A r \in Requests :
          pc[r] = "validated" =>
             /\ todo[r] = {}
             /\ \A s \in call[r].symbols \ reused[r] : cases[s] = 0
    /\ OneOpenCase

IInv ==
    /\ TypeOK
    /\ RowsAreAccepted /\ RowsPrecedeFiles /\ WorkIsOnFile /\ WritersAreAccepted
    /\ ClaimsAreCommitted /\ ClaimsExclude /\ StartsAreClaimed
    /\ KeysExclude /\ SymbolsExclude

-----------------------------------------------------------------------------
USE DEF requestVars, workerVars, gateVars

(* A system without requests satisfies all of it.                          *)
LEMMA InitIInv ==
    ASSUME Init  PROVE  IInv
  <1>1. TypeOK
    <2>1. RequestsTyped
      BY DEF Init, RequestsTyped
    <2>2. RecordsTyped
      <3>1. 0 \in 0..MaxSwitches /\ 0 \in 0..MaxFaults
        OBVIOUS
      <3> QED  BY <3>1 DEF Init, RecordsTyped, Status
    <2>3. WorkersTyped
      BY DEF Init, WorkersTyped
    <2> QED  BY <2>1, <2>2, <2>3 DEF TypeOK, RequestsTyped, RecordsTyped, WorkersTyped
  <1>2. RowsAreAccepted /\ RowsPrecedeFiles /\ WorkIsOnFile /\ WritersAreAccepted
    BY DEF Init, Items, RowsAreAccepted, RowsPrecedeFiles, WorkIsOnFile, WritersAreAccepted
  <1>3. ClaimsAreCommitted /\ ClaimsExclude /\ StartsAreClaimed
    BY DEF Init, ClaimsAreCommitted, ClaimsExclude, StartsAreClaimed, Owning, Claiming
  <1>4. KeysExclude /\ SymbolsExclude
    BY DEF Init, KeysExclude, SymbolsExclude, HoldsKey, HasNoTransaction, HoldsSymbol, OneOpenCase
  <1> QED  BY <1>1, <1>2, <1>3, <1>4 DEF IInv

-----------------------------------------------------------------------------
(* Requests keep their types. *)
LEMMA RequestsTypedStep ==
    ASSUME IInv, [Next]_vars  PROVE  RequestsTyped'
  <1>1. ASSUME NEW r \in Requests, Receive(r)  PROVE  RequestsTyped'
    BY <1>1 DEF IInv, TypeOK, RequestsTyped, Receive, Goes
  <1>2. ASSUME NEW r \in Requests, Enter(r)  PROVE  RequestsTyped'
    BY <1>2 DEF IInv, TypeOK, RequestsTyped, Enter, Goes, LoopFree
  <1>3. ASSUME NEW r \in Requests, LockKey(r)  PROVE  RequestsTyped'
    <2>1. call[r].symbols \subseteq Symbols
      BY DEF IInv, TypeOK, Call
    <2>2. pc' \in {[pc EXCEPT ![r] = x] : x \in {"submitting", "replaying", "over"}}
      BY <1>3 DEF LockKey, Goes
    <2>3. todo' \in {todo, [todo EXCEPT ![r] = call[r].symbols]}
      BY <1>3 DEF LockKey
    <2>4. call' = call /\ reused' = reused
      BY <1>3 DEF LockKey
    <2> QED  BY <2>1, <2>2, <2>3, <2>4 DEF IInv, TypeOK, RequestsTyped
  <1>4. ASSUME NEW r \in Requests, LockSymbol(r)  PROVE  RequestsTyped'
    BY <1>4 DEF IInv, TypeOK, RequestsTyped, LockSymbol, InOrder, SymbolFree
  <1>5. ASSUME NEW r \in Requests, Validate(r)  PROVE  RequestsTyped'
    BY <1>5 DEF IInv, TypeOK, Call, RequestsTyped, Validate, Goes
  <1>6. ASSUME NEW r \in Requests, Commit(r)  PROVE  RequestsTyped'
    BY <1>6 DEF IInv, TypeOK, Call, RequestsTyped, Commit, Enqueue, Goes, ItemsOf
  <1>7. ASSUME NEW r \in Requests, Refuse(r)  PROVE  RequestsTyped'
    BY <1>7 DEF IInv, TypeOK, RequestsTyped, Refuse, Goes
  <1>8. ASSUME NEW r \in Requests, Materialize(r)  PROVE  RequestsTyped'
    BY <1>8 DEF IInv, TypeOK, RequestsTyped, Materialize, Goes, InOrder, Fault
  <1>9. ASSUME NEW r \in Requests, Replay(r)  PROVE  RequestsTyped'
    BY <1>9 DEF IInv, TypeOK, RequestsTyped, Replay, Goes, InOrder, Replayed, Missing
  <1>10. ASSUME NEW r \in Requests, Repair(r)  PROVE  RequestsTyped'
    BY <1>10 DEF IInv, TypeOK, RequestsTyped, Repair, Goes, InOrder, Replayed, Fault
  <1>11. ASSUME NEW r \in Requests, CloseSession(r)  PROVE  RequestsTyped'
    BY <1>11 DEF IInv, TypeOK, RequestsTyped, CloseSession, Goes, LoopFree
  <1>12. ASSUME NEW l \in Loops, ProcessDies(l)  PROVE  RequestsTyped'
    BY <1>12 DEF IInv, TypeOK, RequestsTyped, ProcessDies, Fault
  <1>13. CASE UNCHANGED <<call, pc, todo, reused>>
    BY <1>13 DEF IInv, TypeOK, RequestsTyped
  <1> QED
        BY <1>1, <1>2, <1>3, <1>4, <1>5, <1>6, <1>7, <1>8, <1>9, <1>10,
       <1>11, <1>12, <1>13 DEF Next, Proceeds, WorkerNext, vars, ListFiles,
       ReadFile, LockRow, WriteClaim, CommitClaim, CommitFails, Restore,
       StartEd, EdSavesFile, EdSavesRow, EdRaises, WorkerDies, SwitchGate,
       ReconcileReadsFiles, ReconcileRows, CloseCase

(* Rows, files and counters keep their types. *)
LEMMA RecordsTypedStep ==
    ASSUME IInv, [Next]_vars  PROVE  RecordsTyped'
  <1>1. ASSUME NEW r \in Requests, Commit(r)  PROVE  RecordsTyped'
    BY <1>1 DEF IInv, TypeOK, RecordsTyped, Status, Call, Commit, Enqueue, Goes, ItemsOf
  <1>2. ASSUME NEW r \in Requests, Materialize(r)  PROVE  RecordsTyped'
    BY <1>2 DEF IInv, TypeOK, RecordsTyped, Status, Materialize, Goes, InOrder, Fault
  <1>3. ASSUME NEW r \in Requests, Repair(r)  PROVE  RecordsTyped'
    <2>1. file' \in [Items -> Status] /\ faults' \in 0..MaxFaults
      BY <1>3 DEF IInv, TypeOK, Status, Repair, Fault
    <2> QED  BY <1>3, <2>1 DEF IInv, TypeOK, RecordsTyped, Repair
  <1>4. ASSUME NEW l \in Loops, ProcessDies(l)  PROVE  RecordsTyped'
    BY <1>4 DEF IInv, TypeOK, RecordsTyped, Status, ProcessDies, Fault
  <1>5. ASSUME NEW w \in Workers, WriteClaim(w)  PROVE  RecordsTyped'
    BY <1>5 DEF IInv, TypeOK, RecordsTyped, Status, WriteClaim, NextFile, ClaimFile, Fault
  <1>6. ASSUME NEW w \in Workers, CommitClaim(w)  PROVE  RecordsTyped'
    BY <1>6 DEF IInv, TypeOK, RecordsTyped, Status, CommitClaim
  <1>7. ASSUME NEW w \in Workers, CommitFails(w)  PROVE  RecordsTyped'
    BY <1>7 DEF IInv, TypeOK, RecordsTyped, Status, CommitFails, Fault
  <1>8. ASSUME NEW w \in Workers, Restore(w)  PROVE  RecordsTyped'
    BY <1>8 DEF IInv, TypeOK, RecordsTyped, Status, Restore, NextFile
  <1>9. ASSUME NEW w \in Workers, EdSavesFile(w)  PROVE  RecordsTyped'
    BY <1>9 DEF IInv, TypeOK, RecordsTyped, Status, EdSavesFile, NextFile
  <1>10. ASSUME NEW w \in Workers, EdSavesRow(w)  PROVE  RecordsTyped'
    BY <1>10 DEF IInv, TypeOK, RecordsTyped, Status, EdSavesRow, NextFile
  <1>11. ASSUME NEW w \in Workers, EdRaises(w)  PROVE  RecordsTyped'
    BY <1>11 DEF IInv, TypeOK, RecordsTyped, Status, EdRaises, NextFile, Fault
  <1>12. ASSUME NEW w \in Workers, WorkerDies(w)  PROVE  RecordsTyped'
    BY <1>12 DEF IInv, TypeOK, RecordsTyped, Status, WorkerDies, Fault
  <1>13. CASE SwitchGate
    BY <1>13 DEF IInv, TypeOK, RecordsTyped, Status, SwitchGate
  <1>14. CASE ReconcileReadsFiles
    BY <1>14 DEF IInv, TypeOK, RecordsTyped, Status, ReconcileReadsFiles
  <1>15. CASE ReconcileRows
    BY <1>15 DEF IInv, TypeOK, RecordsTyped, Status, ReconcileRows
  <1>16. ASSUME NEW s \in Symbols, CloseCase(s)  PROVE  RecordsTyped'
    BY <1>16 DEF IInv, TypeOK, RecordsTyped, Status, CloseCase
  <1>17. CASE UNCHANGED <<anchor, cases, row, file, paused, switches, snapshot, faults>>
    BY <1>17 DEF IInv, TypeOK, RecordsTyped, Status
  <1> QED
        BY <1>1, <1>2, <1>3, <1>4, <1>5, <1>6, <1>7, <1>8, <1>9, <1>10,
       <1>11, <1>12, <1>13, <1>14, <1>15, <1>16, <1>17 DEF Next, Proceeds,
       WorkerNext, vars, Receive, Enter, LockKey, LockSymbol, Validate,
       Refuse, Replay, CloseSession, ListFiles, ReadFile, LockRow, StartEd

(* Workers keep their types. *)
LEMMA WorkersTypedStep ==
    ASSUME IInv, [Next]_vars  PROVE  WorkersTyped'
  <1>1. ASSUME NEW w \in Workers, ListFiles(w)  PROVE  WorkersTyped'
    BY <1>1 DEF IInv, TypeOK, WorkersTyped, ListFiles
  <1>2. ASSUME NEW w \in Workers, ReadFile(w)  PROVE  WorkersTyped'
    <2>1. wpc[w] = "listed" /\ runs' = runs
      BY <1>2 DEF ReadFile
    <2>2. wlist' \in [Workers -> SUBSET Items]
      BY <1>2 DEF IInv, TypeOK, ReadFile
    <2>3. CASE UNCHANGED witem
      <3>1. \E x \in {"idle", "listed"} : wpc' = [wpc EXCEPT ![w] = x]
        BY <1>2, <2>3 DEF IInv, TypeOK, Items, ReadFile
      <3> QED  BY <2>1, <2>2, <2>3, <3>1 DEF IInv, TypeOK, WorkersTyped
    <2>4. CASE \E i \in Items : /\ witem' = [witem EXCEPT ![w] = i]
                                /\ wpc' = [wpc EXCEPT ![w] = "claiming"]
      <3>1. NoItem \notin Items
        BY DEF Items
      <3> QED  BY <2>1, <2>2, <2>4, <3>1 DEF IInv, TypeOK, WorkersTyped
    <2> QED  BY <1>2, <2>3, <2>4 DEF IInv, TypeOK, ReadFile
  <1>3. ASSUME NEW w \in Workers, LockRow(w)  PROVE  WorkersTyped'
    BY <1>3 DEF IInv, TypeOK, WorkersTyped, LockRow, NextFile, Claimable, RowFree
  <1>4. ASSUME NEW w \in Workers, WriteClaim(w)  PROVE  WorkersTyped'
    BY <1>4 DEF IInv, TypeOK, WorkersTyped, WriteClaim, NextFile, ClaimFile, Fault
  <1>5. ASSUME NEW w \in Workers, CommitClaim(w)  PROVE  WorkersTyped'
    BY <1>5 DEF IInv, TypeOK, WorkersTyped, CommitClaim
  <1>6. ASSUME NEW w \in Workers, CommitFails(w)  PROVE  WorkersTyped'
    BY <1>6 DEF IInv, TypeOK, WorkersTyped, CommitFails, Fault
  <1>7. ASSUME NEW w \in Workers, Restore(w)  PROVE  WorkersTyped'
    BY <1>7 DEF IInv, TypeOK, WorkersTyped, Restore, NextFile
  <1>8. ASSUME NEW w \in Workers, StartEd(w)  PROVE  WorkersTyped'
    BY <1>8 DEF IInv, TypeOK, WorkersTyped, StartEd
  <1>9. ASSUME NEW w \in Workers, EdSavesFile(w)  PROVE  WorkersTyped'
    BY <1>9 DEF IInv, TypeOK, WorkersTyped, EdSavesFile, NextFile
  <1>10. ASSUME NEW w \in Workers, EdSavesRow(w)  PROVE  WorkersTyped'
    BY <1>10 DEF IInv, TypeOK, WorkersTyped, EdSavesRow, NextFile
  <1>11. ASSUME NEW w \in Workers, EdRaises(w)  PROVE  WorkersTyped'
    BY <1>11 DEF IInv, TypeOK, WorkersTyped, EdRaises, NextFile, Fault
  <1>12. ASSUME NEW w \in Workers, WorkerDies(w)  PROVE  WorkersTyped'
    BY <1>12 DEF IInv, TypeOK, WorkersTyped, WorkerDies, Fault
  <1>13. CASE UNCHANGED <<wpc, witem, wlist, runs>>
    BY <1>13 DEF IInv, TypeOK, WorkersTyped
  <1> QED
        BY <1>1, <1>2, <1>3, <1>4, <1>5, <1>6, <1>7, <1>8, <1>9, <1>10,
       <1>11, <1>12, <1>13 DEF Next, Proceeds, WorkerNext, vars, Receive,
       Enter, LockKey, LockSymbol, Validate, Commit, Refuse, Materialize,
       Replay, Repair, CloseSession, ProcessDies, SwitchGate,
       ReconcileReadsFiles, ReconcileRows, CloseCase

(* Only an acceptance makes a row of a queue item, and it makes all of them. *)
LEMMA RowsAreAcceptedStep ==
    ASSUME IInv, [Next]_vars  PROVE  RowsAreAccepted'
  <1>1. ASSUME NEW r \in Requests, Commit(r)  PROVE  RowsAreAccepted'
    <2>1. call[r].key \in Keys /\ call[r].symbols \subseteq Symbols
      BY DEF IInv, TypeOK, Call
    <2>2. anchor[call[r].key] = {}
      BY <1>1 DEF IInv, KeysExclude, Commit
    <2> SUFFICES ASSUME NEW k \in Keys, NEW s \in Symbols
                 PROVE  row'[<<k, s>>] # "absent" <=> s \in anchor'[k]
      BY DEF RowsAreAccepted
    <2>3. <<k, s>> \in Items
      BY DEF Items
    <2>4. row'[<<k, s>>] = IF k = call[r].key /\ s \in call[r].symbols THEN "queued"
                           ELSE row[<<k, s>>]
      BY <1>1, <2>3 DEF Commit, Enqueue, ItemsOf
    <2>5. anchor'[k] = IF k = call[r].key THEN call[r].symbols ELSE anchor[k]
      BY <1>1, <2>1 DEF IInv, TypeOK, Commit
    <2> QED
      BY <2>2, <2>4, <2>5 DEF IInv, RowsAreAccepted
  <1>2. ASSUME NEW w \in Workers, CommitClaim(w)  PROVE  RowsAreAccepted'
    BY <1>2 DEF IInv, TypeOK, Items, RowsAreAccepted, WorkIsOnFile, RowsPrecedeFiles, CommitClaim
  <1>3. ASSUME NEW w \in Workers, CommitFails(w)  PROVE  RowsAreAccepted'
    <2>1. witem[w] \in Items /\ row[witem[w]] # "absent"
      BY <1>3 DEF IInv, TypeOK, WorkIsOnFile, RowsPrecedeFiles, CommitFails
    <2>2. \A i \in Items : row'[i] # "absent" <=> row[i] # "absent"
      BY <1>3, <2>1 DEF IInv, TypeOK, CommitFails
    <2>3. anchor' = anchor
      BY <1>3 DEF CommitFails
    <2> QED  BY <2>2, <2>3 DEF IInv, Items, RowsAreAccepted
  <1>4. ASSUME NEW w \in Workers, EdSavesRow(w)  PROVE  RowsAreAccepted'
    BY <1>4 DEF IInv, TypeOK, Items, RowsAreAccepted, WorkIsOnFile, RowsPrecedeFiles, EdSavesRow, NextFile
  <1>5. CASE ReconcileRows
    BY <1>5 DEF IInv, TypeOK, Items, RowsAreAccepted, WorkIsOnFile, RowsPrecedeFiles, ReconcileRows
  <1>6. CASE UNCHANGED <<row, anchor>>
    BY <1>6 DEF IInv, TypeOK, Items, RowsAreAccepted, WorkIsOnFile, RowsPrecedeFiles
  <1> QED
        BY <1>1, <1>2, <1>3, <1>4, <1>5, <1>6 DEF Next, Proceeds,
       WorkerNext, vars, Receive, Enter, LockKey, LockSymbol, Validate,
       Refuse, Materialize, Replay, Repair, CloseSession, ProcessDies,
       ListFiles, ReadFile, LockRow, WriteClaim, Restore, StartEd,
       EdSavesFile, EdRaises, WorkerDies, SwitchGate, ReconcileReadsFiles,
       CloseCase

(* Nobody writes a file before the row is committed: a request only for     *)
(* accepted items, a worker only over a file.                              *)
LEMMA RowsPrecedeFilesStep ==
    ASSUME IInv, [Next]_vars  PROVE  RowsPrecedeFiles'
  <1>1. ASSUME NEW r \in Requests, Commit(r)  PROVE  RowsPrecedeFiles'
    BY <1>1 DEF IInv, TypeOK, RowsPrecedeFiles, Commit, Enqueue
  <1>2. ASSUME NEW r \in Requests, Materialize(r)  PROVE  RowsPrecedeFiles'
    <2>1. PICK s \in todo[r] :
                 file' = file \/ file' = [file EXCEPT ![<<call[r].key, s>>] = "queued"]
      BY <1>2 DEF Materialize, InOrder
    <2>2. call[r].key \in Keys /\ s \in Symbols /\ <<call[r].key, s>> \in Items
      BY DEF IInv, TypeOK, Call, Items
    <2>3. row[<<call[r].key, s>>] # "absent"
      BY <1>2, <2>2 DEF IInv, WritersAreAccepted, RowsAreAccepted, Materialize
    <2>4. row' = row
      BY <1>2 DEF Materialize
    <2> QED  BY <2>1, <2>2, <2>3, <2>4 DEF IInv, TypeOK, RowsPrecedeFiles
  <1>3. ASSUME NEW r \in Requests, Repair(r)  PROVE  RowsPrecedeFiles'
    <2>1. PICK s \in todo[r] :
                 file' = file \/ file' = [file EXCEPT ![<<call[r].key, s>>] = "queued"]
      BY <1>3 DEF Repair, InOrder
    <2>2. call[r].key \in Keys /\ s \in Symbols /\ <<call[r].key, s>> \in Items
      BY DEF IInv, TypeOK, Call, Items
    <2>3. row[<<call[r].key, s>>] # "absent"
      BY <1>3, <2>2 DEF IInv, WritersAreAccepted, RowsAreAccepted, Repair
    <2>4. row' = row
      BY <1>3 DEF Repair
    <2> QED  BY <2>1, <2>2, <2>3, <2>4 DEF IInv, TypeOK, RowsPrecedeFiles
  <1>4. ASSUME NEW w \in Workers, WriteClaim(w)  PROVE  RowsPrecedeFiles'
    BY <1>4 DEF IInv, TypeOK, Status, RowsPrecedeFiles, WorkIsOnFile, WriteClaim, NextFile, ClaimFile, Fault
  <1>5. ASSUME NEW w \in Workers, CommitClaim(w)  PROVE  RowsPrecedeFiles'
    BY <1>5 DEF IInv, TypeOK, Status, RowsPrecedeFiles, WorkIsOnFile, CommitClaim
  <1>6. ASSUME NEW w \in Workers, CommitFails(w)  PROVE  RowsPrecedeFiles'
    BY <1>6 DEF IInv, TypeOK, Status, RowsPrecedeFiles, WorkIsOnFile, CommitFails, Fault
  <1>7. ASSUME NEW w \in Workers, Restore(w)  PROVE  RowsPrecedeFiles'
    BY <1>7 DEF IInv, TypeOK, Status, RowsPrecedeFiles, WorkIsOnFile, Restore, NextFile
  <1>8. ASSUME NEW w \in Workers, EdSavesFile(w)  PROVE  RowsPrecedeFiles'
    BY <1>8 DEF IInv, TypeOK, Status, RowsPrecedeFiles, WorkIsOnFile, EdSavesFile, NextFile
  <1>9. ASSUME NEW w \in Workers, EdSavesRow(w)  PROVE  RowsPrecedeFiles'
    BY <1>9 DEF IInv, TypeOK, Status, RowsPrecedeFiles, WorkIsOnFile, EdSavesRow, NextFile
  <1>10. CASE ReconcileRows
    BY <1>10 DEF IInv, TypeOK, Status, RowsPrecedeFiles, WorkIsOnFile, ReconcileRows
  <1>11. CASE UNCHANGED <<row, file>>
    BY <1>11 DEF IInv, TypeOK, Status, RowsPrecedeFiles, WorkIsOnFile
  <1> QED
        BY <1>1, <1>2, <1>3, <1>4, <1>5, <1>6, <1>7, <1>8, <1>9, <1>10,
       <1>11 DEF Next, Proceeds, WorkerNext, vars, Receive, Enter, LockKey,
       LockSymbol, Validate, Refuse, Replay, CloseSession, ProcessDies,
       ListFiles, ReadFile, LockRow, StartEd, EdRaises, WorkerDies,
       SwitchGate, ReconcileReadsFiles, CloseCase

(* A worker takes up only what it has read in a file, and no file vanishes. *)
LEMMA WorkIsOnFileStep ==
    ASSUME IInv, [Next]_vars  PROVE  WorkIsOnFile'
  <1>1. ASSUME NEW r \in Requests, Materialize(r)  PROVE  WorkIsOnFile'
    <2>1. \A i \in Items : file[i] # "absent" => file'[i] # "absent"
      BY <1>1 DEF IInv, TypeOK, Materialize
    <2>2. witem' = witem
      BY <1>1 DEF Materialize
    <2> QED  BY <2>1, <2>2 DEF IInv, TypeOK, WorkIsOnFile
  <1>2. ASSUME NEW r \in Requests, Repair(r)  PROVE  WorkIsOnFile'
    <2>1. \A i \in Items : file[i] # "absent" => file'[i] # "absent"
      BY <1>2 DEF IInv, TypeOK, Repair
    <2>2. witem' = witem
      BY <1>2 DEF Repair
    <2> QED  BY <2>1, <2>2 DEF IInv, TypeOK, WorkIsOnFile
  <1>3. ASSUME NEW w \in Workers, ReadFile(w)  PROVE  WorkIsOnFile'
    BY <1>3 DEF IInv, TypeOK, WorkIsOnFile, ReadFile
  <1>4. ASSUME NEW w \in Workers, LockRow(w)  PROVE  WorkIsOnFile'
    BY <1>4 DEF IInv, TypeOK, WorkIsOnFile, LockRow, NextFile, Claimable, RowFree
  <1>5. ASSUME NEW w \in Workers, WriteClaim(w)  PROVE  WorkIsOnFile'
    BY <1>5 DEF IInv, TypeOK, WorkIsOnFile, WriteClaim, NextFile, ClaimFile, Fault
  <1>6. ASSUME NEW w \in Workers, Restore(w)  PROVE  WorkIsOnFile'
    BY <1>6 DEF IInv, TypeOK, WorkIsOnFile, Restore, NextFile
  <1>7. ASSUME NEW w \in Workers, EdSavesFile(w)  PROVE  WorkIsOnFile'
    BY <1>7 DEF IInv, TypeOK, WorkIsOnFile, EdSavesFile, NextFile
  <1>8. ASSUME NEW w \in Workers, EdSavesRow(w)  PROVE  WorkIsOnFile'
    BY <1>8 DEF IInv, TypeOK, WorkIsOnFile, EdSavesRow, NextFile
  <1>9. ASSUME NEW w \in Workers, EdRaises(w)  PROVE  WorkIsOnFile'
    BY <1>9 DEF IInv, TypeOK, WorkIsOnFile, EdRaises, NextFile, Fault
  <1>10. ASSUME NEW w \in Workers, WorkerDies(w)  PROVE  WorkIsOnFile'
    BY <1>10 DEF IInv, TypeOK, WorkIsOnFile, WorkerDies, Fault
  <1>11. CASE UNCHANGED <<file, witem>>
    BY <1>11 DEF IInv, TypeOK, WorkIsOnFile
  <1> QED
        BY <1>1, <1>2, <1>3, <1>4, <1>5, <1>6, <1>7, <1>8, <1>9, <1>10,
       <1>11 DEF Next, Proceeds, WorkerNext, vars, Receive, Enter, LockKey,
       LockSymbol, Validate, Commit, Refuse, Replay, CloseSession,
       ProcessDies, ListFiles, CommitClaim, CommitFails, StartEd,
       SwitchGate, ReconcileReadsFiles, ReconcileRows, CloseCase

(* What a request still has to write was accepted, now or before the replay. *)
LEMMA WritersAreAcceptedStep ==
    ASSUME IInv, [Next]_vars  PROVE  WritersAreAccepted'
  <1>1. ASSUME NEW r \in Requests, Receive(r)  PROVE  WritersAreAccepted'
    BY <1>1 DEF IInv, TypeOK, WritersAreAccepted, Receive, Goes
  <1>2. ASSUME NEW r \in Requests, Enter(r)  PROVE  WritersAreAccepted'
    BY <1>2 DEF IInv, TypeOK, WritersAreAccepted, Enter, Goes, LoopFree
  <1>3. ASSUME NEW r \in Requests, LockKey(r)  PROVE  WritersAreAccepted'
    BY <1>3 DEF IInv, TypeOK, WritersAreAccepted, LockKey, Goes, KeyFree
  <1>4. ASSUME NEW r \in Requests, LockSymbol(r)  PROVE  WritersAreAccepted'
    BY <1>4 DEF IInv, TypeOK, WritersAreAccepted, LockSymbol, InOrder, SymbolFree
  <1>5. ASSUME NEW r \in Requests, Validate(r)  PROVE  WritersAreAccepted'
    BY <1>5 DEF IInv, TypeOK, WritersAreAccepted, Validate, Goes
  <1>6. ASSUME NEW r \in Requests, Commit(r)  PROVE  WritersAreAccepted'
    <2>1. call[r].key \in Keys /\ call' = call
      BY <1>6 DEF IInv, TypeOK, Call, Commit
    <2>2. \A k \in Keys : anchor[k] \subseteq anchor'[k]
      BY <1>6, <2>1 DEF IInv, TypeOK, KeysExclude, Commit
    <2>3. \A q \in Requests : call[q].key \in Keys
      BY DEF IInv, TypeOK, Call
    <2>4. todo'[r] = call[r].symbols /\ anchor'[call[r].key] = call[r].symbols
      BY <1>6, <2>1 DEF IInv, TypeOK, Commit
    <2>5. \A q \in Requests \ {r} : pc'[q] = pc[q] /\ todo'[q] = todo[q]
      BY <1>6 DEF IInv, TypeOK, Commit, Goes
    <2> QED  BY <2>1, <2>2, <2>3, <2>4, <2>5 DEF IInv, WritersAreAccepted
  <1>7. ASSUME NEW r \in Requests, Refuse(r)  PROVE  WritersAreAccepted'
    BY <1>7 DEF IInv, TypeOK, WritersAreAccepted, Refuse, Goes
  <1>8. ASSUME NEW r \in Requests, Materialize(r)  PROVE  WritersAreAccepted'
    BY <1>8 DEF IInv, TypeOK, WritersAreAccepted, Materialize, Goes, InOrder, Fault
  <1>9. ASSUME NEW r \in Requests, Replay(r)  PROVE  WritersAreAccepted'
    BY <1>9 DEF IInv, TypeOK, WritersAreAccepted, Replay, Goes, InOrder, Replayed, Missing
  <1>10. ASSUME NEW r \in Requests, Repair(r)  PROVE  WritersAreAccepted'
    BY <1>10 DEF IInv, TypeOK, WritersAreAccepted, Repair, Goes, InOrder, Replayed, Fault
  <1>11. ASSUME NEW r \in Requests, CloseSession(r)  PROVE  WritersAreAccepted'
    BY <1>11 DEF IInv, TypeOK, WritersAreAccepted, CloseSession, Goes, LoopFree
  <1>12. ASSUME NEW l \in Loops, ProcessDies(l)  PROVE  WritersAreAccepted'
    BY <1>12 DEF IInv, TypeOK, WritersAreAccepted, ProcessDies, Fault
  <1>13. CASE UNCHANGED <<call, pc, todo, anchor>>
    BY <1>13 DEF IInv, TypeOK, WritersAreAccepted
  <1> QED
        BY <1>1, <1>2, <1>3, <1>4, <1>5, <1>6, <1>7, <1>8, <1>9, <1>10,
       <1>11, <1>12, <1>13 DEF Next, Proceeds, WorkerNext, vars, ListFiles,
       ReadFile, LockRow, WriteClaim, CommitClaim, CommitFails, Restore,
       StartEd, EdSavesFile, EdSavesRow, EdRaises, WorkerDies, SwitchGate,
       ReconcileReadsFiles, ReconcileRows, CloseCase

(* A key that is new has no rows: an acceptance queues only absent items.   *)
LEMMA AcceptanceQueuesNewItems ==
    ASSUME IInv, NEW r \in Requests, Commit(r)
    PROVE  \A i \in Items : row'[i] = row[i] \/ (row[i] = "absent" /\ row'[i] = "queued")
  <1> SUFFICES ASSUME NEW i \in Items, i \in ItemsOf(r)
               PROVE  row[i] = "absent"
    BY DEF Commit, Enqueue
  <1>1. i = <<i[1], i[2]>> /\ i[1] \in Keys /\ i[2] \in Symbols
    BY DEF Items
  <1>2. i[1] = call[r].key
    BY DEF ItemsOf
  <1>3. anchor[i[1]] = {}
    BY <1>2 DEF Commit, IInv, KeysExclude
  <1>4. row[<<i[1], i[2]>>] = "absent"
    BY <1>1, <1>3 DEF IInv, RowsAreAccepted
  <1> QED  BY <1>1, <1>4

(* The claim is committed before anything says that Ed has the item. *)
LEMMA ClaimsAreCommittedStep ==
    ASSUME IInv, [Next]_vars  PROVE  ClaimsAreCommitted'
  <1>1. ASSUME NEW r \in Requests, Commit(r)  PROVE  ClaimsAreCommitted'
    <2>1. \A i \in Items : row[i] \in Started => row'[i] = row[i]
      BY <1>1, AcceptanceQueuesNewItems DEF Started
    <2> QED  BY <1>1, <2>1 DEF IInv, TypeOK, Started, Owning, Claiming, ClaimsAreCommitted, Commit
  <1>2. ASSUME NEW r \in Requests, Materialize(r)  PROVE  ClaimsAreCommitted'
    BY <1>2 DEF IInv, TypeOK, Started, Owning, Claiming, ClaimsAreCommitted, Materialize, Goes, InOrder, Fault
  <1>3. ASSUME NEW r \in Requests, Repair(r)  PROVE  ClaimsAreCommitted'
    BY <1>3 DEF IInv, TypeOK, Started, Owning, Claiming, ClaimsAreCommitted, Repair, Goes, InOrder, Replayed, Fault
  <1>4. ASSUME NEW w \in Workers, ListFiles(w)  PROVE  ClaimsAreCommitted'
    BY <1>4 DEF IInv, TypeOK, Started, Owning, Claiming, ClaimsAreCommitted, ListFiles
  <1>5. ASSUME NEW w \in Workers, ReadFile(w)  PROVE  ClaimsAreCommitted'
    BY <1>5 DEF IInv, TypeOK, Started, Owning, Claiming, ClaimsAreCommitted, ReadFile
  <1>6. ASSUME NEW w \in Workers, LockRow(w)  PROVE  ClaimsAreCommitted'
    BY <1>6 DEF IInv, TypeOK, Started, Owning, Claiming, ClaimsAreCommitted, LockRow, NextFile, Claimable, RowFree
  <1>7. ASSUME NEW w \in Workers, WriteClaim(w)  PROVE  ClaimsAreCommitted'
    BY <1>7 DEF IInv, TypeOK, Started, Owning, Claiming, ClaimsAreCommitted, WriteClaim, NextFile, ClaimFile, Fault
  <1>8. ASSUME NEW w \in Workers, CommitClaim(w)  PROVE  ClaimsAreCommitted'
    BY <1>8 DEF IInv, TypeOK, Started, Owning, Claiming, ClaimsAreCommitted, CommitClaim
  <1>9. ASSUME NEW w \in Workers, CommitFails(w)  PROVE  ClaimsAreCommitted'
    BY <1>9 DEF IInv, TypeOK, Started, Owning, Claiming, ClaimsAreCommitted, CommitFails, Fault
  <1>10. ASSUME NEW w \in Workers, Restore(w)  PROVE  ClaimsAreCommitted'
    BY <1>10 DEF IInv, TypeOK, Started, Owning, Claiming, ClaimsAreCommitted, Restore, NextFile
  <1>11. ASSUME NEW w \in Workers, StartEd(w)  PROVE  ClaimsAreCommitted'
    BY <1>11 DEF IInv, TypeOK, Started, Owning, Claiming, ClaimsAreCommitted, StartEd
  <1>12. ASSUME NEW w \in Workers, EdSavesFile(w)  PROVE  ClaimsAreCommitted'
    BY <1>12 DEF IInv, TypeOK, Started, Owning, Claiming, ClaimsAreCommitted, EdSavesFile, NextFile
  <1>13. ASSUME NEW w \in Workers, EdSavesRow(w)  PROVE  ClaimsAreCommitted'
    BY <1>13 DEF IInv, TypeOK, Started, Owning, Claiming, ClaimsAreCommitted, EdSavesRow, NextFile
  <1>14. ASSUME NEW w \in Workers, EdRaises(w)  PROVE  ClaimsAreCommitted'
    BY <1>14 DEF IInv, TypeOK, Started, Owning, Claiming, ClaimsAreCommitted, EdRaises, NextFile, Fault
  <1>15. ASSUME NEW w \in Workers, WorkerDies(w)  PROVE  ClaimsAreCommitted'
    BY <1>15 DEF IInv, TypeOK, Started, Owning, Claiming, ClaimsAreCommitted, WorkerDies, Fault
  <1>16. CASE ReconcileReadsFiles
    BY <1>16 DEF IInv, TypeOK, Started, Owning, Claiming, ClaimsAreCommitted, ReconcileReadsFiles
  <1>17. CASE ReconcileRows
    BY <1>17 DEF IInv, TypeOK, Started, Owning, Claiming, ClaimsAreCommitted, ReconcileRows
  <1>18. CASE UNCHANGED <<row, file, snapshot, wpc, witem>>
    BY <1>18 DEF IInv, TypeOK, Started, Owning, Claiming, ClaimsAreCommitted
  <1> QED
        BY <1>1, <1>2, <1>3, <1>4, <1>5, <1>6, <1>7, <1>8, <1>9, <1>10,
       <1>11, <1>12, <1>13, <1>14, <1>15, <1>16, <1>17, <1>18 DEF Next,
       Proceeds, WorkerNext, vars, Receive, Enter, LockKey, LockSymbol,
       Validate, Refuse, Replay, CloseSession, ProcessDies, SwitchGate,
       CloseCase

(* The row lock of a claim lasts, and the row is queued, until the commit. *)
LEMMA ClaimsExcludeStep ==
    ASSUME IInv, [Next]_vars  PROVE  ClaimsExclude'
  <1>1. ASSUME NEW r \in Requests, Commit(r)  PROVE  ClaimsExclude'
    BY <1>1 DEF IInv, TypeOK, Started, Owning, Claiming, ClaimsExclude, Commit, Enqueue, Goes, ItemsOf
  <1>2. ASSUME NEW w \in Workers, ListFiles(w)  PROVE  ClaimsExclude'
    BY <1>2 DEF IInv, TypeOK, Started, Owning, Claiming, ClaimsExclude, ListFiles
  <1>3. ASSUME NEW w \in Workers, ReadFile(w)  PROVE  ClaimsExclude'
    BY <1>3 DEF IInv, TypeOK, Started, Owning, Claiming, ClaimsExclude, ReadFile
  <1>4. ASSUME NEW w \in Workers, LockRow(w)  PROVE  ClaimsExclude'
    BY <1>4 DEF IInv, TypeOK, Started, Owning, Claiming, ClaimsExclude, LockRow, NextFile, Claimable, RowFree
  <1>5. ASSUME NEW w \in Workers, WriteClaim(w)  PROVE  ClaimsExclude'
    BY <1>5 DEF IInv, TypeOK, Started, Owning, Claiming, ClaimsExclude, WriteClaim, NextFile, ClaimFile, Fault
  <1>6. ASSUME NEW w \in Workers, CommitClaim(w)  PROVE  ClaimsExclude'
    BY <1>6 DEF IInv, TypeOK, Started, Owning, Claiming, ClaimsExclude, CommitClaim
  <1>7. ASSUME NEW w \in Workers, CommitFails(w)  PROVE  ClaimsExclude'
    BY <1>7 DEF IInv, TypeOK, Started, Owning, Claiming, ClaimsExclude, CommitFails, Fault
  <1>8. ASSUME NEW w \in Workers, Restore(w)  PROVE  ClaimsExclude'
    BY <1>8 DEF IInv, TypeOK, Started, Owning, Claiming, ClaimsExclude, Restore, NextFile
  <1>9. ASSUME NEW w \in Workers, StartEd(w)  PROVE  ClaimsExclude'
    BY <1>9 DEF IInv, TypeOK, Started, Owning, Claiming, ClaimsExclude, StartEd
  <1>10. ASSUME NEW w \in Workers, EdSavesFile(w)  PROVE  ClaimsExclude'
    BY <1>10 DEF IInv, TypeOK, Started, Owning, Claiming, ClaimsExclude, EdSavesFile, NextFile
  <1>11. ASSUME NEW w \in Workers, EdSavesRow(w)  PROVE  ClaimsExclude'
    BY <1>11 DEF IInv, TypeOK, Started, Owning, Claiming, ClaimsExclude, ClaimsAreCommitted, EdSavesRow, NextFile
  <1>12. ASSUME NEW w \in Workers, EdRaises(w)  PROVE  ClaimsExclude'
    BY <1>12 DEF IInv, TypeOK, Started, Owning, Claiming, ClaimsExclude, EdRaises, NextFile, Fault
  <1>13. ASSUME NEW w \in Workers, WorkerDies(w)  PROVE  ClaimsExclude'
    BY <1>13 DEF IInv, TypeOK, Started, Owning, Claiming, ClaimsExclude, WorkerDies, Fault
  <1>14. CASE ReconcileRows
    BY <1>14 DEF IInv, TypeOK, Started, Owning, Claiming, ClaimsExclude, ClaimsAreCommitted, ReconcileRows
  <1>15. CASE UNCHANGED <<row, wpc, witem>>
    BY <1>15 DEF IInv, TypeOK, Started, Owning, Claiming, ClaimsExclude
  <1> QED
        BY <1>1, <1>2, <1>3, <1>4, <1>5, <1>6, <1>7, <1>8, <1>9, <1>10,
       <1>11, <1>12, <1>13, <1>14, <1>15 DEF Next, Proceeds, WorkerNext,
       vars, Receive, Enter, LockKey, LockSymbol, Validate, Refuse,
       Materialize, Replay, Repair, CloseSession, ProcessDies, SwitchGate,
       ReconcileReadsFiles, CloseCase

(* A claim that commits finds an item never started, and is alone with it. *)
LEMMA StartsAreClaimedStep ==
    ASSUME IInv, [Next]_vars  PROVE  StartsAreClaimed'
  <1>1. ASSUME NEW r \in Requests, Commit(r)  PROVE  StartsAreClaimed'
    <2>1. \A i \in Items : row[i] \in Started => row'[i] = row[i]
      BY <1>1, AcceptanceQueuesNewItems DEF Started
    <2> QED  BY <1>1, <2>1 DEF IInv, TypeOK, Started, Owning, Claiming, StartsAreClaimed, Commit
  <1>2. ASSUME NEW w \in Workers, ListFiles(w)  PROVE  StartsAreClaimed'
    BY <1>2 DEF IInv, TypeOK, Started, Owning, Claiming, StartsAreClaimed, ListFiles
  <1>3. ASSUME NEW w \in Workers, ReadFile(w)  PROVE  StartsAreClaimed'
    BY <1>3 DEF IInv, TypeOK, Started, Owning, Claiming, StartsAreClaimed, ReadFile
  <1>4. ASSUME NEW w \in Workers, LockRow(w)  PROVE  StartsAreClaimed'
    BY <1>4 DEF IInv, TypeOK, Started, Owning, Claiming, StartsAreClaimed, LockRow, NextFile, Claimable, RowFree
  <1>5. ASSUME NEW w \in Workers, WriteClaim(w)  PROVE  StartsAreClaimed'
    BY <1>5 DEF IInv, TypeOK, Started, Owning, Claiming, StartsAreClaimed, WriteClaim, NextFile, ClaimFile, Fault
  <1>6. ASSUME NEW w \in Workers, CommitClaim(w)  PROVE  StartsAreClaimed'
    BY <1>6 DEF IInv, TypeOK, Started, Owning, Claiming, StartsAreClaimed, ClaimsExclude, ClaimsAreCommitted, CommitClaim
  <1>7. ASSUME NEW w \in Workers, CommitFails(w)  PROVE  StartsAreClaimed'
    BY <1>7 DEF IInv, TypeOK, Started, Owning, Claiming, StartsAreClaimed, CommitFails, Fault
  <1>8. ASSUME NEW w \in Workers, Restore(w)  PROVE  StartsAreClaimed'
    BY <1>8 DEF IInv, TypeOK, Started, Owning, Claiming, StartsAreClaimed, Restore, NextFile
  <1>9. ASSUME NEW w \in Workers, StartEd(w)  PROVE  StartsAreClaimed'
    BY <1>9 DEF IInv, TypeOK, Started, Owning, Claiming, StartsAreClaimed, ClaimsAreCommitted, StartEd
  <1>10. ASSUME NEW w \in Workers, EdSavesFile(w)  PROVE  StartsAreClaimed'
    BY <1>10 DEF IInv, TypeOK, Started, Owning, Claiming, StartsAreClaimed, EdSavesFile, NextFile
  <1>11. ASSUME NEW w \in Workers, EdSavesRow(w)  PROVE  StartsAreClaimed'
    BY <1>11 DEF IInv, TypeOK, Started, Owning, Claiming, StartsAreClaimed, EdSavesRow, NextFile
  <1>12. ASSUME NEW w \in Workers, EdRaises(w)  PROVE  StartsAreClaimed'
    BY <1>12 DEF IInv, TypeOK, Started, Owning, Claiming, StartsAreClaimed, EdRaises, NextFile, Fault
  <1>13. ASSUME NEW w \in Workers, WorkerDies(w)  PROVE  StartsAreClaimed'
    BY <1>13 DEF IInv, TypeOK, Started, Owning, Claiming, StartsAreClaimed, WorkerDies, Fault
  <1>14. CASE ReconcileRows
    BY <1>14 DEF IInv, TypeOK, Started, Owning, Claiming, StartsAreClaimed, ReconcileRows
  <1>15. CASE UNCHANGED <<row, wpc, witem, runs>>
    BY <1>15 DEF IInv, TypeOK, Started, Owning, Claiming, StartsAreClaimed
  <1> QED
        BY <1>1, <1>2, <1>3, <1>4, <1>5, <1>6, <1>7, <1>8, <1>9, <1>10,
       <1>11, <1>12, <1>13, <1>14, <1>15 DEF Next, Proceeds, WorkerNext,
       vars, Receive, Enter, LockKey, LockSymbol, Validate, Refuse,
       Materialize, Replay, Repair, CloseSession, ProcessDies, SwitchGate,
       ReconcileReadsFiles, CloseCase

(* The key's lock keeps a second request out while a first accepts. *)
LEMMA KeysExcludeStep ==
    ASSUME IInv, [Next]_vars  PROVE  KeysExclude'
  <1>1. ASSUME NEW r \in Requests, Receive(r)  PROVE  KeysExclude'
    BY <1>1 DEF IInv, TypeOK, KeysExclude, HoldsKey, HasNoTransaction, Receive, Goes
  <1>2. ASSUME NEW r \in Requests, Enter(r)  PROVE  KeysExclude'
    BY <1>2 DEF IInv, TypeOK, KeysExclude, HoldsKey, HasNoTransaction, Enter, Goes, LoopFree
  <1>3. ASSUME NEW r \in Requests, LockKey(r)  PROVE  KeysExclude'
    BY <1>3 DEF IInv, TypeOK, KeysExclude, HoldsKey, HasNoTransaction, LockKey, Goes, KeyFree
  <1>4. ASSUME NEW r \in Requests, LockSymbol(r)  PROVE  KeysExclude'
    BY <1>4 DEF IInv, TypeOK, KeysExclude, HoldsKey, HasNoTransaction, LockSymbol, InOrder, SymbolFree
  <1>5. ASSUME NEW r \in Requests, Validate(r)  PROVE  KeysExclude'
    BY <1>5 DEF IInv, TypeOK, KeysExclude, HoldsKey, HasNoTransaction, Validate, Goes
  <1>6. ASSUME NEW r \in Requests, Commit(r)  PROVE  KeysExclude'
    BY <1>6 DEF IInv, TypeOK, KeysExclude, HoldsKey, HasNoTransaction, Commit, Enqueue, Goes, ItemsOf
  <1>7. ASSUME NEW r \in Requests, Refuse(r)  PROVE  KeysExclude'
    BY <1>7 DEF IInv, TypeOK, KeysExclude, HoldsKey, HasNoTransaction, Refuse, Goes
  <1>8. ASSUME NEW r \in Requests, Materialize(r)  PROVE  KeysExclude'
    BY <1>8 DEF IInv, TypeOK, KeysExclude, HoldsKey, HasNoTransaction, Materialize, Goes, InOrder, Fault
  <1>9. ASSUME NEW r \in Requests, Replay(r)  PROVE  KeysExclude'
    BY <1>9 DEF IInv, TypeOK, KeysExclude, HoldsKey, HasNoTransaction, Replay, Goes, InOrder, Replayed, Missing
  <1>10. ASSUME NEW r \in Requests, Repair(r)  PROVE  KeysExclude'
    BY <1>10 DEF IInv, TypeOK, KeysExclude, HoldsKey, HasNoTransaction, Repair, Goes, InOrder, Replayed, Fault
  <1>11. ASSUME NEW r \in Requests, CloseSession(r)  PROVE  KeysExclude'
    BY <1>11 DEF IInv, TypeOK, KeysExclude, HoldsKey, HasNoTransaction, CloseSession, Goes, LoopFree
  <1>12. ASSUME NEW l \in Loops, ProcessDies(l)  PROVE  KeysExclude'
    BY <1>12 DEF IInv, TypeOK, KeysExclude, HoldsKey, HasNoTransaction, ProcessDies, Fault
  <1>13. CASE UNCHANGED <<call, pc, anchor>>
    BY <1>13 DEF IInv, TypeOK, KeysExclude, HoldsKey, HasNoTransaction
  <1> QED
        BY <1>1, <1>2, <1>3, <1>4, <1>5, <1>6, <1>7, <1>8, <1>9, <1>10,
       <1>11, <1>12, <1>13 DEF Next, Proceeds, WorkerNext, vars, ListFiles,
       ReadFile, LockRow, WriteClaim, CommitClaim, CommitFails, Restore,
       StartEd, EdSavesFile, EdSavesRow, EdRaises, WorkerDies, SwitchGate,
       ReconcileReadsFiles, ReconcileRows, CloseCase

(* The locks of the symbols keep what a request has seen of the cases true. *)
LEMMA SymbolsExcludeStep ==
    ASSUME IInv, [Next]_vars  PROVE  SymbolsExclude'
  <1>1. ASSUME NEW r \in Requests, Receive(r)  PROVE  SymbolsExclude'
    BY <1>1 DEF IInv, TypeOK, SymbolsExclude, HoldsSymbol, OneOpenCase, Receive, Goes
  <1>2. ASSUME NEW r \in Requests, Enter(r)  PROVE  SymbolsExclude'
    BY <1>2 DEF IInv, TypeOK, SymbolsExclude, HoldsSymbol, OneOpenCase, Enter, Goes, LoopFree
  <1>3. ASSUME NEW r \in Requests, LockKey(r)  PROVE  SymbolsExclude'
    BY <1>3 DEF IInv, TypeOK, SymbolsExclude, HoldsSymbol, OneOpenCase, LockKey, Goes, KeyFree
  <1>4. ASSUME NEW r \in Requests, LockSymbol(r)  PROVE  SymbolsExclude'
    BY <1>4 DEF IInv, TypeOK, SymbolsExclude, HoldsSymbol, OneOpenCase, LockSymbol, InOrder, SymbolFree
  <1>5. ASSUME NEW r \in Requests, Validate(r)  PROVE  SymbolsExclude'
    <2>1. \A s \in Symbols : HoldsSymbol(r, s)' => HoldsSymbol(r, s)
      BY <1>5 DEF IInv, TypeOK, HoldsSymbol, Validate, Goes
    <2>2. \A q \in Requests \ {r} :
             /\ pc'[q] = pc[q] /\ todo'[q] = todo[q] /\ reused'[q] = reused[q]
             /\ \A s \in Symbols : HoldsSymbol(q, s)' <=> HoldsSymbol(q, s)
      BY <1>5 DEF IInv, TypeOK, HoldsSymbol, Validate, Goes
    <2>3. todo'[r] = {} /\ reused'[r] = {s \in call[r].symbols : cases[s] = 1}
      BY <1>5 DEF IInv, TypeOK, Validate, Goes
    <2>4. \A s \in call[r].symbols \ reused'[r] : cases[s] = 0
      <3>1. \A s \in call[r].symbols : s \in Symbols /\ cases[s] \in Nat /\ cases[s] <= 1
        BY <1>5 DEF IInv, TypeOK, Call, Validate
      <3> QED  BY <2>3, <3>1
    <2>5. call' = call /\ cases' = cases
      BY <1>5 DEF Validate
    <2> QED  BY <2>1, <2>2, <2>3, <2>4, <2>5 DEF IInv, SymbolsExclude, OneOpenCase
  <1>6. ASSUME NEW r \in Requests, Commit(r)  PROVE  SymbolsExclude'
    BY <1>6 DEF IInv, TypeOK, SymbolsExclude, HoldsSymbol, OneOpenCase, Call, Commit, Enqueue, Goes, ItemsOf
  <1>7. ASSUME NEW r \in Requests, Refuse(r)  PROVE  SymbolsExclude'
    BY <1>7 DEF IInv, TypeOK, SymbolsExclude, HoldsSymbol, OneOpenCase, Refuse, Goes
  <1>8. ASSUME NEW r \in Requests, Materialize(r)  PROVE  SymbolsExclude'
    BY <1>8 DEF IInv, TypeOK, SymbolsExclude, HoldsSymbol, OneOpenCase, Materialize, Goes, InOrder, Fault
  <1>9. ASSUME NEW r \in Requests, Replay(r)  PROVE  SymbolsExclude'
    BY <1>9 DEF IInv, TypeOK, SymbolsExclude, HoldsSymbol, OneOpenCase, Replay, Goes, InOrder, Replayed, Missing
  <1>10. ASSUME NEW r \in Requests, Repair(r)  PROVE  SymbolsExclude'
    BY <1>10 DEF IInv, TypeOK, SymbolsExclude, HoldsSymbol, OneOpenCase, Repair, Goes, InOrder, Replayed, Fault
  <1>11. ASSUME NEW r \in Requests, CloseSession(r)  PROVE  SymbolsExclude'
    BY <1>11 DEF IInv, TypeOK, SymbolsExclude, HoldsSymbol, OneOpenCase, CloseSession, Goes, LoopFree
  <1>12. ASSUME NEW l \in Loops, ProcessDies(l)  PROVE  SymbolsExclude'
    BY <1>12 DEF IInv, TypeOK, SymbolsExclude, HoldsSymbol, OneOpenCase, ProcessDies, Fault
  <1>13. ASSUME NEW s \in Symbols, CloseCase(s)  PROVE  SymbolsExclude'
    BY <1>13 DEF IInv, TypeOK, SymbolsExclude, HoldsSymbol, OneOpenCase, CloseCase
  <1>14. CASE UNCHANGED <<call, pc, todo, reused, cases>>
    BY <1>14 DEF IInv, TypeOK, SymbolsExclude, HoldsSymbol, OneOpenCase
  <1> QED
        BY <1>1, <1>2, <1>3, <1>4, <1>5, <1>6, <1>7, <1>8, <1>9, <1>10,
       <1>11, <1>12, <1>13, <1>14 DEF Next, Proceeds, WorkerNext, vars,
       ListFiles, ReadFile, LockRow, WriteClaim, CommitClaim, CommitFails,
       Restore, StartEd, EdSavesFile, EdSavesRow, EdRaises, WorkerDies,
       SwitchGate, ReconcileReadsFiles, ReconcileRows

-----------------------------------------------------------------------------
(* Types and locks together are inductive.                                 *)
LEMMA StepIInv ==
    ASSUME IInv, [Next]_vars  PROVE  IInv'
  <1>1. TypeOK'
    BY RequestsTypedStep, RecordsTypedStep, WorkersTypedStep
       DEF TypeOK, RequestsTyped, RecordsTyped, WorkersTyped
  <1> QED
    BY <1>1, RowsAreAcceptedStep, RowsPrecedeFilesStep, WorkIsOnFileStep,
       WritersAreAcceptedStep, ClaimsAreCommittedStep, ClaimsExcludeStep,
       StartsAreClaimedStep, KeysExcludeStep, SymbolsExcludeStep DEF IInv

(* It holds in every reachable state.                                     *)
THEOREM InductiveInvariant == Spec => []IInv
  BY InitIInv, StepIInv, PTL DEF Spec

(* Every variable keeps its type, and a worker has an item exactly while   *)
(* it treats one.                                                          *)
THEOREM TypeCorrect == Spec => []TypeOK
  <1>1. IInv => TypeOK
    BY DEF IInv
  <1> QED  BY <1>1, InductiveInvariant, PTL

(* No file for Ed exists before the transaction that accepts the request   *)
(* (published_feedback.py: commit, then materialize).                      *)
THEOREM RowsComeFirst == Spec => []RowsPrecedeFiles
  <1>1. IInv => RowsPrecedeFiles
    BY DEF IInv
  <1> QED  BY <1>1, InductiveInvariant, PTL

(* Ed is started at most once on an item                                   *)
(* (claim_published_feedback_queue_item).                                  *)
THEOREM EdStartsOnce == Spec => []ClaimedOnce
  <1>1. IInv => ClaimedOnce
    BY DEF IInv, StartsAreClaimed, ClaimedOnce
  <1> QED  BY <1>1, InductiveInvariant, PTL

(* A symbol never has two open cases of this origin.                       *)
THEOREM NoSecondCase == Spec => []OneOpenCase
  <1>1. IInv => OneOpenCase
    BY DEF IInv, SymbolsExclude
  <1> QED  BY <1>1, InductiveInvariant, PTL

-----------------------------------------------------------------------------
(* A row only advances.                                                    *)
Advances == \A i \in Items : Rank[row[i]] <= Rank[row'[i]]

(* What the ranks of the statuses are.                                     *)
LEMMA Ranks ==
    /\ \A x \in Status : Rank[x] \in Nat /\ Rank["absent"] <= Rank[x] /\ Rank[x] <= Rank["done"]
    /\ Rank["queued"] <= Rank["running"]
  BY DEF Rank, Status

(* Each of the five writers of a row moves it forward.                     *)
LEMMA StepAdvances ==
    ASSUME IInv, [Next]_vars  PROVE  Advances
  <1>0. row \in [Items -> Status] /\ \A i \in Items : Rank[row[i]] <= Rank[row[i]]
    BY Ranks DEF IInv, TypeOK
  <1>1. ASSUME NEW r \in Requests, Commit(r)  PROVE  Advances
    <2>1. \A i \in Items : row'[i] = row[i] \/ (row[i] = "absent" /\ row'[i] = "queued")
      BY <1>1, AcceptanceQueuesNewItems
    <2> QED  BY <1>0, <2>1, Ranks DEF Advances, Status
  <1>2. ASSUME NEW w \in Workers, CommitClaim(w) \/ CommitFails(w)  PROVE  Advances
    <2>1. row[witem[w]] = "queued"
      BY <1>2 DEF IInv, ClaimsExclude, Claiming, CommitClaim, CommitFails
    <2>2. \A i \in Items : row'[i] = row[i] \/ (row[i] = "queued" /\ row'[i] = "running")
      BY <1>0, <1>2, <2>1 DEF CommitClaim, CommitFails
    <2> QED  BY <1>0, <2>2, Ranks DEF Advances
  <1>3. ASSUME NEW w \in Workers, EdSavesRow(w)  PROVE  Advances
    <2>1. \A i \in Items : row'[i] = row[i] \/ row'[i] = "done"
      BY <1>0, <1>3 DEF EdSavesRow
    <2> QED  BY <1>0, <2>1, Ranks DEF Advances
  <1>4. CASE ReconcileRows
    <2>1. \A i \in Items : row'[i] = row[i] \/ row'[i] = "done"
      BY <1>0, <1>4 DEF ReconcileRows
    <2> QED  BY <1>0, <2>1, Ranks DEF Advances
  <1>5. CASE UNCHANGED row
    BY <1>0, <1>5 DEF Advances
  <1> QED
    BY <1>1, <1>2, <1>3, <1>4, <1>5
       DEF Next, Proceeds, WorkerNext, vars, Receive, Enter, LockKey, LockSymbol, Validate, Refuse, Materialize, Replay, Repair, CloseSession, ProcessDies, ListFiles, ReadFile, LockRow, WriteClaim, Restore, StartEd, EdSavesFile, EdRaises, WorkerDies, SwitchGate, ReconcileReadsFiles, CloseCase

(* Neither a replay, nor a second acceptance, nor a failed claim, nor a    *)
(* reconciliation takes a queue row back.                                  *)
THEOREM RowsAdvance == Spec => RowsMoveForward
  <1>1. IInv /\ [Next]_vars => [\A i \in Items : Rank[row[i]] <= Rank[row'[i]]]_vars
    BY StepAdvances DEF Advances
  <1> QED  BY <1>1, InductiveInvariant, PTL DEF Spec, RowsMoveForward

-----------------------------------------------------------------------------
(* With one event loop.                                                    *)
OneLoop == \A l, m \in Loops : l = m

(* The stretch of a handler without an await has the process to itself.    *)
LoopsExclude == \A q, r \in Requests : pc[q] \in OnLoop /\ pc[r] \in OnLoop => q = r

(* What a request is about to write is not there yet.                      *)
UnwrittenYet ==
    \A r \in Requests, s \in Symbols :
       \/ pc[r] = "committed" /\ s \in todo[r]
       \/ pc[r] = "repairing" /\ InOrder(todo[r], s)
       => file[<<call[r].key, s>>] = "absent"

(* A handler enters its stretch only when the loop is free.                *)
LEMMA LoopsExcludeStep ==
    ASSUME IInv, OneLoop, LoopsExclude, [Next]_vars  PROVE  LoopsExclude'
  <1>0. \A q, r \in Requests : call[q].loop = call[r].loop
    BY DEF IInv, TypeOK, Call, OneLoop
  <1>1. ASSUME NEW r \in Requests, Receive(r)  PROVE  LoopsExclude'
    BY <1>1 DEF IInv, TypeOK, LoopsExclude, OnLoop, Receive, Goes
  <1>2. ASSUME NEW r \in Requests, Enter(r)  PROVE  LoopsExclude'
    BY <1>0, <1>2 DEF IInv, TypeOK, LoopsExclude, Enter, Goes, LoopFree
  <1>3. ASSUME NEW r \in Requests, LockKey(r)  PROVE  LoopsExclude'
    BY <1>3 DEF IInv, TypeOK, LoopsExclude, OnLoop, LockKey, Goes, KeyFree
  <1>4. ASSUME NEW r \in Requests, LockSymbol(r)  PROVE  LoopsExclude'
    BY <1>4 DEF IInv, TypeOK, LoopsExclude, OnLoop, LockSymbol, InOrder, SymbolFree
  <1>5. ASSUME NEW r \in Requests, Validate(r)  PROVE  LoopsExclude'
    BY <1>5 DEF IInv, TypeOK, LoopsExclude, OnLoop, Validate, Goes
  <1>6. ASSUME NEW r \in Requests, Commit(r)  PROVE  LoopsExclude'
    BY <1>6 DEF IInv, TypeOK, LoopsExclude, OnLoop, Commit, Enqueue, Goes, ItemsOf
  <1>7. ASSUME NEW r \in Requests, Refuse(r)  PROVE  LoopsExclude'
    BY <1>7 DEF IInv, TypeOK, LoopsExclude, OnLoop, Refuse, Goes
  <1>8. ASSUME NEW r \in Requests, Materialize(r)  PROVE  LoopsExclude'
    BY <1>8 DEF IInv, TypeOK, LoopsExclude, OnLoop, Materialize, Goes, InOrder, Fault
  <1>9. ASSUME NEW r \in Requests, Replay(r)  PROVE  LoopsExclude'
    BY <1>9 DEF IInv, TypeOK, LoopsExclude, OnLoop, Replay, Goes, InOrder, Replayed, Missing
  <1>10. ASSUME NEW r \in Requests, Repair(r)  PROVE  LoopsExclude'
    BY <1>10 DEF IInv, TypeOK, LoopsExclude, OnLoop, Repair, Goes, InOrder, Replayed, Fault
  <1>11. ASSUME NEW r \in Requests, CloseSession(r)  PROVE  LoopsExclude'
    BY <1>11 DEF IInv, TypeOK, LoopsExclude, OnLoop, CloseSession, Goes, LoopFree
  <1>12. ASSUME NEW l \in Loops, ProcessDies(l)  PROVE  LoopsExclude'
    BY <1>12 DEF IInv, TypeOK, LoopsExclude, OnLoop, ProcessDies, Fault
  <1>13. CASE UNCHANGED <<call, pc>>
    BY <1>13 DEF IInv, TypeOK, LoopsExclude, OnLoop
  <1> QED
        BY <1>1, <1>2, <1>3, <1>4, <1>5, <1>6, <1>7, <1>8, <1>9, <1>10,
       <1>11, <1>12, <1>13 DEF Next, Proceeds, WorkerNext, vars, ListFiles,
       ReadFile, LockRow, WriteClaim, CommitClaim, CommitFails, Restore,
       StartEd, EdSavesFile, EdSavesRow, EdRaises, WorkerDies, SwitchGate,
       ReconcileReadsFiles, ReconcileRows, CloseCase

(* Only the handler that has the loop writes the files of its key.         *)
LEMMA UnwrittenYetStep ==
    ASSUME IInv, LoopsExclude, UnwrittenYet, [Next]_vars  PROVE  UnwrittenYet'
  <1>1. ASSUME NEW r \in Requests, Receive(r)  PROVE  UnwrittenYet'
    BY <1>1 DEF IInv, TypeOK, Items, UnwrittenYet, Receive, Goes
  <1>2. ASSUME NEW r \in Requests, Enter(r)  PROVE  UnwrittenYet'
    BY <1>2 DEF IInv, TypeOK, Items, UnwrittenYet, Enter, Goes, LoopFree
  <1>3. ASSUME NEW r \in Requests, LockKey(r)  PROVE  UnwrittenYet'
    BY <1>3 DEF IInv, TypeOK, Items, UnwrittenYet, LockKey, Goes, KeyFree
  <1>4. ASSUME NEW r \in Requests, LockSymbol(r)  PROVE  UnwrittenYet'
    BY <1>4 DEF IInv, TypeOK, Items, UnwrittenYet, LockSymbol, InOrder, SymbolFree
  <1>5. ASSUME NEW r \in Requests, Validate(r)  PROVE  UnwrittenYet'
    BY <1>5 DEF IInv, TypeOK, Items, UnwrittenYet, Validate, Goes
  <1>6. ASSUME NEW r \in Requests, Commit(r)  PROVE  UnwrittenYet'
    <2>1. \A s \in call[r].symbols : file[<<call[r].key, s>>] = "absent"
      <3> SUFFICES ASSUME NEW s \in call[r].symbols
                   PROVE  file[<<call[r].key, s>>] = "absent"
        OBVIOUS
      <3>1. call[r].key \in Keys /\ s \in Symbols /\ <<call[r].key, s>> \in Items
        BY DEF IInv, TypeOK, Call, Items
      <3>2. row[<<call[r].key, s>>] = "absent"
        BY <1>6, <3>1 DEF IInv, KeysExclude, RowsAreAccepted, Commit
      <3> QED  BY <3>1, <3>2 DEF IInv, RowsPrecedeFiles
    <2>2. todo'[r] = call[r].symbols /\ pc'[r] = "committed"
      BY <1>6 DEF IInv, TypeOK, Commit, Goes
    <2>3. \A q \in Requests \ {r} : pc'[q] = pc[q] /\ todo'[q] = todo[q]
      BY <1>6 DEF IInv, TypeOK, Commit, Goes
    <2>4. call' = call /\ file' = file
      BY <1>6 DEF Commit
    <2> QED  BY <2>1, <2>2, <2>3, <2>4 DEF UnwrittenYet
  <1>7. ASSUME NEW r \in Requests, Refuse(r)  PROVE  UnwrittenYet'
    BY <1>7 DEF IInv, TypeOK, Items, UnwrittenYet, Refuse, Goes
  <1>8. ASSUME NEW r \in Requests, Materialize(r)  PROVE  UnwrittenYet'
    <2>1. PICK s \in Symbols :
             /\ InOrder(todo[r], s)
             /\ todo' = [todo EXCEPT ![r] = todo[r] \ {s}]
             /\ \/ file' = [file EXCEPT ![<<call[r].key, s>>] = "queued"]
                \/ UNCHANGED file
      BY <1>8 DEF Materialize
    <2>2. todo'[r] = todo[r] \ {s}
      BY <2>1 DEF IInv, TypeOK
    <2>3. pc[r] \in OnLoop /\ call' = call
      BY <1>8 DEF OnLoop, Materialize
    <2>4. \A q \in Requests \ {r} : pc'[q] = pc[q] /\ pc[q] \notin {"committed", "repairing"}
      BY <1>8, <2>3 DEF IInv, TypeOK, LoopsExclude, OnLoop, Materialize, Goes
    <2>5. ASSUME NEW t \in Symbols, pc'[r] \in {"committed", "repairing"}, t \in todo'[r]
          PROVE  file'[<<call[r].key, t>>] = "absent"
      <3>1. pc[r] = "committed"
        BY <1>8, <2>5 DEF IInv, TypeOK, Materialize, Goes
      <3>2. t \in todo[r] /\ t # s
        BY <2>5, <2>2
      <3>3. file[<<call[r].key, t>>] = "absent"
        BY <3>1, <3>2 DEF UnwrittenYet
      <3>4. <<call[r].key, t>> \in Items /\ <<call[r].key, s>> # <<call[r].key, t>>
        BY <3>2 DEF IInv, TypeOK, Call, Items
      <3> QED  BY <2>1, <3>3, <3>4 DEF IInv, TypeOK
    <2> QED  BY <2>3, <2>4, <2>5 DEF UnwrittenYet, InOrder
  <1>9. ASSUME NEW r \in Requests, Replay(r)  PROVE  UnwrittenYet'
    <2>1. call' = call /\ file' = file
      BY <1>9 DEF Replay
    <2>2. \A q \in Requests \ {r} : pc'[q] = pc[q] /\ todo'[q] = todo[q]
      BY <1>9 DEF IInv, TypeOK, Replay, Goes
    <2>3. pc'[r] # "committed"
      BY <1>9 DEF IInv, TypeOK, Replay, Goes, Replayed
    <2>4. ASSUME NEW s \in Symbols, pc'[r] = "repairing", InOrder(todo'[r], s)
          PROVE  file[<<call[r].key, s>>] = "absent"
      <3>1. todo' = todo /\ \E t \in Symbols : InOrder(todo[r], t) /\ Missing(<<call[r].key, t>>)
        BY <1>9, <2>4 DEF IInv, TypeOK, Replay, Goes, Replayed
      <3>2. PICK t \in Symbols : InOrder(todo[r], t) /\ Missing(<<call[r].key, t>>)
        BY <3>1
      <3>3. s <= t /\ t <= s
        BY <2>4, <3>1, <3>2 DEF InOrder
      <3>4. s \in Int /\ t \in Int
        OBVIOUS
      <3>5. s = t
        BY <3>3, <3>4
      <3> QED  BY <3>2, <3>5 DEF Missing
    <2> QED  BY <2>1, <2>2, <2>3, <2>4 DEF UnwrittenYet
  <1>10. ASSUME NEW r \in Requests, Repair(r)  PROVE  UnwrittenYet'
    <2>1. PICK s \in Symbols :
             /\ InOrder(todo[r], s)
             /\ todo' = [todo EXCEPT ![r] = todo[r] \ {s}]
             /\ \/ file' = [file EXCEPT ![<<call[r].key, s>>] = "queued"]
                \/ UNCHANGED file
      BY <1>10 DEF Repair
    <2>2. todo'[r] = todo[r] \ {s}
      BY <2>1 DEF IInv, TypeOK
    <2>3. pc[r] \in OnLoop /\ call' = call
      BY <1>10 DEF OnLoop, Repair
    <2>4. \A q \in Requests \ {r} : pc'[q] = pc[q] /\ pc[q] \notin {"committed", "repairing"}
      BY <1>10, <2>3 DEF IInv, TypeOK, LoopsExclude, OnLoop, Repair, Goes
    <2>5. ASSUME NEW t \in Symbols, pc'[r] \in {"committed", "repairing"}, t \in todo'[r]
          PROVE  file'[<<call[r].key, t>>] = "absent"
      <3>1. pc[r] = "committed"
        BY <1>10, <2>5 DEF IInv, TypeOK, Repair, Goes, Replayed
      <3>2. t \in todo[r] /\ t # s
        BY <2>5, <2>2
      <3>3. file[<<call[r].key, t>>] = "absent"
        BY <3>1, <3>2 DEF UnwrittenYet
      <3>4. <<call[r].key, t>> \in Items /\ <<call[r].key, s>> # <<call[r].key, t>>
        BY <3>2 DEF IInv, TypeOK, Call, Items
      <3> QED  BY <2>1, <3>3, <3>4 DEF IInv, TypeOK
    <2> QED  BY <2>3, <2>4, <2>5 DEF UnwrittenYet, InOrder
  <1>11. ASSUME NEW r \in Requests, CloseSession(r)  PROVE  UnwrittenYet'
    BY <1>11 DEF IInv, TypeOK, Items, UnwrittenYet, CloseSession, Goes, LoopFree
  <1>12. ASSUME NEW l \in Loops, ProcessDies(l)  PROVE  UnwrittenYet'
    BY <1>12 DEF IInv, TypeOK, Items, UnwrittenYet, ProcessDies, Fault
  <1>13. ASSUME NEW w \in Workers, WriteClaim(w)  PROVE  UnwrittenYet'
    <2>1. \A i \in Items : file[i] = "absent" => file'[i] = "absent"
      BY <1>13 DEF IInv, TypeOK, WorkIsOnFile, WriteClaim, ClaimFile
    <2>2. \A q \in Requests, s \in Symbols : <<call[q].key, s>> \in Items
      BY DEF IInv, TypeOK, Call, Items
    <2>3. call' = call /\ pc' = pc /\ todo' = todo
      BY <1>13 DEF WriteClaim
    <2> QED  BY <2>1, <2>2, <2>3 DEF UnwrittenYet
  <1>14. ASSUME NEW w \in Workers, Restore(w)  PROVE  UnwrittenYet'
    <2>1. \A i \in Items : file[i] = "absent" => file'[i] = "absent"
      BY <1>14 DEF IInv, TypeOK, WorkIsOnFile, Restore
    <2>2. \A q \in Requests, s \in Symbols : <<call[q].key, s>> \in Items
      BY DEF IInv, TypeOK, Call, Items
    <2>3. call' = call /\ pc' = pc /\ todo' = todo
      BY <1>14 DEF Restore
    <2> QED  BY <2>1, <2>2, <2>3 DEF UnwrittenYet
  <1>15. ASSUME NEW w \in Workers, EdSavesFile(w)  PROVE  UnwrittenYet'
    <2>1. \A i \in Items : file[i] = "absent" => file'[i] = "absent"
      BY <1>15 DEF IInv, TypeOK, WorkIsOnFile, EdSavesFile
    <2>2. \A q \in Requests, s \in Symbols : <<call[q].key, s>> \in Items
      BY DEF IInv, TypeOK, Call, Items
    <2>3. call' = call /\ pc' = pc /\ todo' = todo
      BY <1>15 DEF EdSavesFile
    <2> QED  BY <2>1, <2>2, <2>3 DEF UnwrittenYet
  <1>16. CASE UNCHANGED <<call, pc, todo, file>>
    BY <1>16 DEF IInv, TypeOK, Items, UnwrittenYet
  <1> QED
        BY <1>1, <1>2, <1>3, <1>4, <1>5, <1>6, <1>7, <1>8, <1>9, <1>10,
       <1>11, <1>12, <1>13, <1>14, <1>15, <1>16 DEF Next, Proceeds,
       WorkerNext, vars, ListFiles, ReadFile, LockRow, CommitClaim,
       CommitFails, StartEd, EdSavesRow, EdRaises, WorkerDies, SwitchGate,
       ReconcileReadsFiles, ReconcileRows, CloseCase

(* No write touches the file of finished work, but that of a worker whose  *)
(* claim could not be committed.                                           *)
FinishedStay ==
    \A i \in Items :
       file[i] = "done" =>
          \/ file'[i] = "done"
          \/ \E w \in Workers : wpc[w] = "restoring" /\ witem[w] = i

(* Of the five writers of a file, four find it unfinished or finish it.    *)
LEMMA StepFinishedStay ==
    ASSUME IInv, UnwrittenYet, [Next]_vars  PROVE  FinishedStay
  <1>1. ASSUME NEW r \in Requests, Materialize(r)  PROVE  FinishedStay
    <2>1. PICK s \in Symbols :
             /\ pc[r] = "committed" /\ s \in todo[r]
             /\ file' = file \/ file' = [file EXCEPT ![<<call[r].key, s>>] = "queued"]
      BY <1>1 DEF Materialize, InOrder
    <2>2. file[<<call[r].key, s>>] = "absent"
      BY <2>1 DEF UnwrittenYet
    <2> QED  BY <2>1, <2>2 DEF IInv, TypeOK, FinishedStay
  <1>2. ASSUME NEW r \in Requests, Repair(r)  PROVE  FinishedStay
    <2>1. PICK s \in Symbols :
             /\ pc[r] = "repairing" /\ InOrder(todo[r], s)
             /\ file' = file \/ file' = [file EXCEPT ![<<call[r].key, s>>] = "queued"]
      BY <1>2 DEF Repair
    <2>2. file[<<call[r].key, s>>] = "absent"
      BY <2>1 DEF UnwrittenYet
    <2> QED  BY <2>1, <2>2 DEF IInv, TypeOK, FinishedStay
  <1>3. ASSUME NEW w \in Workers, WriteClaim(w)  PROVE  FinishedStay
    BY <1>3 DEF IInv, TypeOK, FinishedStay, ClaimsExclude, ClaimsAreCommitted, Claiming, Started, WriteClaim, NextFile, ClaimFile, Fault
  <1>4. ASSUME NEW w \in Workers, Restore(w)  PROVE  FinishedStay
    BY <1>4 DEF IInv, TypeOK, FinishedStay, Restore, NextFile
  <1>5. ASSUME NEW w \in Workers, EdSavesFile(w)  PROVE  FinishedStay
    BY <1>5 DEF IInv, TypeOK, FinishedStay, EdSavesFile, NextFile
  <1>6. CASE UNCHANGED <<file>>
    BY <1>6 DEF IInv, TypeOK, FinishedStay
  <1> QED
        BY <1>1, <1>2, <1>3, <1>4, <1>5, <1>6 DEF Next, Proceeds,
       WorkerNext, vars, Receive, Enter, LockKey, LockSymbol, Validate,
       Commit, Refuse, Replay, CloseSession, ProcessDies, ListFiles,
       ReadFile, LockRow, CommitClaim, CommitFails, StartEd, EdSavesRow,
       EdRaises, WorkerDies, SwitchGate, ReconcileReadsFiles, ReconcileRows,
       CloseCase

(* In a single API process the file of finished work is never queued again *)
(* by an acceptance, a replay or a repair.                                 *)
THEOREM FinishedFilesAreKept ==
    ASSUME OneLoop  PROVE  Spec => FinishedFilesStay
  <1> DEFINE LoopInv == IInv /\ LoopsExclude /\ UnwrittenYet
  <1>1. Init => LoopInv
    BY InitIInv DEF Init, LoopsExclude, UnwrittenYet, OnLoop
  <1>2. LoopInv /\ [Next]_vars => LoopInv'
    BY StepIInv, LoopsExcludeStep, UnwrittenYetStep
  <1>3. LoopInv /\ [Next]_vars =>
          [\A i \in Items :
              file[i] = "done" =>
                 \/ file'[i] = "done"
                 \/ \E w \in Workers : wpc[w] = "restoring" /\ witem[w] = i]_vars
    BY StepFinishedStay DEF FinishedStay
  <1> QED  BY <1>1, <1>2, <1>3, PTL DEF Spec, FinishedFilesStay
=============================================================================
