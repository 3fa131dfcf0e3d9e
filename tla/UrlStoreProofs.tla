--------------------------- MODULE UrlStoreProofs ---------------------------
(***************************************************************************)
(* Proofs about UrlStore: for every number of tasks and domains, every set *)
(* of satellite tables and every number of retries and failing statements. *)
(***************************************************************************)
EXTENDS UrlStore, FiniteSetTheorems, TLAPS

(* What a step reads of the variables has its type.                        *)
StoreTyped ==
    /\ db \in [Domain -> Rows] /\ tx \in Rows /\ writer \in Owner
    /\ record \in [Task -> Records]
    /\ pc \in [Task -> Steps]
    /\ inserted \in [Task -> BOOLEAN]
    /\ coreFail \in [Task -> SUBSET Cause] /\ enrichFail \in [Task -> SUBSET Cause]
    /\ recorded \in [Task -> SUBSET Cause]
    /\ failures \subseteq Task

LEMMA RecordTyped ==
    ASSUME StoreTyped, NEW t \in Task
    PROVE  /\ record[t].domain \in Domain /\ record[t].core \subseteq CoreTable
           /\ record[t].enrich \subseteq EnrichTable /\ record[t].scan \in BOOLEAN
  BY StoreAssumption DEF StoreTyped, Observation

LEMMA CausesTyped ==
    ASSUME StoreTyped, NEW t \in Task
    PROVE  Causes(t) \subseteq Cause
  BY DEF StoreTyped, Causes, Cause

LEMMA NoRowsTyped == NoRows \in Rows
  BY DEF NoRows, Rows, Owner

LEMMA RollbackTyped ==
    ASSUME StoreTyped, NEW t \in Task, Rollback(t)
    PROVE  tx' \in Rows /\ writer' \in Owner
  BY NoRowsTyped DEF StoreTyped, Rollback, Owner

LEMMA RetryTyped ==
    ASSUME StoreTyped, NEW t \in Task, NEW transient \in BOOLEAN,
           NEW start \in Steps, NEW giveUp \in Steps, Retry(t, transient, start, giveUp),
           recorded' \in [Task -> SUBSET Cause]
    PROVE  StoreTyped'
<1>1. tx' \in Rows /\ writer' \in Owner
  BY RollbackTyped DEF Retry
<1>2. pc' \in [Task -> Steps]
  BY DEF Retry, Goto, StoreTyped
<1>3. QED
  BY <1>1, <1>2 DEF Retry, StoreTyped

LEMMA TypedStep ==
    ASSUME StoreTyped, NEW t \in Task, Run(t) \/ Stop(t)
    PROVE  StoreTyped'
<1> DEFINE D == record[t].domain
<1>1. D \in Domain /\ record[t].core \subseteq CoreTable /\ record[t].enrich \subseteq EnrichTable
  BY RecordTyped
<1>2. db[D] \in Rows
  BY <1>1 DEF StoreTyped
<1> HIDE DEF D
<1> USE DEF Goto, Steps
<1>3. CASE upsert_url_status_row(t)
  <2>1. tx' = [db[D] EXCEPT !.row = t] /\ writer' = t
    BY <1>3 DEF upsert_url_status_row, D
  <2>2. tx' \in Rows /\ writer' \in Owner
    BY <1>2, <2>1 DEF Rows, Owner
  <2>3. inserted' \in [Task -> BOOLEAN]
    BY <1>3 DEF upsert_url_status_row, StoreTyped
  <2>4. QED
    BY <1>3, <2>2, <2>3 DEF upsert_url_status_row, StoreTyped
<1>4. CASE InsertCore(t)
  <2>1. PICK failed \in SUBSET record[t].core :
          /\ tx' = [tx EXCEPT !.core = [c \in CoreTable |->
                       IF c \in record[t].core \ failed THEN t ELSE None]]
          /\ coreFail' = [coreFail EXCEPT ![t] = failed]
    BY <1>4 DEF InsertCore
  <2>2. tx' \in Rows
    BY <2>1 DEF StoreTyped, Rows, Owner
  <2>3. coreFail' \in [Task -> SUBSET Cause]
    BY <1>1, <2>1 DEF StoreTyped, Cause
  <2>4. QED
    BY <1>4, <2>2, <2>3 DEF InsertCore, StoreTyped
<1>5. CASE CoreCleanupFails(t)
  <2>1. PICK cleaned \in SUBSET CoreTable :
          tx' = [tx EXCEPT !.core = [c \in CoreTable |->
                       IF c \in cleaned THEN None ELSE tx.core[c]]]
    BY <1>5 DEF CoreCleanupFails
  <2>2. tx' \in Rows
    BY <2>1 DEF StoreTyped, Rows, Owner
  <2>3. coreFail' \in [Task -> SUBSET Cause]
    BY <1>5 DEF CoreCleanupFails, StoreTyped, Cause
  <2>4. QED
    BY <1>5, <2>2, <2>3 DEF CoreCleanupFails, StoreTyped
<1>6. CASE CoreCommit(t)
  BY <1>1, <1>6, NoRowsTyped DEF CoreCommit, StoreTyped, results, Owner
<1>7. CASE ReplaceEnrichment(t)
  <2>1. PICK failed \in SUBSET record[t].enrich :
          /\ tx' = [db[D] EXCEPT
                      !.enrich = [e \in EnrichTable |->
                          IF e \in record[t].enrich \ failed THEN t ELSE None],
                      !.partial = {},
                      !.by = t]
          /\ enrichFail' = [enrichFail EXCEPT ![t] = failed]
    BY <1>7 DEF ReplaceEnrichment, D
  <2>2. tx' \in Rows
    BY <1>2, <2>1 DEF Rows, Owner
  <2>3. enrichFail' \in [Task -> SUBSET Cause]
    BY <1>1, <2>1 DEF StoreTyped, Cause
  <2>4. QED
    BY <1>7, <2>2, <2>3 DEF ReplaceEnrichment, StoreTyped, Owner
<1>8. CASE InsertPartials(t)
  <2>1. PICK written \in SUBSET Causes(t) :
          /\ tx' = [tx EXCEPT !.partial = @ \cup {<<t, c>> : c \in written}]
          /\ recorded' = [recorded EXCEPT ![t] = written]
    BY <1>8 DEF InsertPartials
  <2>2. written \subseteq Cause
    BY CausesTyped
  <2>3. tx' \in Rows
    BY <2>1, <2>2 DEF StoreTyped, Rows
  <2>4. recorded' \in [Task -> SUBSET Cause]
    BY <2>1, <2>2 DEF StoreTyped
  <2>5. QED
    BY <1>8, <2>3, <2>4 DEF InsertPartials, StoreTyped
<1>9. CASE EnrichCommit(t)
  BY <1>1, <1>9, NoRowsTyped DEF EnrichCommit, StoreTyped, results, Owner
<1>10. CASE CoreError(t) \/ EnrichError(t) \/ FailureError(t)
  <2>1. PICK transient \in BOOLEAN, start \in Steps, giveUp \in Steps :
          Retry(t, transient, start, giveUp)
    BY <1>10 DEF CoreError, EnrichError, FailureError
  <2>2. recorded' \in [Task -> SUBSET Cause]
    BY <1>10 DEF CoreError, EnrichError, FailureError, StoreTyped
  <2>3. QED
    BY <2>1, <2>2, RetryTyped
<1>11. CASE record_partial_failures(t) \/ InsertFailure(t)
            \/ FailureCommit(t)
  BY <1>11 DEF record_partial_failures, InsertFailure, FailureCommit,
       StoreTyped, results, Owner
<1>12. CASE Interrupt(t) \/ Drop(t)
  BY <1>12, RollbackTyped DEF Interrupt, Drop, StoreTyped, results
<1>13. CASE RecordAbandoned(t)
  BY <1>13 DEF RecordAbandoned, StoreTyped, results
<1>14. QED
  BY <1>3, <1>4, <1>5, <1>6, <1>7, <1>8, <1>9, <1>10, <1>11, <1>12, <1>13 DEF Run, Stop

-----------------------------------------------------------------------------

(* A step of t changes no other task's place or results, and no record.    *)
LEMMA OwnStep ==
    ASSUME StoreTyped, NEW t \in Task, Run(t) \/ Stop(t)
    PROVE  /\ record' = record
           /\ \A s \in Task \ {t} :
                /\ pc'[s] = pc[s] /\ inserted'[s] = inserted[s]
                /\ coreFail'[s] = coreFail[s] /\ enrichFail'[s] = enrichFail[s]
                /\ recorded'[s] = recorded[s]
                /\ s \in cut' <=> s \in cut
           /\ cut \subseteq cut'
<1> USE DEF StoreTyped, Goto, results
<1>1. CASE upsert_url_status_row(t)
  BY <1>1 DEF upsert_url_status_row
<1>2. CASE InsertCore(t) \/ CoreCleanupFails(t)
  BY <1>2 DEF InsertCore, CoreCleanupFails
<1>3. CASE CoreCommit(t) \/ EnrichCommit(t)
  BY <1>3 DEF CoreCommit, EnrichCommit
<1>4. CASE ReplaceEnrichment(t) \/ InsertPartials(t)
  BY <1>4 DEF ReplaceEnrichment, InsertPartials
<1>5. CASE CoreError(t) \/ EnrichError(t) \/ FailureError(t)
  BY <1>5 DEF CoreError, EnrichError, FailureError, Retry
<1>6. CASE record_partial_failures(t) \/ InsertFailure(t)
           \/ FailureCommit(t) \/ Stop(t)
  BY <1>6 DEF record_partial_failures, InsertFailure, FailureCommit,
       Stop, Interrupt, RecordAbandoned, Drop
<1>7. QED
  BY <1>1, <1>2, <1>3, <1>4, <1>5, <1>6 DEF Run

(* What an error handed to with_sqlite_retry does: the lock is given back, *)
(* the results in the database stay, and the task starts over or gives up. *)
LEMMA RetryEffect ==
    ASSUME StoreTyped, NEW t \in Task,
           CoreError(t) \/ EnrichError(t) \/ FailureError(t)
    PROVE  /\ Rollback(t)
           /\ UNCHANGED <<db, record, inserted, coreFail, enrichFail, metric, failures, cut>>
           /\ \/ /\ pc[t] \in {"core", "core_commit"} /\ recorded' = recorded
                 /\ \E v \in {"core", "failing"} : pc' = [pc EXCEPT ![t] = v]
              \/ /\ pc[t] \in {"enrich", "enrich_commit"}
                 /\ recorded' = [recorded EXCEPT ![t] = {}]
                 /\ \E v \in {"enrich", "done"} : pc' = [pc EXCEPT ![t] = v]
              \/ /\ pc[t] \in {"failing", "fail_commit"} /\ recorded' = recorded
                 /\ \E v \in {"failing", "failed"} : pc' = [pc EXCEPT ![t] = v]
  BY DEF CoreError, EnrichError, FailureError, Retry, Goto

(* The write lock: held by the task that is inside a transaction.          *)
Holding == {"core_satellites", "core_commit", "partials", "enrich_commit",
            "fail_commit"}
LockInv == \A t \in Task : writer = t <=> pc[t] \in Holding

LEMMA LockStep ==
    ASSUME StoreTyped, LockInv, NEW t \in Task, Run(t) \/ Stop(t)
    PROVE  LockInv'
<1> USE DEF Holding
<1>0. None \notin Task
  BY StoreAssumption
(* The three ways a step treats the lock.                                  *)
<1>1. ASSUME NEW v, pc' = [pc EXCEPT ![t] = v], writer = None, writer' = t, v \in Holding
      PROVE  LockInv'
  BY <1>0, <1>1 DEF LockInv, StoreTyped
<1>2. ASSUME NEW v, pc' = [pc EXCEPT ![t] = v], writer' = writer,
             v \in Holding <=> pc[t] \in Holding
      PROVE  LockInv'
  BY <1>2 DEF LockInv, StoreTyped
<1>3. ASSUME NEW v, pc' = [pc EXCEPT ![t] = v], v \notin Holding,
             writer' = IF writer = t THEN None ELSE writer
      PROVE  LockInv'
  BY <1>0, <1>3 DEF LockInv, StoreTyped
<1>4. CASE upsert_url_status_row(t) \/ ReplaceEnrichment(t) \/ InsertFailure(t)
  BY <1>1, <1>4 DEF upsert_url_status_row, ReplaceEnrichment, InsertFailure, Goto
<1>5. CASE InsertCore(t) \/ CoreCleanupFails(t) \/ InsertPartials(t)
          
  BY <1>2, <1>5 DEF InsertCore, CoreCleanupFails, InsertPartials, Goto
<1>6. CASE record_partial_failures(t)
  BY <1>2, <1>6 DEF record_partial_failures, Goto
<1>7. CASE CoreCommit(t) \/ EnrichCommit(t) \/ FailureCommit(t)
  <2>1. pc[t] \in Holding /\ writer' = None
        /\ \E v \in {"enrich", "report", "failed"} : pc' = [pc EXCEPT ![t] = v]
    BY <1>7 DEF CoreCommit, EnrichCommit, FailureCommit, Goto
  <2>2. writer = t
    BY <2>1 DEF LockInv
  <2>3. QED
    BY <1>3, <2>1, <2>2
<1>8. CASE CoreError(t) \/ EnrichError(t) \/ FailureError(t)
  <2>1. \E v \in {"core", "failing", "enrich", "done", "failed"} : pc' = [pc EXCEPT ![t] = v]
    BY <1>8, RetryEffect
  <2>2. Rollback(t)
    BY <1>8, RetryEffect
  <2>3. QED
    BY <1>3, <2>1, <2>2 DEF Rollback
<1>9. CASE Interrupt(t) \/ Drop(t)
  BY <1>3, <1>9 DEF Interrupt, Drop, Rollback, Goto
<1>10. CASE RecordAbandoned(t)
  BY <1>10 DEF RecordAbandoned, LockInv
<1>11. QED
  BY <1>4, <1>5, <1>6, <1>7, <1>8, <1>9, <1>10 DEF Run, Stop

(* Nobody touches rows or transaction while another task has the lock.     *)
LEMMA LockStays ==
    ASSUME StoreTyped, LockInv, NEW t \in Task, NEW s \in Task, s # t, writer = s,
           Run(t) \/ Stop(t)
    PROVE  db' = db /\ tx' = tx
<1>0. pc[t] \notin Holding /\ writer # None /\ writer # t
  BY StoreAssumption DEF LockInv
<1>1. CASE CoreError(t) \/ EnrichError(t) \/ FailureError(t)
  BY <1>0, <1>1, RetryEffect DEF Rollback
<1>2. CASE Stop(t)
  BY <1>0, <1>2 DEF Stop, Interrupt, RecordAbandoned, Drop, Rollback
<1>3. CASE record_partial_failures(t) \/ InsertFailure(t)
           \/ FailureCommit(t)
  BY <1>0, <1>3 DEF record_partial_failures, InsertFailure, FailureCommit
<1>4. CASE upsert_url_status_row(t) \/ InsertCore(t) \/ CoreCleanupFails(t) \/ CoreCommit(t)
           \/ ReplaceEnrichment(t) \/ InsertPartials(t) \/ EnrichCommit(t)
  BY <1>0, <1>4 DEF upsert_url_status_row, InsertCore, CoreCleanupFails, CoreCommit,
       ReplaceEnrichment, InsertPartials, EnrichCommit, Holding
<1>5. QED
  BY <1>1, <1>2, <1>3, <1>4 DEF Run

-----------------------------------------------------------------------------

(* The rows present in f belong to one observation.                        *)
Uniform(f) == \A a, b \in DOMAIN f : (f[a] # None /\ f[b] # None) => f[a] = f[b]

(* A core or enrichment row that t had and that is missing has failed.     *)
CoreExplained(rows, t) ==
    \A c \in record[t].core :
        rows.core[c] = t \/ c \in coreFail[t] \/ CoreSatellites \in coreFail[t]
EnrichExplained(rows, t) ==
    \A e \in record[t].enrich : rows.enrich[e] = t \/ e \in enrichFail[t]

(* The open transaction of t: what it has changed of the domain's rows and *)
(* what it leaves as committed.                                            *)
TxOf(t) ==
    LET rows == db[record[t].domain] IN
    /\ pc[t] \in {"core_satellites", "core_commit"} =>
         /\ tx.row = t /\ tx.enrich = rows.enrich /\ tx.partial = rows.partial
         /\ tx.by = rows.by
         /\ inserted[t] <=> rows.row = None
    /\ pc[t] = "core_satellites" => tx.core = rows.core
    /\ pc[t] = "core_commit" =>
         /\ Uniform(tx.core) /\ CoreExplained(tx, t)
         /\ \A c \in CoreTable : tx.core[c] \in {t, None, rows.core[c]}
    /\ pc[t] \in {"partials", "enrich_commit"} =>
         /\ tx.row = rows.row /\ tx.core = rows.core /\ tx.by = t
         /\ EnrichExplained(tx, t)
         /\ \A e \in EnrichTable : tx.enrich[e] \in {t, None}
    /\ pc[t] = "partials" => tx.partial = {}
    /\ pc[t] = "enrich_commit" => tx.partial = {<<t, c>> : c \in recorded[t]}
TxInv == \A t \in Task : TxOf(t)

CoreMixed == \A d \in Domain : Uniform(db[d].core)

LEMMA TxStep ==
    ASSUME StoreTyped, LockInv, TxInv, CoreMixed, NEW t \in Task, Run(t) \/ Stop(t)
    PROVE  TxInv'
<1> USE DEF Holding
<1>0. record' = record /\ record[t].domain \in Domain /\ record[t].core \subseteq CoreTable
      /\ record[t].enrich \subseteq EnrichTable
  BY OwnStep, RecordTyped
<1>1. ASSUME NEW s \in Task, s # t PROVE TxOf(s)'
  <2>1. /\ pc'[s] = pc[s] /\ inserted'[s] = inserted[s] /\ coreFail'[s] = coreFail[s]
        /\ enrichFail'[s] = enrichFail[s] /\ recorded'[s] = recorded[s]
    BY <1>1, OwnStep
  <2>2. CASE pc[s] \in Holding
    <3>1. db' = db /\ tx' = tx
      BY <1>1, <2>2, LockStays DEF LockInv
    <3>2. TxOf(s)
      BY DEF TxInv
    <3>3. QED
      BY <1>0, <2>1, <3>1, <3>2 DEF TxOf, CoreExplained, EnrichExplained
  <2>3. CASE pc[s] \notin Holding
    BY <2>1, <2>3 DEF TxOf
  <2>4. QED
    BY <2>2, <2>3
<1> SUFFICES TxOf(t)'
  BY <1>1 DEF TxInv
<1>2. ASSUME pc'[t] \notin Holding PROVE TxOf(t)'
  BY <1>2 DEF TxOf
<1>3. TxOf(t)
  BY DEF TxInv
<1>4. db[record[t].domain] \in Rows /\ tx \in Rows
  BY <1>0 DEF StoreTyped
<1>5. CASE upsert_url_status_row(t)
  <2>1. /\ tx' = [db[record[t].domain] EXCEPT !.row = t] /\ db' = db
        /\ pc'[t] = "core_satellites"
        /\ inserted'[t] = (db[record[t].domain].row = None)
    BY <1>5 DEF upsert_url_status_row, Goto, StoreTyped
  <2>2. QED
    BY <1>0, <1>4, <2>1 DEF TxOf, Rows
<1>6. CASE InsertCore(t)
  <2>1. PICK failed \in SUBSET record[t].core :
          /\ tx' = [tx EXCEPT !.core = [c \in CoreTable |->
                       IF c \in record[t].core \ failed THEN t ELSE None]]
          /\ coreFail'[t] = failed
    BY <1>6 DEF InsertCore, StoreTyped
  <2>2. /\ pc[t] = "core_satellites" /\ pc'[t] = "core_commit" /\ db' = db
        /\ inserted' = inserted
    BY <1>6 DEF InsertCore, Goto, StoreTyped
  <2>3. tx' = [row |-> tx.row, core |-> tx'.core, enrich |-> tx.enrich,
               partial |-> tx.partial, by |-> tx.by]
    BY <1>4, <2>1 DEF Rows
  <2>4. tx'.core = [c \in CoreTable |-> IF c \in record[t].core \ failed THEN t ELSE None]
    BY <1>4, <2>1 DEF Rows
  <2>5. Uniform(tx.core)' /\ CoreExplained(tx, t)'
    BY <1>0, <2>1, <2>4 DEF Uniform, CoreExplained
  <2>6. \A c \in CoreTable : tx'.core[c] \in {t, None}
    BY <2>4
  <2>7. QED
    BY <1>0, <1>3, <2>2, <2>3, <2>5, <2>6 DEF TxOf
<1>7. CASE CoreCleanupFails(t)
  <2>1. PICK cleaned \in SUBSET CoreTable :
          tx' = [tx EXCEPT !.core = [c \in CoreTable |->
                       IF c \in cleaned THEN None ELSE tx.core[c]]]
    BY <1>7 DEF CoreCleanupFails
  <2>2. /\ pc[t] = "core_satellites" /\ pc'[t] = "core_commit" /\ db' = db
        /\ inserted' = inserted /\ coreFail'[t] = {CoreSatellites}
    BY <1>7 DEF CoreCleanupFails, Goto, StoreTyped
  <2>3. tx' = [row |-> tx.row, core |-> tx'.core, enrich |-> tx.enrich,
               partial |-> tx.partial, by |-> tx.by]
    BY <1>4, <2>1 DEF Rows
  <2>4. tx'.core = [c \in CoreTable |-> IF c \in cleaned THEN None ELSE tx.core[c]]
    BY <1>4, <2>1 DEF Rows
  <2>5. tx.core = db[record[t].domain].core /\ DOMAIN tx.core = CoreTable
    BY <1>3, <1>4, <2>2 DEF TxOf, Rows
  <2>6. Uniform(tx.core)
    BY <1>0, <2>5 DEF CoreMixed
  <2>7. Uniform(tx.core)' /\ CoreExplained(tx, t)'
    BY <2>2, <2>4, <2>5, <2>6 DEF Uniform, CoreExplained
  <2>8. \A c \in CoreTable : tx'.core[c] \in {None, db[record[t].domain].core[c]}
    BY <2>4, <2>5
  <2>9. QED
    BY <1>0, <1>3, <2>2, <2>3, <2>7, <2>8 DEF TxOf
<1>8. CASE ReplaceEnrichment(t)
  <2>1. PICK failed \in SUBSET record[t].enrich :
          /\ tx' = [db[record[t].domain] EXCEPT
                      !.enrich = [e \in EnrichTable |->
                          IF e \in record[t].enrich \ failed THEN t ELSE None],
                      !.partial = {},
                      !.by = t]
          /\ enrichFail'[t] = failed
    BY <1>8 DEF ReplaceEnrichment, StoreTyped
  <2>2. pc'[t] = "partials" /\ db' = db
    BY <1>8 DEF ReplaceEnrichment, Goto, StoreTyped
  <2>3. /\ tx'.row = db[record[t].domain].row /\ tx'.core = db[record[t].domain].core
        /\ tx'.partial = {} /\ tx'.by = t
        /\ tx'.enrich = [e \in EnrichTable |->
                          IF e \in record[t].enrich \ failed THEN t ELSE None]
    BY <1>4, <2>1 DEF Rows
  <2>4. EnrichExplained(tx, t)'
    BY <1>0, <2>1, <2>3 DEF EnrichExplained
  <2>5. QED
    BY <1>0, <2>2, <2>3, <2>4 DEF TxOf
<1>9. CASE InsertPartials(t)
  <2>1. PICK written \in SUBSET Causes(t) :
          /\ tx' = [tx EXCEPT !.partial = @ \cup {<<t, c>> : c \in written}]
          /\ recorded'[t] = written
    BY <1>9 DEF InsertPartials, StoreTyped
  <2>2. /\ pc[t] = "partials" /\ pc'[t] = "enrich_commit" /\ db' = db
        /\ enrichFail' = enrichFail
    BY <1>9 DEF InsertPartials, Goto, StoreTyped
  <2>3. /\ tx'.row = tx.row /\ tx'.core = tx.core /\ tx'.enrich = tx.enrich /\ tx'.by = tx.by
        /\ tx'.partial = tx.partial \cup {<<t, c>> : c \in written}
    BY <1>4, <2>1 DEF Rows
  <2>4. tx'.partial = {<<t, c>> : c \in recorded'[t]}
    BY <1>3, <2>1, <2>2, <2>3 DEF TxOf
  <2>5. QED
    BY <1>0, <1>3, <2>2, <2>3, <2>4 DEF TxOf, EnrichExplained
<1>10. CASE CoreCommit(t) \/ EnrichCommit(t) \/ FailureCommit(t) \/ record_partial_failures(t)
            \/ Interrupt(t) \/ Drop(t)
  <2>1. pc'[t] \notin Holding
    BY <1>10 DEF CoreCommit, EnrichCommit, FailureCommit, record_partial_failures, Interrupt,
         Drop, Goto, StoreTyped
  <2>2. QED
    BY <1>2, <2>1
<1>11. CASE CoreError(t) \/ EnrichError(t) \/ FailureError(t)
  <2>1. pc'[t] \notin Holding
    BY <1>11, RetryEffect DEF StoreTyped
  <2>2. QED
    BY <1>2, <2>1
<1>12. CASE InsertFailure(t)
  <2>1. pc'[t] = "fail_commit"
    BY <1>12 DEF InsertFailure, Goto, StoreTyped
  <2>2. QED
    BY <2>1 DEF TxOf
<1>13. CASE RecordAbandoned(t)
  BY <1>0, <1>3, <1>13 DEF RecordAbandoned, TxOf, CoreExplained, EnrichExplained, results
<1>14. QED
  BY <1>5, <1>6, <1>7, <1>8, <1>9, <1>10, <1>11, <1>12, <1>13 DEF Run, Stop

-----------------------------------------------------------------------------

(* A task is past its core transaction, and past its enrichment: unless it *)
(* was cut off somewhere, its place says so.                               *)
Ended == {"failing", "fail_commit", "failed", "dropped"}
Stored(t) ==
    \/ pc[t] \in {"enrich", "partials", "enrich_commit", "report", "done", "dropped"}
    \/ t \in cut /\ pc[t] \in Ended
Written(t) == pc[t] \in {"report", "done", "dropped"} \/ (t \in cut /\ pc[t] \in Ended)

(* What is committed for a domain: rows of one observation each, and all   *)
(* of tasks that observed this domain and whose transaction has committed, *)
(* with the gaps of the current rows explained by what these tasks noted.  *)
RowsOf(d) ==
    LET rows == db[d] IN
    /\ Uniform(rows.core) /\ Uniform(rows.enrich)
    /\ \A t \in Task :
         /\ rows.row = t =>
              /\ record[t].domain = d /\ Stored(t)
              /\ CoreExplained(rows, t)
         /\ (\E c \in CoreTable : rows.core[c] = t) => Stored(t)
         /\ (\E e \in EnrichTable : rows.enrich[e] = t) => Written(t)
         /\ rows.by = t =>
              /\ record[t].domain = d /\ Written(t)
              /\ EnrichExplained(rows, t)
              /\ \A c \in recorded[t] : <<t, c>> \in rows.partial
         /\ \A c \in Cause : <<t, c>> \in rows.partial =>
              record[t].domain = d /\ Written(t) /\ c \in recorded[t]
RowsInv == \A d \in Domain : RowsOf(d)

(* A step that commits nothing, and that changes no result of a task whose *)
(* transaction has committed, leaves all this true.                        *)
LEMMA RowsKept ==
    ASSUME RowsInv, record' = record, NEW d \in Domain, db'[d] = db[d],
           \A s \in Task : Stored(s) => Stored(s)' /\ coreFail'[s] = coreFail[s],
           \A s \in Task : Written(s) =>
               Written(s)' /\ enrichFail'[s] = enrichFail[s] /\ recorded'[s] = recorded[s]
    PROVE  RowsOf(d)'
<1>1. RowsOf(d)
  BY DEF RowsInv
<1> DEFINE rows == db[d]
<1>2. db'[d] = rows
  OBVIOUS
<1> HIDE DEF rows
<1>3. /\ Uniform(rows.core) /\ Uniform(rows.enrich)
      /\ \A t \in Task :
         /\ rows.row = t =>
              /\ record[t].domain = d /\ Stored(t)
              /\ CoreExplained(rows, t)
         /\ (\E c \in CoreTable : rows.core[c] = t) => Stored(t)
         /\ (\E e \in EnrichTable : rows.enrich[e] = t) => Written(t)
         /\ rows.by = t =>
              /\ record[t].domain = d /\ Written(t)
              /\ EnrichExplained(rows, t)
              /\ \A c \in recorded[t] : <<t, c>> \in rows.partial
         /\ \A c \in Cause : <<t, c>> \in rows.partial =>
              record[t].domain = d /\ Written(t) /\ c \in recorded[t]
  BY <1>1 DEF RowsOf, rows
<1>4. ASSUME NEW t \in Task
      PROVE  /\ rows.row = t =>
                  /\ record'[t].domain = d /\ Stored(t)'
                  /\ \A c \in record'[t].core : rows.core[c] = t \/ c \in coreFail'[t]
                                                \/ CoreSatellites \in coreFail'[t]
             /\ (\E c \in CoreTable : rows.core[c] = t) => Stored(t)'
             /\ (\E e \in EnrichTable : rows.enrich[e] = t) => Written(t)'
             /\ rows.by = t =>
                  /\ record'[t].domain = d /\ Written(t)'
                  /\ \A e \in record'[t].enrich : rows.enrich[e] = t \/ e \in enrichFail'[t]
                  /\ \A c \in recorded'[t] : <<t, c>> \in rows.partial
             /\ \A c \in Cause : <<t, c>> \in rows.partial =>
                  record'[t].domain = d /\ Written(t)' /\ c \in recorded'[t]
  BY <1>3 DEF CoreExplained, EnrichExplained
<1>5. QED
  BY <1>2, <1>3, <1>4 DEF RowsOf, CoreExplained, EnrichExplained

(* What a step of t does to where the tasks are.                           *)
LEMMA PlacesStep ==
    ASSUME StoreTyped, NEW t \in Task, Run(t) \/ Stop(t)
    PROVE  /\ \A s \in Task \ {t} : (Stored(s)' <=> Stored(s)) /\ (Written(s)' <=> Written(s))
           /\ Stored(t) => Stored(t)'
           /\ Written(t) => Written(t)'
<1> USE DEF Goto, StoreTyped
<1>1. /\ \A s \in Task \ {t} : pc'[s] = pc[s] /\ (s \in cut' <=> s \in cut)
      /\ t \in cut => t \in cut'
  BY OwnStep
<1>2. \A s \in Task \ {t} : (Stored(s)' <=> Stored(s)) /\ (Written(s)' <=> Written(s))
  BY <1>1 DEF Stored, Written
<1>3. CASE CoreError(t) \/ EnrichError(t) \/ FailureError(t)
  BY <1>1, <1>2, <1>3, RetryEffect DEF Stored, Written, Ended
<1>4. CASE Stop(t)
  BY <1>1, <1>2, <1>4 DEF Stop, Interrupt, RecordAbandoned, Drop, Stored, Written, Ended,
       Persisting, Finished
<1>5. CASE upsert_url_status_row(t) \/ InsertCore(t) \/ CoreCleanupFails(t) \/ CoreCommit(t)
  BY <1>1, <1>2, <1>5 DEF upsert_url_status_row, InsertCore, CoreCleanupFails, CoreCommit,
       Stored, Written, Ended
<1>6. CASE ReplaceEnrichment(t) \/ InsertPartials(t) \/ EnrichCommit(t)
           \/ record_partial_failures(t)
  BY <1>1, <1>2, <1>6 DEF ReplaceEnrichment, InsertPartials, EnrichCommit,
       record_partial_failures, Stored, Written, Ended
<1>7. CASE InsertFailure(t) \/ FailureCommit(t)
  BY <1>1, <1>2, <1>7 DEF InsertFailure, FailureCommit, Stored, Written, Ended
<1>8. QED
  BY <1>3, <1>4, <1>5, <1>6, <1>7 DEF Run

LEMMA RowsStep ==
    ASSUME StoreTyped, LockInv, TxInv, RowsInv, NEW t \in Task, Run(t) \/ Stop(t)
    PROVE  RowsInv'
<1>0. PICK D \in Domain : D = record[t].domain /\ record' = record
  BY OwnStep, RecordTyped
<1>1. \A s \in Task \ {t} :
         /\ pc'[s] = pc[s] /\ coreFail'[s] = coreFail[s]
         /\ enrichFail'[s] = enrichFail[s] /\ recorded'[s] = recorded[s]
         /\ (Stored(s)' <=> Stored(s)) /\ (Written(s)' <=> Written(s))
  BY OwnStep, PlacesStep
<1>2. TxOf(t) /\ RowsOf(D) /\ tx \in Rows /\ db[D] \in Rows
  BY <1>0 DEF TxInv, RowsInv, StoreTyped
<1>a. (Stored(t) => Stored(t)') /\ (Written(t) => Written(t)')
  BY PlacesStep
<1>3. ASSUME Stored(t) => coreFail'[t] = coreFail[t],
             Written(t) => enrichFail'[t] = enrichFail[t] /\ recorded'[t] = recorded[t],
             NEW d \in Domain, db'[d] = db[d]
      PROVE  RowsOf(d)'
  <2>1. \A s \in Task : Stored(s) => Stored(s)' /\ coreFail'[s] = coreFail[s]
    BY <1>1, <1>3, <1>a
  <2>2. \A s \in Task : Written(s) =>
          Written(s)' /\ enrichFail'[s] = enrichFail[s] /\ recorded'[s] = recorded[s]
    BY <1>1, <1>3, <1>a
  <2>3. QED
    BY <1>0, <1>3, <2>1, <2>2, RowsKept
<1>4. CASE CoreCommit(t)
  <2>1. /\ pc[t] = "core_commit" /\ pc'[t] = "enrich" /\ db' = [db EXCEPT ![D] = tx]
        /\ UNCHANGED <<coreFail, enrichFail, recorded>>
    BY <1>0, <1>4 DEF CoreCommit, Goto, StoreTyped, results
  <2>2. ASSUME NEW d \in Domain, d # D PROVE RowsOf(d)'
    <3>1. db'[d] = db[d]
      BY <2>1, <2>2 DEF StoreTyped
    <3>2. QED
      BY <1>3, <2>1, <3>1
  <2>3. db'[D] = tx
    BY <1>0, <2>1 DEF StoreTyped
  <2>4. /\ tx.row = t /\ tx.enrich = db[D].enrich /\ tx.partial = db[D].partial
        /\ tx.by = db[D].by
        /\ Uniform(tx.core) /\ CoreExplained(tx, t)
        /\ \A c \in CoreTable : tx.core[c] \in {t, None, db[D].core[c]}
    BY <1>0, <1>2, <2>1 DEF TxOf
  <2>5. \A s \in Task : Stored(s) => Stored(s)'
    BY <1>1, <1>a
  <2>6. \A s \in Task : Written(s) => Written(s)'
    BY <1>1, <1>a
  <2>7. Stored(t)' /\ None \notin Task
    BY <2>1, StoreAssumption DEF Stored
  <2>8. Uniform(tx.enrich)
    BY <1>2, <2>4 DEF RowsOf
  <2>9. ASSUME NEW s \in Task
        PROVE  /\ tx.row = s => record'[s].domain = D /\ Stored(s)'
                               /\ \A c \in record'[s].core : tx.core[c] = s \/ c \in coreFail'[s]
                                                \/ CoreSatellites \in coreFail'[s]
               /\ (\E c \in CoreTable : tx.core[c] = s) => Stored(s)'
               /\ (\E e \in EnrichTable : tx.enrich[e] = s) => Written(s)'
               /\ tx.by = s =>
                    /\ record'[s].domain = D /\ Written(s)'
                    /\ \A e \in record'[s].enrich : tx.enrich[e] = s \/ e \in enrichFail'[s]
                    /\ \A c \in recorded'[s] : <<s, c>> \in tx.partial
               /\ \A c \in Cause : <<s, c>> \in tx.partial =>
                    record'[s].domain = D /\ Written(s)' /\ c \in recorded'[s]
    <3>1. tx.row = s => record'[s].domain = D /\ Stored(s)'
                               /\ \A c \in record'[s].core : tx.core[c] = s \/ c \in coreFail'[s]
                                                \/ CoreSatellites \in coreFail'[s]
      BY <1>0, <2>1, <2>4, <2>7 DEF CoreExplained
    <3>2. (\E c \in CoreTable : tx.core[c] = s) => Stored(s)'
      BY <1>2, <2>4, <2>5, <2>7 DEF RowsOf
    <3>3. (\E e \in EnrichTable : tx.enrich[e] = s) => Written(s)'
      BY <1>2, <2>4, <2>6 DEF RowsOf
    <3>4. tx.by = s =>
                    /\ record'[s].domain = D /\ Written(s)'
                    /\ \A e \in record'[s].enrich : tx.enrich[e] = s \/ e \in enrichFail'[s]
                    /\ \A c \in recorded'[s] : <<s, c>> \in tx.partial
      BY <1>0, <1>2, <2>1, <2>4, <2>6 DEF RowsOf, EnrichExplained
    <3>5. \A c \in Cause : <<s, c>> \in tx.partial =>
                    record'[s].domain = D /\ Written(s)' /\ c \in recorded'[s]
      BY <1>0, <1>2, <2>1, <2>4, <2>6 DEF RowsOf
    <3>6. QED
      BY <3>1, <3>2, <3>3, <3>4, <3>5
  <2>10. RowsOf(D)'
    BY <2>3, <2>4, <2>8, <2>9 DEF RowsOf, CoreExplained, EnrichExplained
  <2>11. QED
    BY <2>2, <2>10 DEF RowsInv
<1>5. CASE EnrichCommit(t)
  <2>1. /\ pc[t] = "enrich_commit" /\ pc'[t] = "report" /\ db' = [db EXCEPT ![D] = tx]
        /\ UNCHANGED <<coreFail, enrichFail, recorded>>
    BY <1>0, <1>5 DEF EnrichCommit, Goto, StoreTyped, results
  <2>2. ASSUME NEW d \in Domain, d # D PROVE RowsOf(d)'
    <3>1. db'[d] = db[d]
      BY <2>1, <2>2 DEF StoreTyped
    <3>2. QED
      BY <1>3, <2>1, <3>1
  <2>3. db'[D] = tx
    BY <1>0, <2>1 DEF StoreTyped
  <2>4. /\ tx.row = db[D].row /\ tx.core = db[D].core /\ tx.by = t
        /\ EnrichExplained(tx, t) /\ tx.partial = {<<t, c>> : c \in recorded[t]}
        /\ \A e \in EnrichTable : tx.enrich[e] \in {t, None}
    BY <1>0, <1>2, <2>1 DEF TxOf
  <2>5. \A s \in Task : Stored(s) => Stored(s)'
    BY <1>1, <1>a
  <2>7. Written(t)' /\ None \notin Task
    BY <2>1, StoreAssumption DEF Written
  <2>8. Uniform(tx.core) /\ Uniform(tx.enrich)
    BY <1>2, <2>4 DEF RowsOf, Uniform, Rows
  <2>9. ASSUME NEW s \in Task
        PROVE  /\ tx.row = s => record'[s].domain = D /\ Stored(s)'
                               /\ \A c \in record'[s].core : tx.core[c] = s \/ c \in coreFail'[s]
                                                \/ CoreSatellites \in coreFail'[s]
               /\ (\E c \in CoreTable : tx.core[c] = s) => Stored(s)'
               /\ (\E e \in EnrichTable : tx.enrich[e] = s) => Written(s)'
               /\ tx.by = s =>
                    /\ record'[s].domain = D /\ Written(s)'
                    /\ \A e \in record'[s].enrich : tx.enrich[e] = s \/ e \in enrichFail'[s]
                    /\ \A c \in recorded'[s] : <<s, c>> \in tx.partial
               /\ \A c \in Cause : <<s, c>> \in tx.partial =>
                    record'[s].domain = D /\ Written(s)' /\ c \in recorded'[s]
    <3>1. tx.row = s => record'[s].domain = D /\ Stored(s)'
                               /\ \A c \in record'[s].core : tx.core[c] = s \/ c \in coreFail'[s]
                                                \/ CoreSatellites \in coreFail'[s]
      BY <1>0, <1>2, <2>1, <2>4, <2>5 DEF RowsOf, CoreExplained
    <3>2. (\E c \in CoreTable : tx.core[c] = s) => Stored(s)'
      BY <1>2, <2>4, <2>5 DEF RowsOf
    <3>3. (\E e \in EnrichTable : tx.enrich[e] = s) => Written(s)'
      BY <2>4, <2>7
    <3>4. tx.by = s =>
                    /\ record'[s].domain = D /\ Written(s)'
                    /\ \A e \in record'[s].enrich : tx.enrich[e] = s \/ e \in enrichFail'[s]
                    /\ \A c \in recorded'[s] : <<s, c>> \in tx.partial
      BY <1>0, <2>1, <2>4, <2>7 DEF EnrichExplained
    <3>5. \A c \in Cause : <<s, c>> \in tx.partial =>
                    record'[s].domain = D /\ Written(s)' /\ c \in recorded'[s]
      BY <1>0, <2>1, <2>4, <2>7
    <3>6. QED
      BY <3>1, <3>2, <3>3, <3>4, <3>5
  <2>10. RowsOf(D)'
    BY <2>3, <2>8, <2>9 DEF RowsOf, CoreExplained, EnrichExplained
  <2>11. QED
    BY <2>2, <2>10 DEF RowsInv
(* The other steps commit no rows.                                         *)
<1>6. ASSUME db' = db,
             Stored(t) => coreFail'[t] = coreFail[t],
             Written(t) => enrichFail'[t] = enrichFail[t] /\ recorded'[t] = recorded[t]
      PROVE  RowsInv'
  BY <1>3, <1>6 DEF RowsInv
<1> USE DEF Stored, Written, Ended, Goto, StoreTyped, results
<1>7. CASE upsert_url_status_row(t) \/ InsertCore(t) \/ CoreCleanupFails(t)
  BY <1>6, <1>7 DEF upsert_url_status_row, InsertCore, CoreCleanupFails
<1>8. CASE ReplaceEnrichment(t) \/ InsertPartials(t) \/ record_partial_failures(t)
  BY <1>6, <1>8 DEF ReplaceEnrichment, InsertPartials, record_partial_failures
<1>9. CASE InsertFailure(t) \/ FailureCommit(t) \/ Stop(t)
  BY <1>6, <1>9 DEF InsertFailure, FailureCommit, Stop, Interrupt, RecordAbandoned, Drop
<1>10. CASE CoreError(t) \/ EnrichError(t) \/ FailureError(t)
  <2>1. db' = db /\ UNCHANGED <<coreFail, enrichFail>>
    BY <1>10, RetryEffect
  <2>2. pc[t] \in {"enrich", "enrich_commit"} \/ recorded' = recorded
    BY <1>10, RetryEffect
  <2>3. QED
    BY <1>6, <2>1, <2>2
<1>11. QED
  BY <1>4, <1>5, <1>7, <1>8, <1>9, <1>10 DEF Run

-----------------------------------------------------------------------------

(* The inductive invariant behind what readers find.                       *)
StoreInv == StoreTyped /\ LockInv /\ TxInv /\ RowsInv

LEMMA StoreInit == Init => StoreInv
<1> SUFFICES ASSUME Init PROVE StoreInv
  OBVIOUS
<1>1. StoreTyped
  BY NoRowsTyped DEF Init, StoreTyped, Owner, Steps
<1>2. LockInv
  BY StoreAssumption DEF Init, LockInv, Holding
<1>3. TxInv
  BY DEF Init, TxInv, TxOf
<1>4. RowsInv
  BY StoreAssumption DEF Init, RowsInv, RowsOf, NoRows, Uniform
<1>5. QED
  BY <1>1, <1>2, <1>3, <1>4 DEF StoreInv

LEMMA RowsUniform == RowsInv => CoreMixed
  BY DEF RowsInv, RowsOf, CoreMixed

LEMMA StoreStep == StoreInv /\ [Next]_vars => StoreInv'
<1> SUFFICES ASSUME StoreInv, [Next]_vars PROVE StoreInv'
  OBVIOUS
<1>1. CASE Next
  <2>1. PICK t \in Task : Run(t) \/ Stop(t)
    BY <1>1 DEF Next
  <2>2. QED
    BY <2>1, TypedStep, LockStep, TxStep, RowsStep, RowsUniform DEF StoreInv
<1>2. CASE UNCHANGED vars
  <2>1. StoreTyped' /\ LockInv'
    BY <1>2 DEF StoreInv, StoreTyped, LockInv, vars, results
  <2>2. TxInv'
    BY <1>2 DEF StoreInv, TxInv, TxOf, CoreExplained, EnrichExplained, vars, results
  <2>3. RowsInv'
    BY <1>2 DEF StoreInv, RowsInv, RowsOf, CoreExplained, EnrichExplained, Stored, Written,
         vars, results
  <2>4. QED
    BY <2>1, <2>2, <2>3 DEF StoreInv
<1>3. QED
  BY <1>1, <1>2

LEMMA FaithfulRows == StoreInv => StoredFaithfully
<1> SUFFICES ASSUME StoreInv PROVE StoredFaithfully
  OBVIOUS
<1>1. StoreTyped /\ RowsInv
  BY DEF StoreInv
<1>2. ASSUME NEW d \in Domain
      PROVE  /\ \A a, b \in CoreTable :
                  (db[d].core[a] # None /\ db[d].core[b] # None) => db[d].core[a] = db[d].core[b]
             /\ \A a, b \in EnrichTable :
                  (db[d].enrich[a] # None /\ db[d].enrich[b] # None)
                      => db[d].enrich[a] = db[d].enrich[b]
  <2>1. DOMAIN db[d].core = CoreTable /\ DOMAIN db[d].enrich = EnrichTable
    BY <1>1 DEF StoreTyped, Rows
  <2>2. QED
    BY <1>1, <2>1 DEF RowsInv, RowsOf, Uniform
<1>3. ObservationsNotMixed
  BY <1>2 DEF ObservationsNotMixed
<1>4. ASSUME NEW d \in Domain, NEW t \in Task, db[d].row = t, db[d].by = t
      PROVE  LET known(c) == \/ <<t, c>> \in db[d].partial
                             \/ c \in Causes(t) \ recorded[t]
             IN  /\ \A c \in record[t].core :
                      db[d].core[c] = t \/ known(c) \/ known(CoreSatellites)
                 /\ \A e \in record[t].enrich : db[d].enrich[e] = t \/ known(e)
                 /\ record[t].scan => known(ScanTime)
  <2>1. \A c \in Causes(t) : <<t, c>> \in db[d].partial \/ c \in Causes(t) \ recorded[t]
    BY <1>1, <1>4 DEF RowsInv, RowsOf
  <2>2. CoreExplained(db[d], t) /\ EnrichExplained(db[d], t)
    BY <1>1, <1>4 DEF RowsInv, RowsOf
  <2>3. coreFail[t] \subseteq Causes(t) /\ enrichFail[t] \subseteq Causes(t)
        /\ (record[t].scan => ScanTime \in Causes(t))
    BY DEF Causes
  <2>4. QED
    BY <2>1, <2>2, <2>3 DEF CoreExplained, EnrichExplained
<1>5. GapsExplained
  BY <1>4 DEF GapsExplained
<1>6. QED
  BY <1>3, <1>5 DEF StoredFaithfully

(* Readers can trust the rows of a domain, whatever tasks race, whichever  *)
(* statements fail and however often a transaction is retried: satellites  *)
(* of one observation each, and a cause for every row that is missing      *)
(* (upsert.rs, record.rs).                                                 *)
THEOREM StoreFaithful == Spec => []StoredFaithfully
  BY StoreInit, StoreStep, FaithfulRows, PTL DEF Spec

(* Readers keep the enrichment of a domain until the next enrichment       *)
(* transaction of that domain commits: no step that changes the fact row   *)
(* or the core rows touches it (upsert.rs, enrichment.rs).                 *)
THEOREM EnrichmentStays == Spec => EnrichmentKept
<1>1. StoreInv /\ [Next]_vars =>
        [\A d \in Domain :
          (db'[d].row # db[d].row \/ db'[d].core # db[d].core) =>
              (db'[d].enrich = db[d].enrich /\ db'[d].partial = db[d].partial)]_vars
  <2> SUFFICES ASSUME StoreInv, Next, NEW d \in Domain,
                      db'[d].row # db[d].row \/ db'[d].core # db[d].core
               PROVE  db'[d].enrich = db[d].enrich /\ db'[d].partial = db[d].partial
    BY DEF vars
  <2>1. PICK t \in Task : Run(t) \/ Stop(t)
    BY DEF Next
  <2>2. TxOf(t) /\ db \in [Domain -> Rows]
    BY DEF StoreInv, TxInv, StoreTyped
  <2>3. CASE CoreCommit(t)
    <3>1. pc[t] = "core_commit" /\ db' = [db EXCEPT ![record[t].domain] = tx]
      BY <2>3 DEF CoreCommit
    <3>2. d = record[t].domain /\ db'[d] = tx
      BY <2>2, <3>1
    <3>3. QED
      BY <2>2, <3>1, <3>2 DEF TxOf
  <2>4. CASE EnrichCommit(t)
    <3>1. pc[t] = "enrich_commit" /\ db' = [db EXCEPT ![record[t].domain] = tx]
      BY <2>4 DEF EnrichCommit
    <3>2. d = record[t].domain /\ db'[d] = tx
      BY <2>2, <3>1
    <3>3. QED
      BY <2>2, <3>1, <3>2 DEF TxOf
  <2>5. CASE CoreError(t) \/ EnrichError(t) \/ FailureError(t)
    BY <2>5, RetryEffect DEF StoreInv
  <2>6. CASE upsert_url_status_row(t) \/ InsertCore(t) \/ CoreCleanupFails(t)
             \/ ReplaceEnrichment(t) \/ InsertPartials(t) \/ record_partial_failures(t)
             \/ InsertFailure(t) \/ FailureCommit(t) \/ Stop(t)
    BY <2>6 DEF upsert_url_status_row, InsertCore, CoreCleanupFails, ReplaceEnrichment,
         InsertPartials, record_partial_failures, InsertFailure,
         FailureCommit, Stop, Interrupt, RecordAbandoned, Drop
  <2>7. QED
    BY <2>1, <2>3, <2>4, <2>5, <2>6 DEF Run
<1>2. QED
  BY <1>1, StoreInit, StoreStep, PTL DEF Spec, EnrichmentKept

-----------------------------------------------------------------------------

(* Who was told that it made the row of its domain: as soon as there is a  *)
(* row somebody was, and of the tasks past their core transaction one.     *)
CoreDone == {"enrich", "partials", "enrich_commit", "report", "done"}
InsertInv ==
    /\ \A t \in Task : pc[t] \in CoreDone => db[record[t].domain].row # None
    /\ \A s, t \in Task :
         /\ pc[s] \in CoreDone /\ pc[t] \in CoreDone /\ inserted[s] /\ inserted[t]
         /\ record[s].domain = record[t].domain
         => s = t
    /\ \A d \in Domain : db[d].row # None =>
         \E t \in Task : record[t].domain = d /\ Stored(t) /\ inserted[t]

LEMMA InsertStep ==
    ASSUME StoreInv, InsertInv, NEW t \in Task, Run(t) \/ Stop(t)
    PROVE  InsertInv'
<1> USE DEF CoreDone
<1>0. /\ record' = record /\ record[t].domain \in Domain
      /\ \A s \in Task \ {t} : /\ pc'[s] = pc[s] /\ inserted'[s] = inserted[s]
                               /\ Stored(s)' <=> Stored(s)
      /\ Stored(t) => Stored(t)'
  BY OwnStep, PlacesStep, RecordTyped DEF StoreInv
<1>1. \A s \in Task : record[s].domain \in Domain
  BY RecordTyped DEF StoreInv
<1>2. StoreTyped /\ TxOf(t)
  BY DEF StoreInv, TxInv
(* A step that commits no row, and after the core transaction keeps what   *)
(* the task was told.                                                      *)
<1>3. ASSUME \A d \in Domain : db'[d].row = db[d].row,
             pc'[t] \in CoreDone => pc[t] \in CoreDone,
             Stored(t) => inserted'[t] = inserted[t]
      PROVE  InsertInv'
  <2>1. /\ \A s \in Task : pc'[s] \in CoreDone => db'[record[s].domain].row # None
        /\ \A r, s \in Task :
             /\ pc'[r] \in CoreDone /\ pc'[s] \in CoreDone /\ inserted'[r] /\ inserted'[s]
             /\ record[r].domain = record[s].domain
             => r = s
    <3>1. pc[t] \in CoreDone => Stored(t)
      BY DEF Stored
    <3>2. QED
      BY <1>0, <1>1, <1>3, <3>1 DEF InsertInv
  <2>2. ASSUME NEW d \in Domain, db'[d].row # None
        PROVE  \E s \in Task : record[s].domain = d /\ Stored(s)' /\ inserted'[s]
    <3>1. PICK s \in Task : record[s].domain = d /\ Stored(s) /\ inserted[s]
      BY <1>3, <2>2 DEF InsertInv
    <3>2. Stored(s)' /\ inserted'[s]
      BY <1>0, <1>3, <3>1
    <3>3. QED
      BY <3>1, <3>2
  <2>3. QED
    BY <1>0, <2>1, <2>2 DEF InsertInv
<1>4. CASE CoreCommit(t)
  <2>1. /\ pc[t] = "core_commit" /\ pc'[t] = "enrich" /\ inserted' = inserted
        /\ db' = [db EXCEPT ![record[t].domain] = tx]
    BY <1>2, <1>4 DEF CoreCommit, Goto, StoreTyped, results
  <2>2. tx.row = t /\ (inserted[t] <=> db[record[t].domain].row = None) /\ t # None
    BY <1>2, <2>1, StoreAssumption DEF TxOf
  <2>3. /\ db'[record[t].domain].row = t
        /\ \A d \in Domain \ {record[t].domain} : db'[d] = db[d]
    BY <1>0, <1>2, <2>1, <2>2 DEF StoreTyped
  <2>4. \A s \in Task : pc'[s] \in CoreDone => db'[record[s].domain].row # None
    BY <1>0, <1>1, <2>1, <2>2, <2>3 DEF InsertInv
  <2>5. \A r, s \in Task :
         /\ pc'[r] \in CoreDone /\ pc'[s] \in CoreDone /\ inserted'[r] /\ inserted'[s]
         /\ record[r].domain = record[s].domain
         => r = s
    BY <1>0, <1>1, <2>1, <2>2 DEF InsertInv
  <2>6. ASSUME NEW d \in Domain, db'[d].row # None
        PROVE  \E s \in Task : record[s].domain = d /\ Stored(s)' /\ inserted'[s]
    <3>1. CASE db[d].row # None
      <4>1. PICK s \in Task : record[s].domain = d /\ Stored(s) /\ inserted[s]
        BY <3>1, <2>6 DEF InsertInv
      <4>2. Stored(s)' /\ inserted'[s]
        BY <1>0, <2>1, <4>1
      <4>3. QED
        BY <4>1, <4>2
    <3>2. CASE db[d].row = None
      <4>1. d = record[t].domain /\ inserted'[t] /\ Stored(t)'
        BY <2>1, <2>2, <2>3, <2>6, <3>2 DEF Stored
      <4>2. QED
        BY <4>1
    <3>3. QED
      BY <3>1, <3>2
  <2>7. QED
    BY <1>0, <2>4, <2>5, <2>6 DEF InsertInv
<1>5. CASE EnrichCommit(t)
  <2>1. /\ pc[t] = "enrich_commit" /\ pc'[t] = "report" /\ inserted' = inserted
        /\ db' = [db EXCEPT ![record[t].domain] = tx]
    BY <1>2, <1>5 DEF EnrichCommit, Goto, StoreTyped, results
  <2>2. tx.row = db[record[t].domain].row
    BY <1>2, <2>1 DEF TxOf
  <2>3. \A d \in Domain : db'[d].row = db[d].row
    BY <1>2, <2>1, <2>2 DEF StoreTyped
  <2>4. QED
    BY <1>3, <2>1, <2>3
<1>6. CASE CoreError(t) \/ EnrichError(t) \/ FailureError(t)
  <2>1. db' = db /\ inserted' = inserted
    BY <1>2, <1>6, RetryEffect
  <2>2. pc'[t] \in CoreDone => pc[t] \in CoreDone
    BY <1>2, <1>6, RetryEffect DEF StoreTyped
  <2>3. QED
    BY <1>3, <2>1, <2>2
<1> USE DEF Goto, results
<1>7. CASE upsert_url_status_row(t) \/ InsertCore(t) \/ CoreCleanupFails(t)
  <2>1. db' = db /\ ~Stored(t) /\ pc'[t] \notin CoreDone
    BY <1>2, <1>7 DEF upsert_url_status_row, InsertCore, CoreCleanupFails, StoreTyped, Stored,
         Ended
  <2>2. QED
    BY <1>3, <2>1
<1>8. CASE ReplaceEnrichment(t) \/ InsertPartials(t) \/ record_partial_failures(t)
  <2>1. db' = db /\ inserted' = inserted /\ pc[t] \in CoreDone /\ pc'[t] \in CoreDone
    BY <1>2, <1>8 DEF ReplaceEnrichment, InsertPartials, record_partial_failures, StoreTyped
  <2>2. QED
    BY <1>3, <2>1
<1>9. CASE InsertFailure(t) \/ FailureCommit(t) \/ Stop(t)
  <2>1. db' = db /\ inserted' = inserted /\ (pc'[t] \in CoreDone => pc[t] \in CoreDone)
    BY <1>2, <1>9 DEF InsertFailure, FailureCommit, Stop, Interrupt, RecordAbandoned, Drop,
         StoreTyped
  <2>2. QED
    BY <1>3, <2>1
<1>10. QED
  BY <1>4, <1>5, <1>6, <1>7, <1>8, <1>9 DEF Run

LEMMA AtMostOne ==
    ASSUME NEW S, \A x, y \in S : x = y
    PROVE  Cardinality(S) <= 1
<1>1. CASE S = {}
  BY <1>1, FS_EmptySet
<1>2. CASE S # {}
  <2>1. PICK x : S = {x}
    BY <1>2
  <2>2. QED
    BY <2>1, FS_Singleton
<1>3. QED
  BY <1>1, <1>2

LEMMA OneInsert == StoreInv /\ InsertInv => OneInsertPerDomain
<1> SUFFICES ASSUME StoreInv, InsertInv, NEW d \in Domain
             PROVE LET made == {t \in Task : record[t].domain = d /\ inserted[t]}
                       stored == {"enrich", "partials", "enrich_commit", "report", "done"}
                   IN  /\ Cardinality({t \in made : pc[t] \in stored}) <= 1
                       /\ db[d].row # None =>
                             \E t \in made : pc[t] \in stored \cup {"dropped"} \/ t \in cut
  BY DEF OneInsertPerDomain
<1> DEFINE made == {t \in Task : record[t].domain = d /\ inserted[t]}
           told == {t \in made : pc[t] \in CoreDone}
<1>1. CoreDone = {"enrich", "partials", "enrich_commit", "report", "done"}
  BY DEF CoreDone
<1>2. \A s, t \in told : s = t
  BY DEF InsertInv
<1>3. Cardinality(told) <= 1
  <2> HIDE DEF told
  <2>1. QED
    BY <1>2, AtMostOne
<1>4. db[d].row # None => \E t \in made : pc[t] \in CoreDone \cup {"dropped"} \/ t \in cut
  BY DEF InsertInv, CoreDone, Stored
<1>5. QED
  BY <1>1, <1>3, <1>4

-----------------------------------------------------------------------------

(* A failure row is written by the last step of its task, unless the main  *)
(* task has written one for it.                                            *)
FailInv == \A t \in failures \ cut : pc[t] = "failed"

LEMMA FailStep ==
    ASSUME StoreTyped, FailInv, NEW t \in Task, Run(t) \/ Stop(t)
    PROVE  FailInv'
<1> USE DEF Goto, results
<1>0. /\ \A s \in Task \ {t} : pc'[s] = pc[s] /\ (s \in cut' <=> s \in cut)
      /\ cut \subseteq cut'
  BY OwnStep
<1>1. ASSUME failures' = failures, pc[t] # "failed" PROVE FailInv'
  BY <1>0, <1>1 DEF FailInv, StoreTyped
<1>2. CASE FailureCommit(t)
  BY <1>0, <1>2 DEF FailureCommit, FailInv, StoreTyped
<1>3. CASE CoreError(t) \/ EnrichError(t) \/ FailureError(t)
  <2>1. failures' = failures /\ pc[t] # "failed"
    BY <1>3, RetryEffect
  <2>2. QED
    BY <1>1, <2>1
<1>4. CASE upsert_url_status_row(t) \/ InsertCore(t) \/ CoreCleanupFails(t) \/ CoreCommit(t)
           \/ ReplaceEnrichment(t) \/ InsertPartials(t) \/ EnrichCommit(t)
           \/ record_partial_failures(t) \/ InsertFailure(t)
           \/ Interrupt(t) \/ Drop(t)
  <2>1. failures' = failures /\ pc[t] # "failed"
    BY <1>4 DEF upsert_url_status_row, InsertCore, CoreCleanupFails, CoreCommit,
         ReplaceEnrichment, InsertPartials, EnrichCommit, record_partial_failures,
         InsertFailure, Interrupt, Persisting, Drop, Finished
  <2>2. QED
    BY <1>1, <2>1
<1>5. CASE RecordAbandoned(t)
  BY <1>0, <1>5 DEF RecordAbandoned, FailInv, StoreTyped
<1>6. QED
  BY <1>2, <1>3, <1>4, <1>5 DEF Run, Stop

LEMMA NothingLeft == StoreInv /\ FailInv => FailedLeavesNothing
<1> SUFFICES ASSUME StoreInv, FailInv, NEW t \in failures \ cut, NEW d \in Domain
             PROVE  /\ db[d].row # t
                    /\ \A c \in CoreTable : db[d].core[c] # t
                    /\ \A e \in EnrichTable : db[d].enrich[e] # t
                    /\ \A c \in Cause : <<t, c>> \notin db[d].partial
  BY DEF FailedLeavesNothing
<1>1. t \in Task /\ ~Stored(t) /\ ~Written(t)
  BY DEF StoreInv, StoreTyped, FailInv, Stored, Written
<1>2. RowsOf(d)
  BY DEF StoreInv, RowsInv
<1>3. QED
  BY <1>1, <1>2 DEF RowsOf

-----------------------------------------------------------------------------

(* The metric counts what the tasks that are done have written.            *)
Reported == {x \in Task \X Cause : pc[x[1]] = "done" /\ x[2] \in recorded[x[1]]}
Alone(t) == \A s \in Task : record[s].domain = record[t].domain => s = t

MetricInv ==
    /\ metric = Cardinality(Reported)
    /\ \A t \in Task : pc[t] \in {"report", "done"} /\ Alone(t) =>
         \A c \in recorded[t] : <<t, c>> \in db[record[t].domain].partial

LEMMA FiniteCauses ==
    /\ IsFiniteSet(Task \X Cause)
    /\ \A S \in SUBSET (Task \X Cause) : IsFiniteSet(S)
<1>1. IsFiniteSet(CoreTable \cup EnrichTable)
  BY StoreAssumption, FS_Union
<1>2. IsFiniteSet((CoreTable \cup EnrichTable) \cup {CoreSatellites})
  BY <1>1, FS_AddElement
<1>3. IsFiniteSet(((CoreTable \cup EnrichTable) \cup {CoreSatellites}) \cup {ScanTime})
  BY <1>2, FS_AddElement
<1>4. Cause = ((CoreTable \cup EnrichTable) \cup {CoreSatellites}) \cup {ScanTime}
  BY DEF Cause
<1>5. IsFiniteSet(Cause)
  BY <1>3, <1>4
<1>6. IsFiniteSet(Task \X Cause)
  BY <1>5, StoreAssumption, FS_Product
<1>7. QED
  BY <1>6, FS_Subset

(* The causes of one task, counted as pairs.                               *)
LEMMA PairsOf ==
    ASSUME NEW t \in Task, NEW S \in SUBSET Cause
    PROVE  Cardinality({t} \X S) = Cardinality(S) /\ IsFiniteSet({t} \X S)
           /\ Cardinality(S) \in Nat
<1>1. {t} \X Cause \in SUBSET (Task \X Cause) /\ {t} \X S \in SUBSET (Task \X Cause)
  OBVIOUS
<1>2. IsFiniteSet({t} \X S)
  BY <1>1, FiniteCauses
<1>3. IsFiniteSet(S)
  <2> DEFINE f == [c \in S |-> <<t, c>>]
  <2>1. f \in Injection(S, {t} \X S)
    BY DEF Injection, IsInjective
  <2> HIDE DEF f
  <2>2. QED
    BY <1>2, <2>1, FS_Injection
<1>4. IsFiniteSet({t}) /\ Cardinality({t}) = 1
  BY FS_Singleton
<1>5. Cardinality({t} \X S) = Cardinality({t}) * Cardinality(S)
  BY <1>3, <1>4, FS_Product
<1>6. Cardinality(S) \in Nat
  BY <1>3, FS_CardinalityType
<1>7. QED
  BY <1>2, <1>4, <1>5, <1>6

LEMMA MetricStep ==
    ASSUME StoreInv, MetricInv, NEW t \in Task, Run(t) \/ Stop(t)
    PROVE  MetricInv'
<1>0. /\ record' = record /\ record[t].domain \in Domain
      /\ \A s \in Task \ {t} : pc'[s] = pc[s] /\ recorded'[s] = recorded[s]
  BY OwnStep, RecordTyped DEF StoreInv
<1>1. StoreTyped /\ TxOf(t)
  BY DEF StoreInv, TxInv
<1>2. \A s \in Task : Alone(s)' <=> Alone(s)
  BY <1>0 DEF Alone
<1>3. ASSUME NEW s \in Task, s # t, \A d \in Domain \ {record[t].domain} : db'[d] = db[d],
             pc'[s] \in {"report", "done"}, Alone(s)'
      PROVE  \A c \in recorded'[s] : <<s, c>> \in db'[record'[s].domain].partial
  <2>1. record[s].domain \in Domain /\ record[s].domain # record[t].domain
    BY <1>0, <1>1, <1>2, <1>3, RecordTyped DEF Alone
  <2>2. QED
    BY <1>0, <1>2, <1>3, <2>1 DEF MetricInv
(* Steps that neither reach nor leave the end.                             *)
<1>4. ASSUME \A d \in Domain \ {record[t].domain} : db'[d] = db[d], metric' = metric,
             pc[t] = "done" \/ pc'[t] = "done" => recorded'[t] = {} /\ pc[t] # "done",
             pc'[t] = "report" => \A c \in recorded'[t] : <<t, c>> \in db'[record[t].domain].partial
      PROVE  MetricInv'
  <2>1. Reported' = Reported
    <3>1. \A x \in Task \X Cause : (pc'[x[1]] = "done" /\ x[2] \in recorded'[x[1]])
                                     <=> (pc[x[1]] = "done" /\ x[2] \in recorded[x[1]])
      BY <1>0, <1>4
    <3>2. QED
      BY <3>1 DEF Reported
  <2>2. \A s \in Task : pc'[s] \in {"report", "done"} /\ Alone(s)' =>
         \A c \in recorded'[s] : <<s, c>> \in db'[record'[s].domain].partial
    BY <1>0, <1>3, <1>4
  <2>3. QED
    BY <1>4, <2>1, <2>2 DEF MetricInv
<1>5. CASE record_partial_failures(t)
  <2>1. /\ pc[t] = "report" /\ pc'[t] = "done" /\ metric' = metric + Cardinality(recorded[t])
        /\ recorded' = recorded /\ db' = db
    BY <1>1, <1>5 DEF record_partial_failures, Goto, StoreTyped, results
  <2>2. recorded[t] \in SUBSET Cause
    BY <1>1 DEF StoreTyped
  <2>3. Reported' = Reported \cup ({t} \X recorded[t]) /\ Reported \cap ({t} \X recorded[t]) = {}
    BY <1>0, <2>1, <2>2 DEF Reported
  <2>4. /\ Cardinality({t} \X recorded[t]) = Cardinality(recorded[t])
        /\ IsFiniteSet({t} \X recorded[t]) /\ Cardinality(recorded[t]) \in Nat
    BY <2>2, PairsOf
  <2>5. IsFiniteSet(Reported)
    BY FiniteCauses DEF Reported
  <2>6. Cardinality(Reported) \in Nat
    BY <2>5, FS_CardinalityType
  <2>7. Cardinality(Reported') = Cardinality(Reported) + Cardinality({t} \X recorded[t])
    <3>1. Cardinality(Reported') = Cardinality(Reported) + Cardinality({t} \X recorded[t])
                                     - Cardinality(Reported \cap ({t} \X recorded[t]))
      BY <2>3, <2>4, <2>5, FS_Union
    <3>2. Cardinality(Reported \cap ({t} \X recorded[t])) = 0
      BY <2>3, FS_EmptySet
    <3>3. QED
      BY <2>4, <2>6, <3>1, <3>2
  <2>8. metric' = Cardinality(Reported')
    BY <2>1, <2>4, <2>6, <2>7 DEF MetricInv
  <2>9. \A s \in Task : pc'[s] \in {"report", "done"} /\ Alone(s)' =>
         \A c \in recorded'[s] : <<s, c>> \in db'[record'[s].domain].partial
    BY <1>0, <1>2, <2>1 DEF MetricInv
  <2>10. QED
    BY <2>8, <2>9 DEF MetricInv
<1>6. CASE EnrichCommit(t)
  <2>1. /\ pc[t] = "enrich_commit" /\ pc'[t] = "report" /\ recorded' = recorded
        /\ metric' = metric /\ db' = [db EXCEPT ![record[t].domain] = tx]
    BY <1>1, <1>6 DEF EnrichCommit, Goto, StoreTyped, results
  <2>2. tx.partial = {<<t, c>> : c \in recorded[t]} /\ db'[record[t].domain] = tx
    BY <1>0, <1>1, <2>1 DEF TxOf, StoreTyped
  <2>3. \A d \in Domain \ {record[t].domain} : db'[d] = db[d]
    BY <1>1, <2>1 DEF StoreTyped
  <2>4. QED
    BY <1>4, <2>1, <2>2, <2>3
<1>7. CASE CoreCommit(t)
  <2>1. /\ pc[t] = "core_commit" /\ pc'[t] = "enrich" /\ metric' = metric
        /\ db' = [db EXCEPT ![record[t].domain] = tx]
    BY <1>1, <1>7 DEF CoreCommit, Goto, StoreTyped, results
  <2>2. \A d \in Domain \ {record[t].domain} : db'[d] = db[d]
    BY <1>1, <2>1 DEF StoreTyped
  <2>3. QED
    BY <1>4, <2>1, <2>2
<1>8. CASE CoreError(t) \/ EnrichError(t) \/ FailureError(t)
  <2>1. /\ db' = db /\ metric' = metric /\ pc[t] # "done" /\ pc'[t] # "report"
        /\ pc'[t] = "done" => recorded'[t] = {}
    BY <1>1, <1>8, RetryEffect DEF StoreTyped
  <2>2. QED
    BY <1>4, <2>1
<1>9. CASE upsert_url_status_row(t) \/ InsertCore(t) \/ CoreCleanupFails(t)
           \/ ReplaceEnrichment(t) \/ InsertPartials(t)
           \/ InsertFailure(t) \/ FailureCommit(t) \/ Interrupt(t) \/ Drop(t)
  <2>1. /\ db' = db /\ metric' = metric /\ pc[t] # "done"
        /\ pc'[t] \notin {"report", "done"}
    BY <1>1, <1>9 DEF upsert_url_status_row, InsertCore, CoreCleanupFails, ReplaceEnrichment,
         InsertPartials, InsertFailure, FailureCommit, Interrupt, Persisting, Drop, Finished,
         Goto, StoreTyped
  <2>2. QED
    BY <1>4, <2>1
<1>10. CASE RecordAbandoned(t)
  <2>1. /\ db' = db /\ metric' = metric /\ pc' = pc /\ recorded' = recorded /\ pc[t] # "done"
    BY <1>10 DEF RecordAbandoned, Finished, results
  <2>2. Reported' = Reported
    BY <2>1 DEF Reported
  <2>3. QED
    BY <1>0, <1>2, <2>1, <2>2 DEF MetricInv
<1>11. QED
  BY <1>5, <1>6, <1>7, <1>8, <1>9, <1>10 DEF Run, Stop

LEMMA MetricTrue == StoreInv /\ MetricInv => MetricCountsRows
<1> DEFINE rows == {x \in Domain \X (Task \X Cause) :
                      x[2] \in db[x[1]].partial /\ pc[x[2][1]] = "done"}
           f == [x \in rows |-> x[2]]
<1> SUFFICES ASSUME StoreInv, MetricInv
             PROVE  /\ metric >= Cardinality(rows)
                    /\ (\A s, t \in Task : record[s].domain = record[t].domain => s = t)
                         => metric = Cardinality(rows)
  BY DEF MetricCountsRows
<1>1. ASSUME NEW x \in rows
      PROVE  /\ x[2] \in Reported /\ x[1] = record[x[2][1]].domain
             /\ x = <<x[1], x[2]>>
  <2>1. /\ x[1] \in Domain /\ x[2] \in Task \X Cause /\ x[2] \in db[x[1]].partial
        /\ x = <<x[1], x[2]>> /\ pc[x[2][1]] = "done"
    OBVIOUS
  <2>2. RowsOf(x[1]) /\ x[2][1] \in Task /\ x[2][2] \in Cause /\ x[2] = <<x[2][1], x[2][2]>>
    BY <2>1 DEF StoreInv, RowsInv
  <2>3. /\ record[x[2][1]].domain = x[1]
        /\ x[2][2] \in recorded[x[2][1]]
    BY <2>1, <2>2 DEF RowsOf
  <2>4. QED
    BY <2>1, <2>2, <2>3 DEF Reported
<1>2. f \in Injection(rows, Reported)
  <2>1. f \in [rows -> Reported]
    BY <1>1
  <2>2. ASSUME NEW x \in rows, NEW y \in rows, f[x] = f[y] PROVE x = y
    BY <1>1, <2>2
  <2>3. QED
    BY <2>1, <2>2 DEF Injection, IsInjective
<1>3. IsFiniteSet(Reported)
  BY FiniteCauses DEF Reported
<1>4. /\ Cardinality(rows) <= Cardinality(Reported)
      /\ Cardinality(rows) = Cardinality(Reported) <=> f \in Surjection(rows, Reported)
      /\ IsFiniteSet(rows)
  <2> HIDE DEF f, rows
  <2>1. QED
    BY <1>2, <1>3, FS_Injection
<1>5. Cardinality(rows) \in Nat /\ Cardinality(Reported) \in Nat
  <2> HIDE DEF rows
  <2>1. QED
    BY <1>3, <1>4, FS_CardinalityType
<1>6. ASSUME \A s, t \in Task : record[s].domain = record[t].domain => s = t
      PROVE  f \in Surjection(rows, Reported)
  <2>1. ASSUME NEW y \in Reported PROVE \E x \in rows : f[x] = y
    <3>1. /\ y \in Task \X Cause /\ y = <<y[1], y[2]>> /\ y[1] \in Task
          /\ pc[y[1]] = "done" /\ y[2] \in recorded[y[1]]
      BY DEF Reported
    <3>2. y \in db[record[y[1]].domain].partial
      BY <1>6, <3>1 DEF MetricInv, Alone
    <3>3. record[y[1]].domain \in Domain
      BY <3>1, RecordTyped DEF StoreInv
    <3>4. <<record[y[1]].domain, y>> \in rows
      BY <3>1, <3>2, <3>3
    <3>5. f[<<record[y[1]].domain, y>>] = y
      BY <3>4
    <3>6. QED
      BY <3>4, <3>5
  <2>2. f \in [rows -> Reported]
    BY <1>1
  <2>3. QED
    BY <2>1, <2>2 DEF Surjection
<1>7. metric = Cardinality(Reported)
  BY DEF MetricInv
<1> HIDE DEF rows, f
<1>8. QED
  BY <1>4, <1>5, <1>6, <1>7

(* What the tasks report is what they left in the database, through        *)
(* retries, races, timeouts, drops and failing statements: one task per    *)
(* domain was told that it made the row, the metric counts the rows of     *)
(* url_partial_failures, and a URL recorded as failed left nothing unless  *)
(* it was cut off by timeout, Ctrl-C or drain (insert/retry.rs, upsert.rs, *)
(* run/task.rs).                                                           *)
THEOREM OutcomesReported == Spec => []OutcomesTrue
<1> DEFINE IInv == StoreInv /\ InsertInv /\ FailInv /\ MetricInv
<1>1. Init => IInv
  <2> SUFFICES ASSUME Init PROVE InsertInv /\ FailInv /\ MetricInv
    BY StoreInit
  <2>1. InsertInv
    <3>1. \A d \in Domain : db[d].row = None
      BY DEF Init, NoRows
    <3>2. \A t \in Task : pc[t] = "core"
      BY DEF Init
    <3>3. QED
      BY <3>1, <3>2 DEF InsertInv, CoreDone
  <2>2. FailInv
    BY DEF Init, FailInv
  <2>3. Reported = {}
    BY DEF Init, Reported
  <2>4. MetricInv
    BY <2>3, FS_EmptySet DEF Init, MetricInv
  <2>5. QED
    BY <2>1, <2>2, <2>4
<1>2. IInv /\ [Next]_vars => IInv'
  <2> SUFFICES ASSUME IInv, [Next]_vars PROVE InsertInv' /\ FailInv' /\ MetricInv'
    BY StoreStep
  <2>1. CASE Next
    <3>1. PICK t \in Task : Run(t) \/ Stop(t)
      BY <2>1 DEF Next
    <3>2. StoreTyped
      BY DEF StoreInv
    <3>3. QED
      BY <3>1, <3>2, InsertStep, FailStep, MetricStep
  <2>2. CASE UNCHANGED vars
    <3>1. InsertInv' /\ FailInv'
      BY <2>2 DEF InsertInv, FailInv, Stored, vars, results
    <3>2. Reported' = Reported
      BY <2>2 DEF Reported, vars, results
    <3>3. MetricInv'
      BY <2>2, <3>2 DEF MetricInv, Alone, vars, results
    <3>4. QED
      BY <3>1, <3>3
  <2>3. QED
    BY <2>1, <2>2
<1>3. IInv => OutcomesTrue
  BY OneInsert, NothingLeft, MetricTrue DEF OutcomesTrue
<1>4. QED
  BY <1>1, <1>2, <1>3, PTL DEF Spec
=============================================================================
