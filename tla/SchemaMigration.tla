--------------------------- MODULE SchemaMigration ---------------------------
(* apply_migrations of app/schema_migrations.py: two processes, of the same   *)
(* or of different releases, bring one database to their release's schema.    *)
(* The versioned core runs in a transaction; the concurrent indexes cannot,   *)
(* so each is built, checked and recorded in a ledger step by step under a    *)
(* session lock, and any step may fail or be the last one its process takes.  *)
EXTENDS Naturals, Sequences, Functions

CONSTANTS Build,      \* [migrator |-> its release]
          Def,        \* [release |-> <<the definition of index 1, 2, ...>>]
          MaxApplies, \* calls of apply_migrations
          MaxFaults   \* failing builds and dying processes

VARIABLES proc,     \* the migrators
          lock,     \* holder of INDEX_MIGRATION_LOCK_ID, or "none"
          core,     \* releases with a schema_migrations row
          index,    \* pg_index: definition (0 for none) and validity
          ledger,   \* schema_index_migrations: checksum (0 for none) and state
          last,     \* the migrator whose apply_migrations returned last
          budget

vars == <<proc, lock, core, index, ledger, last, budget>>

Migrators == DOMAIN Build
Releases == DOMAIN Def
Indexes == 1..2
NoIndex == [def |-> 0, valid |-> FALSE]
NoRow == [sum |-> 0, state |-> "none"]
Out == [pc |-> "out", at |-> 1, ready |-> FALSE]

TypeOK ==
  /\ proc \in [Migrators -> [pc : {"out", "waiting", "core", "read", "mark", "drop", "create",
                                   "recheck", "failing", "record", "clean", "unlock", "gone"},
                             at : 1..3, ready : BOOLEAN]]
  /\ lock \in Migrators \cup {"none"}
  /\ core \subseteq Releases
  /\ index \in [Indexes -> [def : 0..2, valid : BOOLEAN]]
  /\ ledger \in [Indexes -> [sum : 0..2, state : {"none", "building", "failed", "ready"}]]
  /\ last \in Migrators \cup {"none"}
  /\ budget \in [applies : 0..MaxApplies, faults : 0..MaxFaults]

Init ==
  /\ proc = [m \in Migrators |-> Out]
  /\ lock = "none" /\ core = {} /\ last = "none"
  /\ index = [i \in Indexes |-> NoIndex]
  /\ ledger = [i \in Indexes |-> NoRow]
  /\ budget = [applies |-> 0, faults |-> 0]

Wanted(m) == Def[Build[m]]
Fault == budget.faults < MaxFaults /\ budget' = [budget EXCEPT !.faults = @ + 1]
To(m, pc) == proc' = [proc EXCEPT ![m].pc = pc]

(* _index_is_ready: valid, and defined as this release defines it.            *)
IsReady(m, i) == index[i] = [def |-> Wanted(m)[i], valid |-> TRUE]

-----------------------------------------------------------------------------
Call(m) ==
  /\ proc[m].pc = "out" /\ budget.applies < MaxApplies
  /\ To(m, "waiting") /\ budget' = [budget EXCEPT !.applies = @ + 1]
  /\ UNCHANGED <<lock, core, index, ledger, last>>

(* Every migrator goes ahead, whoever else is migrating.                      *)
AcquireUnlocked(m) ==
  /\ proc[m].pc = "waiting"
  /\ lock' = m /\ last' = "none" /\ To(m, "core")
  /\ UNCHANGED <<core, index, ledger, budget>>

(* _acquire_coordinator_lock polls the session lock.                          *)
Acquire(m) ==
  /\ proc[m].pc = "waiting" /\ lock = "none"
  /\ lock' = m /\ last' = "none" /\ To(m, "core")
  /\ UNCHANGED <<core, index, ledger, budget>>

(* The core transaction: a recorded version is not applied again.  It commits *)
(* or leaves nothing (a changed checksum, future heartbeats of open attempts, *)
(* a failing statement).                                                      *)
ApplyCore(m) ==
  /\ proc[m].pc = "core"
  /\ \/ /\ core' = core \cup {Build[m]}
        /\ proc' = [proc EXCEPT ![m] = [pc |-> "read", at |-> 1, ready |-> FALSE]]
        /\ UNCHANGED budget
     \/ Fault /\ To(m, "unlock") /\ UNCHANGED core
  /\ UNCHANGED <<lock, index, ledger, last>>

(* The next index: skipped when the ledger and the catalog both say that this *)
(* release's definition is in place.                                          *)
ReadIndex(m) ==
  LET i == proc[m].at IN
  /\ proc[m].pc = "read"
  /\ IF i > Len(Wanted(m)) THEN To(m, "clean")
     ELSE IF ledger[i] = [sum |-> Wanted(m)[i], state |-> "ready"] /\ IsReady(m, i)
     THEN proc' = [proc EXCEPT ![m].at = i + 1]
     ELSE proc' = [proc EXCEPT ![m].ready = IsReady(m, i), ![m].pc = "mark"]
  /\ UNCHANGED <<lock, core, index, ledger, last, budget>>

(* The index is dropped and built with the ledger row as it was.              *)
MarkNothing(m) ==
  /\ proc[m].pc = "mark"
  /\ To(m, IF proc[m].ready THEN "create" ELSE "drop")
  /\ UNCHANGED <<lock, core, index, ledger, last, budget>>

MarkBuilding(m) ==
  LET i == proc[m].at IN
  /\ proc[m].pc = "mark"
  /\ ledger' = [ledger EXCEPT ![i] = [sum |-> Wanted(m)[i], state |-> "building"]]
  /\ To(m, IF proc[m].ready THEN "create" ELSE "drop")
  /\ UNCHANGED <<lock, core, index, last, budget>>

(* drop index concurrently if exists.                                         *)
DropIndex(m) ==
  LET i == proc[m].at IN
  /\ proc[m].pc = "drop"
  /\ \/ To(m, "create") /\ UNCHANGED budget
     \/ To(m, "failing") /\ Fault
  /\ index' = [index EXCEPT ![i] = NoIndex]
  /\ UNCHANGED <<lock, core, ledger, last>>

(* create index concurrently if not exists: one that is there by name is      *)
(* left alone, one that fails half way leaves an invalid index behind.        *)
Created(m, ok) ==
  LET i == proc[m].at IN
  index' = [index EXCEPT ![i] = IF @ = NoIndex THEN [def |-> Wanted(m)[i], valid |-> ok] ELSE @]
CreateIndex(m) ==
  /\ proc[m].pc = "create"
  /\ \/ Created(m, TRUE) /\ To(m, "recheck") /\ UNCHANGED budget
     \/ Created(m, FALSE) /\ To(m, "failing") /\ Fault
  /\ UNCHANGED <<lock, core, ledger, last>>

Recheck(m) ==
  /\ proc[m].pc = "recheck"
  /\ To(m, IF IsReady(m, proc[m].at) THEN "record" ELSE "failing")
  /\ UNCHANGED <<lock, core, index, ledger, last, budget>>

RecordFailed(m) ==
  /\ proc[m].pc = "failing"
  /\ ledger' = [ledger EXCEPT ![proc[m].at].state = IF @ = "none" THEN @ ELSE "failed"]
  /\ To(m, "unlock")
  /\ UNCHANGED <<lock, core, index, last, budget>>

RecordReady(m) ==
  LET i == proc[m].at IN
  /\ proc[m].pc = "record"
  /\ ledger' = [ledger EXCEPT ![i].state = IF ledger[i].sum = Wanted(m)[i] THEN "ready" ELSE @]
  /\ proc' = [proc EXCEPT ![m] = [pc |-> "read", at |-> i + 1, ready |-> FALSE]]
  /\ UNCHANGED <<lock, core, index, last, budget>>

(* Rows of indexes this release does not know stay in the ledger.             *)
CleanNothing(m) ==
  /\ proc[m].pc = "clean" /\ To(m, "unlock") /\ last' = m
  /\ UNCHANGED <<lock, core, index, ledger, budget>>

(* The rows of indexes this release does not know are deleted.                *)
CleanLedger(m) ==
  /\ proc[m].pc = "clean" /\ To(m, "unlock") /\ last' = m
  /\ ledger' = [i \in Indexes |-> IF i <= Len(Wanted(m)) THEN ledger[i] ELSE NoRow]
  /\ UNCHANGED <<lock, core, index, budget>>

Unlock(m) ==
  /\ proc[m].pc = "unlock"
  /\ lock' = "none" /\ proc' = [proc EXCEPT ![m] = Out]
  /\ UNCHANGED <<core, index, ledger, last, budget>>

(* The process dies.  Its session, and the lock with it, lasts until the      *)
(* server has ended the statement it was executing.                           *)
Dies(m) ==
  /\ proc[m].pc \notin {"out", "waiting", "gone"} /\ Fault
  /\ IF proc[m].pc \in {"drop", "create"}
     THEN To(m, "gone") /\ UNCHANGED lock
     ELSE lock' = "none" /\ proc' = [proc EXCEPT ![m] = Out]
  /\ UNCHANGED <<core, index, ledger, last>>

ServerEndsStatement(m) ==
  /\ proc[m].pc = "gone" /\ lock' = "none"
  /\ proc' = [proc EXCEPT ![m] = Out]
  /\ \/ \E ok \in BOOLEAN : Created(m, ok)
     \/ index' = [index EXCEPT ![proc[m].at] = NoIndex]
     \/ UNCHANGED index
  /\ UNCHANGED <<core, ledger, last, budget>>

Next == \E m \in Migrators :
  \/ Call(m) \/ Acquire(m) \/ ApplyCore(m) \/ ReadIndex(m) \/ MarkBuilding(m)
  \/ DropIndex(m) \/ CreateIndex(m) \/ Recheck(m) \/ RecordFailed(m) \/ RecordReady(m)
  \/ CleanLedger(m) \/ Unlock(m) \/ Dies(m) \/ ServerEndsStatement(m)

Spec == Init /\ [][Next]_vars

-----------------------------------------------------------------------------
(* A ledger row that says "ready" has its index in the catalog, valid and     *)
(* with the recorded definition, whichever process died where                 *)
(* (_apply_concurrent_indexes).                                               *)
LedgerIsTrue ==
  \A i \in Indexes : ledger[i].state = "ready" =>
    index[i] = [def |-> ledger[i].sum, valid |-> TRUE]

(* schema_status, of what the model keeps: the version is recorded, the index *)
(* ledger holds exactly this release's rows, all ready, and the catalog has   *)
(* the indexes.                                                               *)
LedgerCurrent(m) ==
  /\ Build[m] \in core
  /\ \A i \in Indexes :
       ledger[i] = IF i <= Len(Wanted(m)) THEN [sum |-> Wanted(m)[i], state |-> "ready"] ELSE NoRow
StatusReady(m) == LedgerCurrent(m) /\ \A i \in 1..Len(Wanted(m)) : IsReady(m, i)

(* After apply_migrations returned, and until another one starts, the         *)
(* readiness check of its release holds (schema_status).                      *)
AppliedIsCurrent == last # "none" => StatusReady(last)
=============================================================================
