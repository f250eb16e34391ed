-------------------------------- MODULE Store --------------------------------
(***************************************************************************)
(* src/remoteid/remoteid/store.c: the store task (remoteid_store_task),    *)
(* the queue it reads, and remoteid_store_get_snapshot in the transport    *)
(* tasks, preempted anywhere between two writes of the shared state.       *)
(* remoteid_store_wait_ready and _is_ready read the bit and no mutex: they *)
(* are the readers of ready_bit in the modules of the transports.          *)
(***************************************************************************)
EXTENDS StoreData, Sequences

CONSTANTS Configurations, Inputs, Readers, QueueLen

ASSUME StoreAssumption ==
    /\ Configurations \subseteq InitialStates
    /\ Inputs \subseteq Updates
    /\ QueueLen \in Nat \ {0}
    /\ {"free", "store_task"} \cap Readers = {}

VARIABLES
    queue,                  \* s_update_queue
    s_state,
    s_basic_id_valid,
    s_operator_id_valid,
    ready_bit,              \* REMOTEID_STORE_READY_BIT of s_events
    mutex,                  \* s_state_mutex: its holder, or "free"
    store_pc,               \* where the store task is
    update,                 \* the store task's local copy of an update
    reader_pc,              \* where each reader is in get_snapshot
    snapshot,               \* each reader's *out
    published               \* history: s_state when ready_bit was last written

vars == <<queue, s_state, s_basic_id_valid, s_operator_id_valid, ready_bit,
          mutex, store_pc, update, reader_pc, snapshot, published>>

sharedVars == <<s_state, s_basic_id_valid, s_operator_id_valid, ready_bit,
                published>>
readerVars == <<reader_pc, snapshot>>

-----------------------------------------------------------------------------
(* remoteid_store_start, which returns before any other task uses the      *)
(* store.  update and snapshot are locals, written before they are read.   *)
Init ==
    /\ queue = <<>>
    /\ s_state \in Configurations
    /\ s_basic_id_valid = BasicIdUsable(s_state)
    /\ s_operator_id_valid = OperatorIdUsable(s_state)
    /\ ready_bit = (s_basic_id_valid /\ s_operator_id_valid)
    /\ mutex = "free"
    /\ store_pc = "receive"
    /\ update = Takeoff
    /\ reader_pc = [r \in Readers |-> "idle"]
    /\ snapshot = [r \in Readers |-> s_state]
    /\ published = s_state

(* mutants: a queue one longer than it is; an update sent to the front *)
Submit_OneTooMany(u) ==
    /\ Len(queue) <= QueueLen
    /\ queue' = Append(queue, u)
    /\ UNCHANGED <<sharedVars, mutex, store_pc, update, readerVars>>

Submit_TakeoffFirst(u) ==
    /\ Len(queue) < QueueLen
    /\ queue' = IF u = Takeoff THEN <<u>> \o queue ELSE Append(queue, u)
    /\ UNCHANGED <<sharedVars, mutex, store_pc, update, readerVars>>

(* remoteid_store_submit; when the queue stays full it changes nothing. *)
Submit(u) ==
    /\ Len(queue) < QueueLen
    /\ queue' = Append(queue, u)
    /\ UNCHANGED <<sharedVars, mutex, store_pc, update, readerVars>>

StoreReceive ==
    /\ store_pc = "receive"
    /\ queue # <<>>
    /\ update' = Head(queue)
    /\ queue' = Tail(queue)
    /\ store_pc' = "take"
    /\ UNCHANGED <<sharedVars, mutex, readerVars>>

(* Takes the mutex and begins to write: nothing reads s_state in between. *)
StoreTake ==
    /\ store_pc = "take"
    /\ mutex = "free"
    /\ mutex' = "store_task"
    /\ s_state' = WriteFirst(s_state, update)
    /\ store_pc' = "rest"
    /\ UNCHANGED <<queue, s_basic_id_valid, s_operator_id_valid, ready_bit,
                   update, readerVars, published>>

StoreWriteRest ==
    /\ store_pc = "rest"
    /\ s_state' = WriteRest(s_state, update)
    /\ s_basic_id_valid' = IF update.type = "BASIC_ID"
                           THEN BasicIdUsable(s_state') ELSE s_basic_id_valid
    /\ s_operator_id_valid' = IF update.type = "OPERATOR_ID"
                              THEN OperatorIdUsable(s_state')
                              ELSE s_operator_id_valid
    /\ store_pc' = "ready"
    /\ UNCHANGED <<queue, ready_bit, mutex, update, readerVars, published>>

(* mutant: the bit is set and never cleared *)
StoreReadyBit_NeverClears ==
    /\ store_pc = "ready"
    /\ ready_bit' = (ready_bit \/ (s_basic_id_valid /\ s_operator_id_valid))
    /\ published' = s_state
    /\ store_pc' = "give"
    /\ UNCHANGED <<queue, s_state, s_basic_id_valid, s_operator_id_valid,
                   mutex, update, readerVars>>

(* update_ready_state_locked *)
StoreReadyBit ==
    /\ store_pc = "ready"
    /\ ready_bit' = (s_basic_id_valid /\ s_operator_id_valid)
    /\ published' = s_state
    /\ store_pc' = "give"
    /\ UNCHANGED <<queue, s_state, s_basic_id_valid, s_operator_id_valid,
                   mutex, update, readerVars>>

StoreGive ==
    /\ store_pc = "give"
    /\ mutex' = "free"
    /\ store_pc' = "receive"
    /\ UNCHANGED <<queue, sharedVars, update, readerVars>>

(* mutant: the snapshot is copied without the mutex *)
SnapshotBegin_NoMutex(r) ==
    /\ reader_pc[r] = "idle"
    /\ snapshot' = [snapshot EXCEPT ![r] = CopyHead(snapshot[r], s_state)]
    /\ reader_pc' = [reader_pc EXCEPT ![r] = "rest"]
    /\ UNCHANGED <<queue, sharedVars, mutex, store_pc, update>>

(* remoteid_store_get_snapshot: takes the mutex and begins to copy. *)
SnapshotBegin(r) ==
    /\ reader_pc[r] = "idle"
    /\ mutex = "free"
    /\ mutex' = r
    /\ snapshot' = [snapshot EXCEPT ![r] = CopyHead(snapshot[r], s_state)]
    /\ reader_pc' = [reader_pc EXCEPT ![r] = "rest"]
    /\ UNCHANGED <<queue, sharedVars, store_pc, update>>

(* mutant: a return without giving the mutex back *)
SnapshotEnd_KeepsMutex(r) ==
    /\ reader_pc[r] = "rest"
    /\ snapshot' = [snapshot EXCEPT ![r] = CopyRest(snapshot[r], s_state)]
    /\ reader_pc' = [reader_pc EXCEPT ![r] = "idle"]
    /\ UNCHANGED <<queue, sharedVars, mutex, store_pc, update>>

SnapshotEnd(r) ==
    /\ reader_pc[r] = "rest"
    /\ snapshot' = [snapshot EXCEPT ![r] = CopyRest(snapshot[r], s_state)]
    /\ reader_pc' = [reader_pc EXCEPT ![r] = "idle"]
    /\ mutex' = "free"
    /\ UNCHANGED <<queue, sharedVars, store_pc, update>>

StoreTask ==
    StoreReceive \/ StoreTake \/ StoreWriteRest \/ StoreReadyBit \/ StoreGive

Reader(r) == SnapshotBegin(r) \/ SnapshotEnd(r)

Next ==
    \/ \E u \in Inputs : Submit(u)
    \/ StoreTask
    \/ \E r \in Readers : Reader(r)

Spec == Init /\ [][Next]_vars

(***************************************************************************)
(* The store task has the highest priority of the mutex's users (6 against *)
(* 5) and every reader sleeps at least 100 ms between two snapshots, so a  *)
(* mutex that keeps becoming free is one the store task takes.  Nothing    *)
(* obliges an input source to submit or a transport to read.               *)
(***************************************************************************)
Fairness ==
    /\ WF_vars(StoreReceive)
    /\ SF_vars(StoreTake)
    /\ WF_vars(StoreWriteRest)
    /\ WF_vars(StoreReadyBit)
    /\ WF_vars(StoreGive)
    /\ \A r \in Readers : WF_vars(SnapshotEnd(r))

LiveSpec == Spec /\ Fairness

-----------------------------------------------------------------------------
TypeOK ==
    /\ queue \in Seq(Inputs)
    /\ Len(queue) <= QueueLen
    /\ s_state \in States
    /\ published \in States
    /\ s_basic_id_valid \in BOOLEAN
    /\ s_operator_id_valid \in BOOLEAN
    /\ ready_bit \in BOOLEAN
    /\ mutex \in Readers \cup {"free", "store_task"}
    /\ store_pc \in {"receive", "take", "rest", "ready", "give"}
    /\ update \in Updates
    /\ reader_pc \in [Readers -> {"idle", "rest"}]
    /\ snapshot \in [Readers -> States]

(* Whenever no task is inside the store, the bit the transports test       *)
(* without the mutex says exactly whether the identity a snapshot would    *)
(* return is usable: the two flags the task caches across updates of other *)
(* types have not gone stale (store.c:39-48, 67, 72, 128).                 *)
ReadyBitAgrees == mutex = "free" => ready_bit = IdentityUsable(s_state)

(* The mutex excludes, and what a half-written or half-read state lacks is *)
(* exactly what its writer or reader still has to copy (store.c:145-147,   *)
(* 200-202).  This is the inductive invariant of StoreProofs.              *)
MutexInv ==
    /\ store_pc \in {"rest", "ready", "give"} <=> mutex = "store_task"
    /\ \A r \in Readers : reader_pc[r] = "rest" <=> mutex = r

CopyInv ==
    /\ store_pc \in {"receive", "take", "give"} => s_state = published
    /\ store_pc = "rest" => WriteRest(s_state, update) = Apply(published, update)
    /\ store_pc = "ready" => s_state = Apply(published, update)
    /\ \A r \in Readers :
          reader_pc[r] = "rest" => CopyRest(snapshot[r], s_state) = s_state

FlagInv ==
    /\ store_pc # "rest" =>
          /\ s_basic_id_valid = BasicIdUsable(s_state)
          /\ s_operator_id_valid = OperatorIdUsable(s_state)
    /\ store_pc = "rest" =>
          /\ update.type # "BASIC_ID" =>
                s_basic_id_valid = BasicIdUsable(s_state)
          /\ update.type # "OPERATOR_ID" =>
                s_operator_id_valid = OperatorIdUsable(s_state)
    /\ ready_bit = IdentityUsable(published)

IInv == MutexInv /\ CopyInv /\ FlagInv

-----------------------------------------------------------------------------
(* What the other tasks see: the update being worked on is still pending   *)
(* until the ready bit is written, and a reader has its whole copy from    *)
(* the moment it holds the mutex.                                          *)
Pending ==
    IF store_pc \in {"take", "rest", "ready"} THEN <<update>> \o queue ELSE queue

Snapshots ==
    [r \in Readers |-> IF reader_pc[r] = "rest" THEN published ELSE snapshot[r]]

Abstract == INSTANCE AtomicStore WITH
    state <- published, ready <- ready_bit, pending <- Pending,
    snapshot <- Snapshots

(* The queue, the mutex and the event group together keep the promise of   *)
(* AtomicStore: updates take effect one at a time in the order of          *)
(* acceptance with the bit changing in the same instant, none is lost, and *)
(* every snapshot is one whole state (store.c:60-205).                     *)
ImplementsAtomicStore == Abstract!StoreSpec

(* An accepted update is applied: the store task is never locked out by    *)
(* the transports that take the same mutex (store.c:141-147, 200-202).     *)
AcceptedUpdatesApplied ==
    []<>(Pending = <<>>) \/ []<><<StoreReadyBit>>_vars

=============================================================================
