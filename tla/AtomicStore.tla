----------------------------- MODULE AtomicStore -----------------------------
(***************************************************************************)
(* What src/remoteid/remoteid/store.c promises the tasks around it: a      *)
(* state with a readiness bit, changed by one update at a time in the      *)
(* order in which the updates were accepted, and read as a whole.  Module  *)
(* Store describes the queue, the mutex and the event group that keep the  *)
(* promise and is checked and proved to implement this one.  MavlinkInput  *)
(* and BleTransport run against it.                                        *)
(***************************************************************************)
EXTENDS StoreData, Sequences

CONSTANTS
    Configurations, \* the states remoteid_model_init may hand the store
    Inputs,         \* the updates the input sources may submit
    Readers,        \* the tasks that take snapshots
    QueueLen        \* REMOTEID_STORE_QUEUE_LEN

ASSUME AtomicStoreAssumption ==
    /\ Configurations \subseteq InitialStates
    /\ Inputs \subseteq Updates
    /\ QueueLen \in Nat \ {0}

VARIABLES
    state,      \* the state the store shows: a prefix of the accepted updates
    ready,      \* the readiness bit
    pending,    \* accepted updates not in state yet: the queue, after the
                \* update the store task is working on, if there is one
    snapshot    \* for each reader, its copy of the state

storeVars == <<state, ready, pending, snapshot>>

-----------------------------------------------------------------------------
(* A reader's copy is an uninitialised local before its first              *)
(* get_snapshot; every reader calls that before it looks at the copy.      *)
StoreInit ==
    /\ state \in Configurations
    /\ ready = IdentityUsable(state)
    /\ pending = <<>>
    /\ snapshot = [r \in Readers |-> state]

(* mutant: a queue one longer than it is *)
Submit_OneTooMany(u) ==
    /\ Len(pending) <= QueueLen + 1
    /\ pending' = Append(pending, u)
    /\ UNCHANGED <<state, ready, snapshot>>

(* remoteid_store_submit returning ESP_OK.  The task may hold one update   *)
(* that is no longer in the queue, so QueueLen + 1 can be pending.         *)
Submit(u) ==
    /\ Len(pending) <= QueueLen
    /\ pending' = Append(pending, u)
    /\ UNCHANGED <<state, ready, snapshot>>

(* remoteid_store_submit returning ESP_ERR_TIMEOUT: the queue stayed full  *)
(* for the whole timeout.                                                  *)
SubmitTimesOut == Len(pending) >= QueueLen /\ UNCHANGED storeVars

(* The store task has applied the oldest accepted update. *)
ApplyUpdate ==
    /\ pending # <<>>
    /\ state' = Apply(state, Head(pending))
    /\ ready' = IdentityUsable(state')
    /\ pending' = Tail(pending)
    /\ UNCHANGED snapshot

GetSnapshot(r) ==
    /\ snapshot' = [snapshot EXCEPT ![r] = state]
    /\ UNCHANGED <<state, ready, pending>>

StoreNext ==
    \/ \E u \in Inputs : Submit(u)
    \/ ApplyUpdate
    \/ \E r \in Readers : GetSnapshot(r)

StoreSpec == StoreInit /\ [][StoreNext]_storeVars

-----------------------------------------------------------------------------
StoreTypeOK ==
    /\ state \in States
    /\ ready \in BOOLEAN
    /\ pending \in Seq(Inputs)
    /\ Len(pending) <= QueueLen + 1
    /\ snapshot \in [Readers -> States]

=============================================================================
