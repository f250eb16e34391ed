-------------------------- MODULE AtomicStoreProofs --------------------------
(***************************************************************************)
(* Proofs about module AtomicStore for every set of readers, every set of  *)
(* inputs, every configuration and every queue length: its types, one      *)
(* lemma for each operation.  The proofs about the modules that run        *)
(* against the store (BleTransport, WifiTransport, MavlinkInput) cite      *)
(* them.                                                                   *)
(***************************************************************************)
EXTENDS AtomicStore, TLAPS, SequenceTheorems

(* The readiness test answers yes or no. *)
LEMMA UsableBoolean == \A s : IdentityUsable(s) \in BOOLEAN
  BY DEF IdentityUsable, BasicIdUsable, OperatorIdUsable, UsableText

(* An update leaves a state that is well typed (store.c:60-131). *)
LEMMA ApplyTyped ==
    ASSUME NEW s \in States, NEW u \in Updates
    PROVE  Apply(s, u) \in States
  <1>1. CASE u \in BasicIdUpdates
    BY <1>1 DEF States, BasicIdUpdates, Apply
  <1>2. CASE u \in OperatorIdUpdates
    BY <1>2 DEF States, OperatorIdUpdates, Apply
  <1>3. CASE u \in LocationUpdates
    BY <1>3 DEF States, LocationUpdates, Apply
  <1>4. CASE u \in SystemUpdates
    BY <1>4 DEF States, SystemUpdates, Apply
  <1>5. CASE u = Takeoff
    BY <1>5, StoreDataAssumption DEF States, Takeoff, Apply, CaptureTakeoff
  <1>. QED
    BY <1>1, <1>2, <1>3, <1>4, <1>5 DEF Updates

(* remoteid_store_start leaves a well-typed store. *)
LEMMA StoreInitTyped == StoreInit => StoreTypeOK
  BY AtomicStoreAssumption, UsableBoolean DEF StoreInit, StoreTypeOK, InitialStates

(* The queue takes one update more at most, and stays as it is otherwise.  *)
LEMMA SubmitTyped ==
    ASSUME StoreTypeOK, NEW u \in Inputs, Submit(u)
    PROVE  StoreTypeOK'
  BY AtomicStoreAssumption DEF StoreTypeOK, Submit

(* The store task takes the oldest update from the queue. *)
LEMMA ApplyUpdateTyped ==
    ASSUME StoreTypeOK, ApplyUpdate
    PROVE  StoreTypeOK'
  <1> USE DEF StoreTypeOK, ApplyUpdate
  <1>1. /\ Head(pending) \in Updates
        /\ Tail(pending) \in Seq(Inputs)
        /\ Len(Tail(pending)) <= QueueLen + 1
    BY AtomicStoreAssumption
  <1>2. state' \in States
    BY <1>1, ApplyTyped
  <1>. QED
    BY <1>1, <1>2, UsableBoolean

(* A reader gets a state. *)
LEMMA GetSnapshotTyped ==
    ASSUME StoreTypeOK, NEW r \in Readers, GetSnapshot(r)
    PROVE  StoreTypeOK' /\ snapshot'[r] \in States
  BY DEF StoreTypeOK, GetSnapshot

(* Every variable of the store keeps its type, and no more updates are     *)
(* accepted than the queue and the store task can hold                     *)
(* (store.c:13, 135-149, 184-193).                                         *)
THEOREM StoreTypes == StoreSpec => []StoreTypeOK
  <1>1. StoreTypeOK /\ [StoreNext]_storeVars => StoreTypeOK'
    <2> SUFFICES ASSUME StoreTypeOK, [StoreNext]_storeVars PROVE StoreTypeOK'
      OBVIOUS
    <2>1. CASE UNCHANGED storeVars
      BY <2>1 DEF storeVars, StoreTypeOK
    <2>. QED
      BY <2>1, SubmitTyped, ApplyUpdateTyped, GetSnapshotTyped DEF StoreNext
  <1>. QED
    BY <1>1, StoreInitTyped, PTL DEF StoreSpec

=============================================================================
