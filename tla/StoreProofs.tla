----------------------------- MODULE StoreProofs -----------------------------
(***************************************************************************)
(* Proofs about module Store for every set of readers, every set of        *)
(* inputs, every configuration and every queue length: its type            *)
(* invariant, its inductive invariant IInv, ReadyBitAgrees, and that it    *)
(* implements AtomicStore.                                                 *)
(***************************************************************************)
EXTENDS Store, TLAPS, SequenceTheorems

(* A state written in two halves is the state written at once. *)
LEMMA WholeApply ==
    ASSUME NEW s \in States, NEW u \in Updates
    PROVE  WriteRest(WriteFirst(s, u), u) = Apply(s, u)
<1>1. CASE u \in BasicIdUpdates
  BY <1>1 DEF States, BasicIdUpdates, WriteFirst, WriteRest, Apply
<1>2. CASE u \in OperatorIdUpdates
  BY <1>2 DEF States, OperatorIdUpdates, WriteFirst, WriteRest, Apply
<1>3. CASE u \in LocationUpdates
  BY <1>3 DEF States, LocationUpdates, WriteFirst, WriteRest, Apply
<1>4. CASE u \in SystemUpdates
  BY <1>4 DEF States, SystemUpdates, WriteFirst, WriteRest, Apply
<1>5. CASE u = Takeoff
  BY <1>5 DEF States, Takeoff, WriteFirst, WriteRest, Apply, CaptureTakeoff
<1>6. QED
  BY <1>1, <1>2, <1>3, <1>4, <1>5 DEF Updates

(* Each half keeps the type of the state. *)
LEMMA WritesTyped ==
    ASSUME NEW s \in States, NEW u \in Updates
    PROVE  WriteFirst(s, u) \in States /\ WriteRest(s, u) \in States
<1>1. CASE u \in BasicIdUpdates
  BY <1>1 DEF States, BasicIdUpdates, WriteFirst, WriteRest
<1>2. CASE u \in OperatorIdUpdates
  BY <1>2 DEF States, OperatorIdUpdates, WriteFirst, WriteRest
<1>3. CASE u \in LocationUpdates
  BY <1>3 DEF States, LocationUpdates, WriteFirst, WriteRest
<1>4. CASE u \in SystemUpdates
  BY <1>4 DEF States, SystemUpdates, WriteFirst, WriteRest
<1>5. CASE u = Takeoff
  BY <1>5, StoreDataAssumption DEF States, Takeoff, WriteFirst, WriteRest
<1>6. QED
  BY <1>1, <1>2, <1>3, <1>4, <1>5 DEF Updates

(* A copy is typed at every point, and both halves together are the state. *)
LEMMA CopiesTyped ==
    ASSUME NEW out \in States, NEW s \in States
    PROVE  /\ CopyHead(out, s) \in States
           /\ CopyRest(out, s) \in States
           /\ CopyRest(CopyHead(out, s), s) = s
BY DEF States, CopyHead, CopyRest

(* An update of another type leaves a flag's text alone. *)
LEMMA WritesKeepIdentity ==
    ASSUME NEW s \in States, NEW u \in Updates
    PROVE  /\ u.type # "BASIC_ID" =>
                /\ WriteFirst(s, u).uas_id = s.uas_id
           /\ u.type # "OPERATOR_ID" =>
                WriteFirst(s, u).operator_id = s.operator_id
           /\ WriteRest(s, u).uas_id = s.uas_id
           /\ WriteRest(s, u).operator_id = s.operator_id
<1>1. CASE u \in BasicIdUpdates
  BY <1>1 DEF States, BasicIdUpdates, WriteFirst, WriteRest
<1>2. CASE u \in OperatorIdUpdates
  BY <1>2 DEF States, OperatorIdUpdates, WriteFirst, WriteRest
<1>3. CASE u \in LocationUpdates
  BY <1>3 DEF States, LocationUpdates, WriteFirst, WriteRest
<1>4. CASE u \in SystemUpdates
  BY <1>4 DEF States, SystemUpdates, WriteFirst, WriteRest
<1>5. CASE u = Takeoff
  BY <1>5 DEF States, Takeoff, WriteFirst, WriteRest
<1>6. QED
  BY <1>1, <1>2, <1>3, <1>4, <1>5 DEF Updates

-----------------------------------------------------------------------------
(* The states remoteid_store_start leaves are well typed. *)
LEMMA TypeInit == Init => TypeOK
<1> SUFFICES ASSUME Init PROVE TypeOK
  OBVIOUS
<1> USE DEF Init
<1>1. s_state \in States /\ published \in States
  BY StoreAssumption DEF InitialStates
<1>2. snapshot \in [Readers -> States]
  BY <1>1
<1>3. queue \in Seq(Inputs) /\ Len(queue) <= QueueLen
  BY StoreAssumption
<1>4. /\ s_basic_id_valid \in BOOLEAN
      /\ s_operator_id_valid \in BOOLEAN
      /\ ready_bit \in BOOLEAN
  BY DEF BasicIdUsable, OperatorIdUsable, UsableText
<1>5. update \in Updates
  BY DEF Updates
<1>6. QED
  BY <1>1, <1>2, <1>3, <1>4, <1>5 DEF TypeOK

(* Every step of the store task, a reader or a submitter keeps the types. *)
LEMMA TypeStep == TypeOK /\ [Next]_vars => TypeOK'
<1> SUFFICES ASSUME TypeOK, [Next]_vars PROVE TypeOK'
  OBVIOUS
<1> USE DEF TypeOK
<1>1. ASSUME NEW u \in Inputs, Submit(u) PROVE TypeOK'
  BY <1>1, StoreAssumption DEF Submit, sharedVars, readerVars
<1>2. CASE StoreReceive
  BY <1>2, StoreAssumption DEF StoreReceive, sharedVars, readerVars
<1>3. CASE StoreTake
  BY <1>3, WritesTyped DEF StoreTake, readerVars
<1>4. CASE StoreWriteRest
  BY <1>4, WritesTyped
     DEF StoreWriteRest, readerVars, BasicIdUsable, OperatorIdUsable, UsableText
<1>5. CASE StoreReadyBit
  BY <1>5 DEF StoreReadyBit, readerVars
<1>6. CASE StoreGive
  BY <1>6 DEF StoreGive, sharedVars, readerVars
<1>7. ASSUME NEW r \in Readers, SnapshotBegin(r) PROVE TypeOK'
  BY <1>7, CopiesTyped DEF SnapshotBegin, sharedVars
<1>8. ASSUME NEW r \in Readers, SnapshotEnd(r) PROVE TypeOK'
  BY <1>8, CopiesTyped DEF SnapshotEnd, sharedVars
<1>9. CASE UNCHANGED vars
  BY <1>9 DEF vars
<1>10. QED
  BY <1>1, <1>2, <1>3, <1>4, <1>5, <1>6, <1>7, <1>8, <1>9
     DEF Next, StoreTask, Reader

(* Every variable of the store keeps its type; the queue never holds more  *)
(* than REMOTEID_STORE_QUEUE_LEN updates (store.c:13, 189).                *)
THEOREM TypeCorrect == Spec => []TypeOK
BY TypeInit, TypeStep, PTL DEF Spec

-----------------------------------------------------------------------------
(* remoteid_store_start establishes the inductive invariant. *)
LEMMA IInvInit == Init => IInv
BY StoreAssumption
   DEF Init, IInv, MutexInv, CopyInv, FlagInv, IdentityUsable

(* Every step of the store task, a reader or a submitter keeps it. *)
LEMMA IInvStep == TypeOK /\ IInv /\ [Next]_vars => IInv'
<1> SUFFICES ASSUME TypeOK, IInv, [Next]_vars PROVE IInv'
  OBVIOUS
<1> USE StoreAssumption DEF TypeOK, IInv
<1>1. ASSUME NEW u \in Inputs, Submit(u) PROVE IInv'
  BY <1>1 DEF Submit, sharedVars, readerVars, MutexInv, CopyInv, FlagInv
<1>2. CASE StoreReceive
  BY <1>2 DEF StoreReceive, sharedVars, readerVars, MutexInv, CopyInv, FlagInv
<1>3. CASE StoreTake
  <2> USE <1>3 DEF StoreTake, readerVars
  <2>1. MutexInv'
    BY DEF MutexInv
  <2>2. CopyInv'
    BY WholeApply DEF CopyInv, MutexInv
  <2>3. FlagInv'
    BY WritesKeepIdentity
       DEF FlagInv, BasicIdUsable, OperatorIdUsable, UsableText
  <2>4. QED
    BY <2>1, <2>2, <2>3
<1>4. CASE StoreWriteRest
  <2> USE <1>4 DEF StoreWriteRest, readerVars
  <2>1. MutexInv'
    BY DEF MutexInv
  <2>2. CopyInv'
    BY DEF CopyInv, MutexInv
  <2>3. FlagInv'
    BY WritesKeepIdentity
       DEF FlagInv, BasicIdUsable, OperatorIdUsable, UsableText
  <2>4. QED
    BY <2>1, <2>2, <2>3
<1>5. CASE StoreReadyBit
  BY <1>5
     DEF StoreReadyBit, readerVars, MutexInv, CopyInv, FlagInv, IdentityUsable
<1>6. CASE StoreGive
  BY <1>6 DEF StoreGive, sharedVars, readerVars, MutexInv, CopyInv, FlagInv
<1>7. ASSUME NEW r \in Readers, SnapshotBegin(r) PROVE IInv'
  <2> USE <1>7 DEF SnapshotBegin, sharedVars
  <2>1. MutexInv'
    BY DEF MutexInv
  <2>2. CopyInv'
    BY CopiesTyped DEF CopyInv, MutexInv
  <2>3. FlagInv'
    BY DEF FlagInv
  <2>4. QED
    BY <2>1, <2>2, <2>3
<1>8. ASSUME NEW r \in Readers, SnapshotEnd(r) PROVE IInv'
  <2> USE <1>8 DEF SnapshotEnd, sharedVars
  <2>1. MutexInv'
    BY DEF MutexInv
  <2>2. CopyInv'
    BY DEF CopyInv, MutexInv
  <2>3. FlagInv'
    BY DEF FlagInv
  <2>4. QED
    BY <2>1, <2>2, <2>3
<1>9. CASE UNCHANGED vars
  BY <1>9 DEF vars, MutexInv, CopyInv, FlagInv
<1>10. QED
  BY <1>1, <1>2, <1>3, <1>4, <1>5, <1>6, <1>7, <1>8, <1>9
     DEF Next, StoreTask, Reader

(* The mutex excludes and the cached flags never go stale, whatever the    *)
(* interleaving of the store task and its readers.                         *)
THEOREM InductiveInvariant == Spec => []IInv
<1>1. TypeOK /\ IInv /\ [Next]_vars => IInv'
  BY IInvStep
<1>2. QED
  BY IInvInit, <1>1, TypeCorrect, PTL DEF Spec

(* The readiness bit is what a snapshot taken now would justify, whenever  *)
(* one can be taken (store.c:39-48).                                       *)
THEOREM ReadyBitCorrect == Spec => []ReadyBitAgrees
<1>1. TypeOK /\ IInv => ReadyBitAgrees
  BY DEF TypeOK, IInv, MutexInv, CopyInv, FlagInv, ReadyBitAgrees
<1>2. QED
  BY <1>1, TypeCorrect, InductiveInvariant, PTL

-----------------------------------------------------------------------------
(* Putting an element in front of a queue and taking it off again. *)
LEMMA Prefixed ==
    ASSUME NEW S, NEW u \in S, NEW q \in Seq(S)
    PROVE  /\ <<u>> \o q \in Seq(S)
           /\ <<u>> \o q # <<>>
           /\ Len(<<u>> \o q) = Len(q) + 1
           /\ Head(<<u>> \o q) = u
           /\ Tail(<<u>> \o q) = q
<1>1. <<u>> \in Seq(S) /\ Len(<<u>>) = 1
  OBVIOUS
<1>2. /\ <<u>> \o q \in Seq(S)
      /\ Len(<<u>> \o q) = Len(q) + 1
      /\ \A i \in 1 .. Len(q) : (<<u>> \o q)[i + 1] = q[i]
      /\ (<<u>> \o q)[1] = u
  BY <1>1, ConcatProperties
<1>3. <<u>> \o q # <<>> /\ Head(<<u>> \o q) = u
  BY <1>2
<1>4. Tail(<<u>> \o q) \in Seq(S) /\ Len(Tail(<<u>> \o q)) = Len(q)
  BY <1>2, <1>3
<1>5. \A i \in 1 .. Len(q) : Tail(<<u>> \o q)[i] = q[i]
  BY <1>2, <1>3
<1>6. Tail(<<u>> \o q) = q
  BY <1>4, <1>5, SeqEqual
<1>7. QED
  BY <1>2, <1>3, <1>6

(* Appending behind the update the store task holds. *)
LEMMA AppendPrefixed ==
    ASSUME NEW S, NEW u \in S, NEW q \in Seq(S), NEW v \in S
    PROVE  <<u>> \o Append(q, v) = Append(<<u>> \o q, v)
BY AppendIsConcat, ConcatAssociative

(* The abstract store computes with the same functions. *)
LEMMA SameFunctions ==
    /\ \A s : Abstract!IdentityUsable(s) = IdentityUsable(s)
    /\ \A s, u : Abstract!Apply(s, u) = Apply(s, u)
<1>1. ASSUME NEW s PROVE Abstract!IdentityUsable(s) = IdentityUsable(s)
  BY DEF Abstract!IdentityUsable, Abstract!BasicIdUsable,
         Abstract!OperatorIdUsable, Abstract!UsableText,
         Abstract!UasPlaceholder, Abstract!OperatorPlaceholder,
         IdentityUsable, BasicIdUsable, OperatorIdUsable, UsableText,
         UasPlaceholder, OperatorPlaceholder
<1>2. ASSUME NEW s, NEW u PROVE Abstract!Apply(s, u) = Apply(s, u)
  BY DEF Abstract!Apply, Abstract!CaptureTakeoff, Apply, CaptureTakeoff
<1>3. QED
  BY <1>1, <1>2

(* The state remoteid_store_start leaves is one of the abstract store. *)
LEMMA RefinesInit == Init => Abstract!StoreInit
<1> SUFFICES ASSUME Init PROVE Abstract!StoreInit
  OBVIOUS
<1>1. ready_bit = IdentityUsable(published)
  BY DEF Init, IdentityUsable
<1>2. Pending = <<>> /\ Snapshots = [r \in Readers |-> published]
  BY DEF Init, Pending, Snapshots
<1>3. QED
  BY <1>1, <1>2, SameFunctions DEF Init, Abstract!StoreInit

(* Every step of the store is a step of the abstract store or none. *)
LEMMA RefinesStep ==
    TypeOK /\ IInv /\ [Next]_vars
        => [Abstract!StoreNext]_(Abstract!storeVars)
<1> SUFFICES ASSUME TypeOK, IInv, [Next]_vars
             PROVE  [Abstract!StoreNext]_(Abstract!storeVars)
  OBVIOUS
<1> USE DEF TypeOK
<1> queue \in Seq(Updates)
  BY StoreAssumption
<1>1. ASSUME NEW u \in Inputs, Submit(u) PROVE Abstract!Submit(u)
  <2> USE <1>1 DEF Submit, sharedVars, readerVars
  <2>1. u \in Updates
    BY StoreAssumption
  <2>2. Len(Pending) <= QueueLen
    BY Prefixed, StoreAssumption DEF Pending
  <2>3. Pending' = Append(Pending, u)
    BY <2>1, AppendPrefixed DEF Pending
  <2>4. UNCHANGED <<published, ready_bit, Snapshots>>
    BY DEF Snapshots
  <2>5. QED
    BY <2>2, <2>3, <2>4 DEF Abstract!Submit
<1>2. CASE StoreReceive
  <2> USE <1>2 DEF StoreReceive, sharedVars, readerVars
  <2>1. queue = <<Head(queue)>> \o Tail(queue)
    BY HeadTailProperties, ConcatProperties, SeqEqual
  <2>2. UNCHANGED Pending
    BY <2>1 DEF Pending
  <2>3. UNCHANGED <<published, ready_bit, Snapshots>>
    BY DEF Snapshots
  <2>4. QED
    BY <2>2, <2>3 DEF Abstract!storeVars
<1>3. CASE StoreTake
  BY <1>3 DEF StoreTake, readerVars, Abstract!storeVars, Pending, Snapshots
<1>4. CASE StoreWriteRest
  BY <1>4 DEF StoreWriteRest, readerVars, Abstract!storeVars, Pending, Snapshots
<1>5. CASE StoreReadyBit
  <2> USE <1>5 DEF StoreReadyBit, readerVars
  <2>1. /\ Pending # <<>>
        /\ Head(Pending) = update
        /\ Pending' = Tail(Pending)
    BY Prefixed DEF Pending
  <2>2. published' = Apply(published, update)
    BY DEF IInv, CopyInv
  <2>3. ready_bit' = IdentityUsable(published')
    BY DEF IInv, FlagInv, IdentityUsable
  <2>4. UNCHANGED Snapshots
    <3>1. \A r \in Readers : reader_pc[r] # "rest"
      BY StoreAssumption DEF IInv, MutexInv
    <3>2. QED
      BY <3>1 DEF Snapshots
  <2>5. QED
    BY <2>1, <2>2, <2>3, <2>4, SameFunctions
       DEF Abstract!StoreNext, Abstract!ApplyUpdate
<1>6. CASE StoreGive
  BY <1>6
     DEF StoreGive, sharedVars, readerVars, Abstract!storeVars, Pending, Snapshots
<1>7. ASSUME NEW r \in Readers, SnapshotBegin(r) PROVE Abstract!GetSnapshot(r)
  <2> USE <1>7 DEF SnapshotBegin, sharedVars
  <2>1. Snapshots' = [Snapshots EXCEPT ![r] = published]
    BY DEF Snapshots
  <2>2. UNCHANGED <<published, ready_bit, Pending>>
    BY DEF Pending
  <2>3. QED
    BY <2>1, <2>2 DEF Abstract!GetSnapshot
<1>8. ASSUME NEW r \in Readers, SnapshotEnd(r)
      PROVE  UNCHANGED Abstract!storeVars
  <2> USE <1>8 DEF SnapshotEnd, sharedVars
  <2>1. snapshot'[r] = published
    BY StoreAssumption DEF IInv, MutexInv, CopyInv
  <2>2. UNCHANGED Snapshots
    BY <2>1 DEF Snapshots
  <2>3. UNCHANGED <<published, ready_bit, Pending>>
    BY DEF Pending
  <2>4. QED
    BY <2>2, <2>3 DEF Abstract!storeVars
<1>9. CASE UNCHANGED vars
  BY <1>9 DEF vars, Abstract!storeVars, Pending, Snapshots
<1>10. QED
  BY <1>1, <1>2, <1>3, <1>4, <1>5, <1>6, <1>7, <1>8, <1>9
     DEF Next, StoreTask, Reader, Abstract!StoreNext

(* The store keeps the promise of AtomicStore: updates take effect one at  *)
(* a time in the order of acceptance with the bit changing in the same     *)
(* instant, and every snapshot is one whole state (store.c:60-205).        *)
THEOREM Refinement == Spec => ImplementsAtomicStore
<1>1. Init => Abstract!StoreInit
  BY RefinesInit
<1>2. TypeOK /\ IInv /\ [Next]_vars
        => [Abstract!StoreNext]_(Abstract!storeVars)
  BY RefinesStep
<1>3. QED
  BY <1>1, <1>2, TypeCorrect, InductiveInvariant, PTL
     DEF Spec, ImplementsAtomicStore, Abstract!StoreSpec

=============================================================================
