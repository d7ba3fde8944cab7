------------------------ MODULE SeedCheckpointProofs ------------------------
(***************************************************************************)
(* Proofs about SeedCheckpoint, for any number of seeds and calls.         *)
(***************************************************************************)
EXTENDS SeedCheckpoint, TLAPS

(* The files of a seed are files, and different ones.                      *)
LEMMA FilesOfSeed ==
  ASSUME NEW s \in Seeds, NEW t \in Seeds
  PROVE  /\ ArtifactOf(s) \in File /\ ReceiptOf(s) \in File
         /\ ArtifactOf(s) # ReceiptOf(t)
         /\ ArtifactOf(s) = ArtifactOf(t) => s = t
         /\ ReceiptOf(s) = ReceiptOf(t) => s = t
BY DEF ArtifactOf, ReceiptOf, File, Kind

(* What a call publishes is the artifact or the receipt of its seed.       *)
LEMMA TargetOfCall ==
  ASSUME TypeOK, NEW c \in Calls
  PROVE  /\ Target(c) \in File
         /\ kind[c] = "artifact" => Target(c) = ArtifactOf(seed[c])
         /\ kind[c] = "receipt" => Target(c) = ReceiptOf(seed[c])
         /\ kind[c] \in {"artifact", "receipt"}
         /\ seed[c] \in Seeds
BY DEF TypeOK, Target, ArtifactOf, ReceiptOf, File, Kind

LEMMA TypeInductive == TypeOK /\ [Next]_vars => TypeOK'
<1> SUFFICES ASSUME TypeOK, [Next]_vars PROVE TypeOK'
  OBVIOUS
<1> USE DEF TypeOK, Active, Kind
<1>1. ASSUME NEW c \in Calls, Begin(c) \/ Check(c) \/ Fail(c)
      PROVE  TypeOK'
  BY <1>1 DEF Begin, Check, Fail, Goto
<1>2. ASSUME NEW c \in Calls, Link(c) PROVE TypeOK'
  <2>1. Target(c) \in File
    BY TargetOfCall
  <2> QED
    BY <1>2, <2>1 DEF Link, Goto
<1>3. ASSUME NEW c \in Calls, SyncDirectory(c) PROVE TypeOK'
  BY <1>3 DEF SyncDirectory, Advance, Goto
<1>4. ASSUME NEW f \in File, WriteBack(f) PROVE TypeOK'
  BY <1>4 DEF WriteBack
<1>5. CASE Crash
  BY <1>5 DEF Crash
<1>6. CASE UNCHANGED vars
  BY <1>6 DEF vars
<1> QED
  BY <1>1, <1>2, <1>3, <1>4, <1>5, <1>6 DEF Next

(* What no step may take away: an entry disappears only in a crash, and    *)
(* only if it was not synced; a synced entry never changes.                *)
LEMMA EntriesPersist ==
  ASSUME CheckpointInv, [Next]_vars
  PROVE  /\ synced \subseteq synced'
         /\ \A f \in synced : directory'[f] = directory[f]
<1> USE DEF CheckpointInv, SyncedExist, Exists
<1>1. ASSUME NEW c \in Calls, Begin(c) \/ Check(c) \/ Fail(c)
      PROVE  UNCHANGED <<directory, synced>>
  BY <1>1 DEF Begin, Check, Fail
<1>2. ASSUME NEW c \in Calls, Link(c)
      PROVE  synced' = synced /\ \A f \in synced : directory'[f] = directory[f]
  BY <1>2 DEF Link, TypeOK
<1>3. ASSUME NEW c \in Calls, SyncDirectory(c)
      PROVE  synced \subseteq synced' /\ directory' = directory
  BY <1>3 DEF SyncDirectory, TypeOK
<1>4. ASSUME NEW f \in File, WriteBack(f)
      PROVE  synced \subseteq synced' /\ directory' = directory
  BY <1>4 DEF WriteBack
<1>5. CASE Crash
  BY <1>5 DEF Crash, TypeOK
<1>6. CASE UNCHANGED vars
  BY <1>6 DEF vars
<1> QED
  BY <1>1, <1>2, <1>3, <1>4, <1>5, <1>6 DEF Next

(* The invariant is kept by each step.                                     *)
LEMMA CheckpointInductive == CheckpointInv /\ [Next]_vars => CheckpointInv'
<1> SUFFICES ASSUME CheckpointInv, [Next]_vars PROVE CheckpointInv'
  OBVIOUS
<1>1. TypeOK /\ TypeOK'
  BY TypeInductive DEF CheckpointInv
<1>2. /\ synced \subseteq synced'
      /\ \A f \in synced : directory'[f] = directory[f]
  BY EntriesPersist
<1>3. NoFile \notin Calls
  BY CallsAssumption
<1> USE DEF CheckpointInv
<1>4. ASSUME NEW c \in Calls, Begin(c) \/ Check(c) \/ Fail(c)
      PROVE  CheckpointInv'
  <2>1. SyncedExist' /\ ArtifactFirst'
    BY <1>1, <1>4 DEF SyncedExist, ArtifactFirst, Exists, Begin, Check, Fail
  <2>2. DoneIsDurable'
    BY <1>1, <1>4 DEF DoneIsDurable, Target, Begin, Check, Fail, Goto, TypeOK, Active
  <2> QED
    BY <1>1, <2>1, <2>2
<1>5. ASSUME NEW c \in Calls, Link(c)
      PROVE  CheckpointInv'
  <2>1. CASE Exists(Target(c))
    <3>1. UNCHANGED <<directory, synced, kind, seed>>
      BY <1>5, <2>1 DEF Link
    <3>2. SyncedExist' /\ ArtifactFirst'
      BY <1>1, <3>1 DEF SyncedExist, ArtifactFirst, Exists
    <3>3. DoneIsDurable'
      BY <1>1, <1>5, <2>1, <3>1 DEF DoneIsDurable, Target, Link, Goto, TypeOK
    <3> QED
      BY <1>1, <3>2, <3>3
  <2>2. CASE ~Exists(Target(c))
    <3>1. /\ directory' = [directory EXCEPT ![Target(c)] = c]
          /\ pc' = [pc EXCEPT ![c] = "sync"]
          /\ UNCHANGED <<synced, kind, seed>>
      BY <1>5, <2>2 DEF Link, Goto
    <3>2. Target(c) \in File /\ directory'[Target(c)] = c
      BY <1>1, <3>1, TargetOfCall DEF TypeOK
    <3>3. SyncedExist'
      BY <1>1, <1>2, <1>3, <3>1 DEF SyncedExist, Exists, TypeOK
    <3>4. ASSUME NEW d \in Calls, kind'[d] = "receipt"
          PROVE  ArtifactOf(seed'[d]) \in synced' /\ directory'[ArtifactOf(seed'[d])] = d
      BY <1>2, <3>1, <3>4 DEF ArtifactFirst
    <3>5. ASSUME NEW s \in Seeds, Exists(ReceiptOf(s))'
          PROVE  /\ ArtifactOf(s) \in synced'
                 /\ directory'[ArtifactOf(s)] = directory'[ReceiptOf(s)]
      <4>1. CASE ReceiptOf(s) = Target(c)
        <5>1. kind[c] = "receipt" /\ s = seed[c]
          BY <1>1, <4>1, TargetOfCall, FilesOfSeed
        <5>2. ArtifactOf(s) \in synced /\ directory[ArtifactOf(s)] = c
          BY <5>1 DEF ArtifactFirst
        <5> QED
          BY <1>2, <3>2, <4>1, <5>2
      <4>2. CASE ReceiptOf(s) # Target(c)
        <5>1. directory'[ReceiptOf(s)] = directory[ReceiptOf(s)]
          BY <1>1, <3>1, <4>2, FilesOfSeed DEF TypeOK
        <5>2. ArtifactOf(s) \in synced /\ directory[ArtifactOf(s)] = directory[ReceiptOf(s)]
          BY <3>5, <5>1 DEF ArtifactFirst, Exists
        <5> QED
          BY <1>2, <5>1, <5>2
      <4> QED
        BY <4>1, <4>2
    <3>6. ArtifactFirst'
      BY <3>4, <3>5 DEF ArtifactFirst
    <3>7. ASSUME NEW d \in Calls, pc'[d] = "sync"
          PROVE  directory'[Target(d)'] = d
      <4>1. Target(d)' = Target(d)
        BY <3>1 DEF Target
      <4>2. CASE d = c
        BY <3>2, <4>1, <4>2
      <4>3. CASE d # c
        <5>1. pc[d] = "sync"
          BY <1>1, <3>1, <3>7, <4>3 DEF TypeOK
        <5>2. directory[Target(d)] = d
          BY <5>1 DEF DoneIsDurable
        <5>3. Target(d) # Target(c)
          BY <1>3, <2>2, <5>2 DEF Exists
        <5>4. Target(d) \in File
          BY <1>1, TargetOfCall
        <5> QED
          BY <1>1, <3>1, <4>1, <5>2, <5>3, <5>4 DEF TypeOK
      <4> QED
        BY <4>2, <4>3
    <3>8. ASSUME NEW d \in Calls, pc'[d] = "done"
          PROVE  /\ kind'[d] = "receipt" /\ ReceiptOf(seed'[d]) \in synced'
                 /\ directory'[ReceiptOf(seed'[d])] = d
      <4>1. pc[d] = "done"
        BY <1>1, <3>1, <3>8 DEF TypeOK
      <4> QED
        BY <1>2, <3>1, <4>1 DEF DoneIsDurable
    <3>9. DoneIsDurable'
      BY <3>7, <3>8 DEF DoneIsDurable
    <3> QED
      BY <1>1, <3>3, <3>6, <3>9
  <2> QED
    BY <2>1, <2>2
<1>6. ASSUME NEW c \in Calls, SyncDirectory(c)
      PROVE  CheckpointInv'
  <2>1. /\ directory' = directory /\ seed' = seed
        /\ synced' = {f \in File : Exists(f)}
        /\ pc[c] = "sync" /\ directory[Target(c)] = c
    BY <1>6 DEF SyncDirectory, DoneIsDurable
  <2>2. Target(c) \in synced'
    BY <1>1, <1>3, <2>1, TargetOfCall DEF Exists
  <2>3. SyncedExist'
    BY <2>1 DEF SyncedExist, Exists
  <2>4. CASE kind[c] = "artifact"
    <3>1. kind' = [kind EXCEPT ![c] = "receipt"] /\ pc' = [pc EXCEPT ![c] = "check"]
      BY <1>6, <2>4 DEF SyncDirectory, Advance, Goto
    <3>2. ArtifactOf(seed[c]) \in synced' /\ directory[ArtifactOf(seed[c])] = c
      BY <1>1, <2>1, <2>2, <2>4, TargetOfCall
    <3>3. ArtifactFirst'
      BY <1>1, <1>2, <2>1, <3>1, <3>2 DEF ArtifactFirst, Exists, TypeOK
    <3>4. DoneIsDurable'
      BY <1>1, <1>2, <2>1, <3>1 DEF DoneIsDurable, Target, TypeOK
    <3> QED
      BY <1>1, <2>3, <3>3, <3>4
  <2>5. CASE kind[c] = "receipt"
    <3>1. kind' = kind /\ pc' = [pc EXCEPT ![c] = "done"]
      BY <1>6, <2>5 DEF SyncDirectory, Advance, Goto
    <3>2. ReceiptOf(seed[c]) \in synced' /\ directory[ReceiptOf(seed[c])] = c
      BY <1>1, <2>1, <2>2, <2>5, TargetOfCall
    <3>3. ArtifactFirst'
      BY <1>2, <2>1, <3>1 DEF ArtifactFirst, Exists
    <3>4. DoneIsDurable'
      BY <1>1, <1>2, <2>1, <2>5, <3>1, <3>2 DEF DoneIsDurable, Target, TypeOK
    <3> QED
      BY <1>1, <2>3, <3>3, <3>4
  <2> QED
    BY <1>1, <2>4, <2>5, TargetOfCall
<1>7. ASSUME NEW f \in File, WriteBack(f)
      PROVE  CheckpointInv'
  BY <1>1, <1>7 DEF WriteBack, SyncedExist, ArtifactFirst, DoneIsDurable, Exists, Target
<1>8. CASE Crash
  <2>1. \A f \in File : Exists(f)' => f \in synced
    BY <1>8 DEF Crash, Exists
  <2>2. UNCHANGED <<synced, kind, seed>>
    BY <1>8 DEF Crash
  <2>3. SyncedExist'
    BY <1>2, <2>2 DEF SyncedExist, Exists
  <2>4. ArtifactFirst'
    BY <1>2, <2>1, <2>2, FilesOfSeed DEF ArtifactFirst, Exists
  <2>5. \A c \in Calls : pc'[c] # "sync" /\ (pc'[c] = "done" => pc[c] = "done")
    BY <1>1, <1>8 DEF Crash, Active, TypeOK
  <2>6. DoneIsDurable'
    BY <1>2, <2>2, <2>5 DEF DoneIsDurable
  <2> QED
    BY <1>1, <2>3, <2>4, <2>6
<1>9. CASE UNCHANGED vars
  BY <1>1, <1>9 DEF vars, SyncedExist, ArtifactFirst, DoneIsDurable, Exists, Target
<1> QED
  BY <1>4, <1>5, <1>6, <1>7, <1>8, <1>9 DEF Next

(* The inductive invariant holds in every reachable state.                 *)
THEOREM CheckpointCorrect == Spec => []CheckpointInv
<1>1. Init => CheckpointInv
  BY FilesOfSeed DEF Init, CheckpointInv, TypeOK, SyncedExist, ArtifactFirst, DoneIsDurable,
                     Exists, Active, Kind
<1> QED
  BY <1>1, CheckpointInductive, PTL DEF Spec

(* Every receipt can be read back, after any crash and any failed call.    *)
THEOREM ReceiptsAreReadableCorrect == Spec => []ReceiptsAreReadable
<1>1. CheckpointInv => ReceiptsAreReadable
  BY DEF CheckpointInv, ArtifactFirst, ReceiptsAreReadable, Readable
<1> QED
  BY <1>1, CheckpointCorrect, PTL

(* What a returned call has published is never lost or replaced.           *)
THEOREM CheckpointSurvivesCorrect == Spec => []CheckpointSurvives
<1>1. CheckpointInv => CheckpointSurvives
  BY DEF CheckpointInv, ArtifactFirst, DoneIsDurable, CheckpointSurvives
<1> QED
  BY <1>1, CheckpointCorrect, PTL

(* The files implement the ledger of completed seeds.                      *)
THEOREM LedgerCorrect == Spec => ImplementsLedger
<1> DEFINE recorded == [s \in Seeds |-> IF ReceiptOf(s) \in synced
                                        THEN directory[ReceiptOf(s)] ELSE NoFile]
           acknowledged == {c \in Calls : pc[c] = "done"}
<1>1. Init => Ledger!Init
  BY DEF Init, Ledger!Init
<1>2. CheckpointInv /\ [Next]_vars => [Ledger!Next]_(Ledger!vars)
  <2> SUFFICES ASSUME CheckpointInv, [Next]_vars
               PROVE  [Ledger!Next]_(Ledger!vars)
    OBVIOUS
  <2>1. TypeOK /\ TypeOK' /\ CheckpointInv'
    BY TypeInductive, CheckpointInductive DEF CheckpointInv
  <2>2. synced \subseteq synced' /\ \A f \in synced : directory'[f] = directory[f]
    BY EntriesPersist
  <2>3. recorded' \in [Seeds -> Calls \cup {NoFile}]
    BY <2>1, FilesOfSeed DEF TypeOK
  <2>4. \A s \in Seeds : recorded[s] # NoFile => recorded'[s] = recorded[s]
    BY <2>2
  <2>5. Ledger!Extended
    BY <2>3, <2>4 DEF Ledger!Extended
  <2>6. CASE \E c \in Calls : SyncDirectory(c) /\ kind[c] = "receipt"
    <3>1. PICK c \in Calls : SyncDirectory(c) /\ kind[c] = "receipt"
      BY <2>6
    <3>2. pc' = [pc EXCEPT ![c] = "done"]
      BY <3>1 DEF SyncDirectory, Advance, Goto
    <3>3. acknowledged' = acknowledged \cup {c}
      BY <2>1, <3>2 DEF TypeOK
    <3>4. pc'[c] = "done"
      BY <2>1, <3>2 DEF TypeOK
    <3>5. ReceiptOf(seed'[c]) \in synced' /\ directory'[ReceiptOf(seed'[c])] = c
      BY <2>1, <3>4 DEF CheckpointInv, DoneIsDurable
    <3>6. seed'[c] \in Seeds
      BY <2>1 DEF TypeOK
    <3>7. recorded'[seed'[c]] = c
      BY <3>5, <3>6
    <3>8. Ledger!Acknowledge(c)
      BY <2>5, <3>3, <3>6, <3>7 DEF Ledger!Acknowledge
    <3> QED
      BY <3>8 DEF Ledger!Next
  <2>7. CASE ~\E c \in Calls : SyncDirectory(c) /\ kind[c] = "receipt"
    <3>1. \A c \in Calls : pc'[c] = "done" <=> pc[c] = "done"
      <4>1. ASSUME NEW c \in Calls, Begin(c) \/ Check(c) \/ Link(c) \/ Fail(c)
            PROVE  \A d \in Calls : pc'[d] = "done" <=> pc[d] = "done"
        BY <2>1, <4>1 DEF TypeOK, Begin, Check, Link, Fail, Goto, Active
      <4>2. ASSUME NEW c \in Calls, SyncDirectory(c)
            PROVE  \A d \in Calls : pc'[d] = "done" <=> pc[d] = "done"
        BY <2>1, <2>7, <4>2 DEF TypeOK, SyncDirectory, Advance, Goto, Kind
      <4>3. CASE Crash
        BY <2>1, <4>3 DEF TypeOK, Crash, Active
      <4>4. CASE UNCHANGED vars \/ \E f \in File : WriteBack(f)
        BY <4>4 DEF vars, WriteBack
      <4> QED
        BY <4>1, <4>2, <4>3, <4>4 DEF Next
    <3>2. acknowledged' = acknowledged
      BY <3>1
    <3> QED
      BY <2>5, <3>2 DEF Ledger!Next, Ledger!Record
  <2> QED
    BY <2>6, <2>7
<1> QED
  BY <1>1, <1>2, CheckpointCorrect, PTL DEF Spec, ImplementsLedger, Ledger!Spec
=============================================================================
