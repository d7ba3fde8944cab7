-------------------------- MODULE FormalEventProofs --------------------------
(***************************************************************************)
(* Proofs about FormalEvent, for every number of hanchan and workers and   *)
(* every reorder bound that covers the workers.                            *)
(***************************************************************************)
EXTENDS FormalEvent, FiniteSetTheorems, WellFoundedInduction, TLAPS

Taken(i) == future[i] = "taken"

(* The pool: what has been submitted, and what has been collected.         *)
PoolInv ==
  /\ \A i \in Index : future[i] = "none" <=> i >= nextIndex
  /\ pc \notin Ended => \A i \in Index : future[i] # "killed"
  /\ pc \in {"begin", "submit", "wait", "join", "verify", "publish", "rollback",
            "published"} =>
       ready = {}
  /\ pc \in {"deliver", "advance"} => \A i \in ready : future[i] \in {"good", "bad"}
  /\ pc = "deliver" => ready # {}
  /\ pc = "append" => \A i \in ready : Delivered(i) \/ future[i] \in {"good", "bad"}

(* The record: rows in order, then a gap, then the buffer.                 *)
SinkInv ==
  /\ Len(rows) <= TaskCount /\ InOrder
  /\ \A i \in Index : Taken(i) <=> i < Len(rows) \/ i \in buffer
  /\ \A i \in buffer : i >= Len(rows)
  /\ pc \notin Ended \cup {"append"} => Len(rows) \notin buffer

(* The submission window mirrors the record, one hanchan behind while that *)
(* hanchan is appended.                                                    *)
WindowInv ==
  /\ \A i \in Index : i < firstUnfinished \/ i \in finished => Taken(i)
  /\ pc \notin Ended \cup {"append"} =>
       \A i \in Index : Taken(i) => i < firstUnfinished \/ i \in finished
  /\ pc = "append" =>
       /\ \A i \in Index : Taken(i) => i < firstUnfinished \/ i \in finished \cup ready
       /\ \E i \in ready : Delivered(i) /\ Taken(i)
  /\ pc \notin Ended \cup {"advance"} => firstUnfinished \notin finished
  /\ firstUnfinished <= Len(rows)
  /\ nextIndex <= firstUnfinished + MaxAhead

(* What is at the destinations.                                            *)
PublishInv ==
  /\ pc \in {"submit", "wait", "deliver", "append", "advance", "join", "verify"} =>
       published = {}
  /\ pc \in {"publish", "rollback", "published"} => Complete
  /\ pc = "published" => published = Artifact
  /\ "result" \in published => published = Artifact /\ pc \in {"begin", "published", "refused"}

EventInv ==
  /\ TypeOK /\ PoolInv /\ SinkInv /\ WindowInv /\ PublishInv
  /\ pc \in {"join", "verify"} => Complete

LEMMA Numbers ==
  /\ TaskCount \in Nat /\ Workers \in Nat /\ MaxAhead \in Nat
  /\ TaskCount > 0 /\ Workers > 0 /\ MaxAhead > 0
BY PoolAssumption

USE Numbers DEF Index

-----------------------------------------------------------------------------
(* The state keeps its type.                                               *)
LEMMA TypeInductive == TypeOK /\ [Next]_vars => TypeOK'
<1> SUFFICES ASSUME TypeOK, [Next]_vars PROVE TypeOK'
  OBVIOUS
<1> USE DEF TypeOK, Ended
<1>1. CASE UNCHANGED vars
  BY <1>1 DEF vars, poolVars, sinkVars
<1>2. Stop => TypeOK'
  BY DEF Stop, StopPool, sinkVars
<1>3. CASE Begin
  BY <1>3 DEF Begin, poolVars, sinkVars
<1>4. CASE CheckFails \/ OutOfTime
  BY <1>2, <1>4 DEF CheckFails, OutOfTime
<1>5. CASE Submit
  <2>1. CASE CanSubmit
    BY <1>5, <2>1 DEF Submit, CanSubmit, sinkVars
  <2>2. CASE ~CanSubmit
    BY <1>5, <2>2 DEF Submit, sinkVars
  <2> QED
    BY <2>1, <2>2
<1>6. CASE Collect
  BY <1>6 DEF Collect, Pending, sinkVars
<1>7. CASE Deliver
  <2>1. PICK i \in ready : /\ Delivered(i)
                          /\ IF Acceptable(i)
                             THEN /\ buffer' = buffer \cup {i}
                                  /\ future' = [future EXCEPT ![i] = "taken"]
                                  /\ pc' = "append"
                                  /\ UNCHANGED <<nextIndex, firstUnfinished, finished, ready,
                                                 rows, published>>
                             ELSE Stop
    BY <1>7 DEF Deliver
  <2>2. CASE Acceptable(i)
    BY <2>1, <2>2
  <2> QED
    BY <1>2, <2>1, <2>2
<1>8. CASE AppendRow
  <2>1. CASE Len(rows) \in buffer
    BY <1>8, <2>1 DEF AppendRow
  <2>2. CASE Len(rows) \notin buffer
    BY <1>8, <2>2 DEF AppendRow, Finish, sinkVars
  <2> QED
    BY <2>1, <2>2
<1>9. CASE Advance
  <2>1. CASE firstUnfinished \in finished
    <3>1. firstUnfinished \in 0 .. TaskCount - 1
      BY <2>1
    <3>2. firstUnfinished + 1 \in 0 .. TaskCount
      BY <3>1
    <3> QED
      BY <1>9, <2>1, <3>2 DEF Advance, sinkVars
  <2>2. CASE firstUnfinished \notin finished
    BY <1>9, <2>2 DEF Advance, sinkVars
  <2> QED
    BY <2>1, <2>2
<1>10. CASE Join \/ Verify
  BY <1>2, <1>10 DEF Join, Verify, poolVars, sinkVars
<1>11. ASSUME NEW artifact \in Artifact, Rename(artifact)
       PROVE  TypeOK'
  BY <1>11 DEF Rename, poolVars, sinkVars
<1>12. CASE TakeBack
  BY <1>2, <1>12 DEF TakeBack, poolVars, sinkVars
<1>13. CASE RenameFails
  BY <1>13 DEF RenameFails, poolVars, sinkVars
<1>14. CASE Kill
  BY <1>14 DEF Kill, StopPool, sinkVars
<1>15. CASE Rerun
  BY <1>15 DEF Rerun
<1>16. ASSUME NEW i \in Index, WorkerReturns(i)
       PROVE  TypeOK'
  BY <1>16 DEF WorkerReturns, sinkVars
<1>17. CASE PoolBreaks
  BY <1>17 DEF PoolBreaks, sinkVars
<1> QED
  BY <1>1, <1>3, <1>4, <1>5, <1>6, <1>7, <1>8, <1>9, <1>10, <1>11, <1>12, <1>13, <1>14, <1>15,
     <1>16, <1>17 DEF Next, Parent

-----------------------------------------------------------------------------
(* What a stop, a kill and the steps of a worker keep.                     *)
LEMMA EndKeeps ==
  ASSUME TypeOK, EventInv, pc' \in {"stopped", "killed"},
         StopPool, UNCHANGED <<nextIndex, firstUnfinished, finished, ready, sinkVars, published>>,
         "result" \notin published
  PROVE  EventInv'
<1> USE DEF TypeOK, EventInv, sinkVars, StopPool
<1>1. TypeOK'
  BY DEF Ended
<1>2. PoolInv'
  BY DEF PoolInv, Ended
<1>3. SinkInv'
  BY DEF SinkInv, InOrder, Taken, Ended
<1>4. WindowInv'
  BY DEF WindowInv, SinkInv, Taken, Ended
<1>5. PublishInv'
  BY DEF PublishInv, Ended
<1> QED
  BY <1>1, <1>2, <1>3, <1>4, <1>5

LEMMA WorkerKeeps ==
  ASSUME EventInv, PoolBreaks \/ \E i \in Index : WorkerReturns(i)
  PROVE  EventInv'
<1> USE DEF TypeOK, EventInv, sinkVars
<1>1. TypeOK'
  BY TypeInductive DEF Next
<1>2. UNCHANGED <<pc, nextIndex, firstUnfinished, finished, ready, buffer, rows, published>>
  BY DEF PoolBreaks, WorkerReturns
<1> DEFINE Returns(i) == \/ future'[i] = future[i]
                         \/ future[i] = "running" /\ future'[i] \in {"good", "bad"}
<1>3. \A i \in Index : Returns(i)
  <2>1. CASE PoolBreaks
    BY <2>1 DEF PoolBreaks
  <2>2. ASSUME NEW k \in Index, WorkerReturns(k)
        PROVE  \A i \in Index : Returns(i)
    <3>1. PICK result \in {"good", "bad"} : future' = [future EXCEPT ![k] = result]
      BY <2>2 DEF WorkerReturns
    <3> QED
      BY <2>2, <3>1 DEF WorkerReturns
  <2> QED
    BY <2>1, <2>2
<1>4. \A i \in Index : Taken(i)' <=> Taken(i)
  BY <1>3 DEF Taken
<1>5. PoolInv'
  BY <1>2, <1>3 DEF PoolInv, Delivered
<1>6. SinkInv'
  BY <1>2, <1>4 DEF SinkInv, InOrder
<1>7. WindowInv'
  BY <1>2, <1>4 DEF WindowInv, Delivered
<1>8. PublishInv' /\ (pc \in {"join", "verify"} => Complete)'
  BY <1>2 DEF PublishInv, Complete
<1> QED
  BY <1>1, <1>5, <1>6, <1>7, <1>8

-----------------------------------------------------------------------------
(* When nothing is pending, everything submitted has been delivered: the   *)
(* window is at its end, and so is the record.                             *)
LEMMA NothingPending ==
  ASSUME EventInv, pc = "submit", Pending = {}
  PROVE  /\ nextIndex = firstUnfinished
         /\ nextIndex = TaskCount => Complete
<1> USE DEF TypeOK, EventInv
<1>1. \A i \in Index : i < nextIndex => Taken(i)
  BY DEF Pending, PoolInv, Taken, Ended
<1>2. \A i \in Index : Taken(i) => i < nextIndex
  BY DEF PoolInv, Taken
<1>3. Len(rows) \in Nat /\ Len(rows) \notin buffer /\ firstUnfinished \notin finished
  BY DEF SinkInv, WindowInv, Ended
<1>4. firstUnfinished = nextIndex
  <2>1. ~ firstUnfinished < nextIndex
    <3> SUFFICES ASSUME firstUnfinished < nextIndex PROVE FALSE
      OBVIOUS
    <3>1. firstUnfinished \in Index
      OBVIOUS
    <3>2. Taken(firstUnfinished)
      BY <1>1, <3>1
    <3> QED
      BY <1>3, <3>1, <3>2 DEF WindowInv, Ended
  <2>2. ~ nextIndex < firstUnfinished
    <3> SUFFICES ASSUME nextIndex < firstUnfinished PROVE FALSE
      OBVIOUS
    <3>1. nextIndex \in Index
      OBVIOUS
    <3>2. Taken(nextIndex)
      BY <3>1 DEF WindowInv
    <3> QED
      BY <1>2, <3>1, <3>2
  <2> QED
    BY <2>1, <2>2
<1>5. ASSUME nextIndex = TaskCount PROVE Complete
  <2>1. ~ Len(rows) < TaskCount
    <3> SUFFICES ASSUME Len(rows) < TaskCount PROVE FALSE
      OBVIOUS
    <3>1. Len(rows) \in Index
      BY <1>3
    <3>2. Taken(Len(rows))
      BY <1>1, <1>5, <3>1
    <3> QED
      BY <1>3, <3>1, <3>2 DEF SinkInv
  <2>2. Len(rows) = TaskCount
    BY <1>3, <2>1 DEF SinkInv
  <2>3. buffer = {}
    <3> SUFFICES ASSUME NEW i \in buffer PROVE FALSE
      OBVIOUS
    <3>1. i \in Index /\ i >= Len(rows)
      BY DEF SinkInv
    <3> QED
      BY <2>2, <3>1
  <2> QED
    BY <2>2, <2>3 DEF Complete
<1> QED
  BY <1>4, <1>5

LEMMA SubmitKeeps ==
  ASSUME EventInv, Submit
  PROVE  EventInv'
<1> USE DEF TypeOK, EventInv, sinkVars
<1>1. TypeOK'
  BY TypeInductive DEF Next, Parent
<1>2. CASE CanSubmit
  <2>1. /\ pc = "submit" /\ nextIndex \in Index /\ nextIndex' = nextIndex + 1
        /\ future' = [future EXCEPT ![nextIndex] = "running"]
        /\ nextIndex < firstUnfinished + MaxAhead
        /\ UNCHANGED <<pc, firstUnfinished, finished, ready, sinkVars, published>>
    BY <1>2 DEF Submit, CanSubmit, WithinAhead
  <2>2. \A i \in Index : Taken(i)' <=> Taken(i)
    BY <2>1 DEF Taken, PoolInv
  <2>3. PoolInv'
    BY <2>1 DEF PoolInv, Ended
  <2>4. SinkInv'
    BY <2>1, <2>2 DEF SinkInv, InOrder
  <2>5. WindowInv'
    BY <2>1, <2>2 DEF WindowInv
  <2>6. PublishInv' /\ pc' \notin {"join", "verify"}
    BY <2>1 DEF PublishInv, Complete
  <2> QED
    BY <1>1, <2>3, <2>4, <2>5, <2>6
<1>3. CASE ~CanSubmit
  <2>1. /\ pc = "submit" /\ pc' = IF Pending = {} THEN "join" ELSE "wait"
        /\ UNCHANGED <<poolVars, sinkVars, published>>
    BY <1>3 DEF Submit, poolVars
  <2>2. PoolInv' /\ WindowInv' /\ SinkInv' /\ PublishInv'
    BY <2>1 DEF PoolInv, SinkInv, WindowInv, PublishInv, Taken, InOrder, Ended, poolVars
  <2>3. ASSUME Pending = {} PROVE Complete
    <3>1. Cardinality(Pending) = 0
      BY <2>3, FS_EmptySet
    <3>2. nextIndex = TaskCount
      BY <1>3, <2>1, <2>3, <3>1, NothingPending DEF CanSubmit, WithinAhead
    <3> QED
      BY <2>1, <2>3, <3>2, NothingPending
  <2>4. (pc \in {"join", "verify"} => Complete)'
    BY <2>1, <2>3 DEF Complete
  <2> QED
    BY <1>1, <2>2, <2>4
<1> QED
  BY <1>2, <1>3

LEMMA CollectKeeps ==
  ASSUME EventInv, Collect
  PROVE  EventInv'
<1> USE DEF TypeOK, EventInv, sinkVars, Collect
<1>1. TypeOK'
  BY TypeInductive DEF Next, Parent
<1>2. PoolInv'
  BY DEF PoolInv, Pending, Running, Ended
<1>3. SinkInv' /\ WindowInv'
  BY DEF SinkInv, WindowInv, InOrder, Taken, Ended
<1>4. PublishInv'
  BY DEF PublishInv
<1> QED
  BY <1>1, <1>2, <1>3, <1>4

(* What is delivered was pending, so it is not in the record yet.          *)
LEMMA ReadyIsNew ==
  ASSUME EventInv, pc = "deliver"
  PROVE  \A i \in ready : i >= Len(rows) /\ i \notin buffer
BY DEF EventInv, TypeOK, PoolInv, SinkInv, Taken

LEMMA DeliverKeeps ==
  ASSUME EventInv, Deliver, ~Stop
  PROVE  EventInv'
<1> USE DEF TypeOK, EventInv
<1>1. TypeOK'
  BY TypeInductive DEF Next, Parent
<1>2. PICK i \in ready :
        /\ Delivered(i) /\ Acceptable(i)
        /\ buffer' = buffer \cup {i} /\ future' = [future EXCEPT ![i] = "taken"]
        /\ pc = "deliver" /\ pc' = "append"
        /\ UNCHANGED <<nextIndex, firstUnfinished, finished, ready, rows, published>>
  BY DEF Deliver
<1>3. i \in Index /\ i >= Len(rows) /\ i \notin buffer
  BY <1>2, ReadyIsNew
<1>4. \A j \in Index : Taken(j)' <=> Taken(j) \/ j = i
  BY <1>2, <1>3 DEF Taken
<1>5. PoolInv'
  BY <1>2, <1>3 DEF PoolInv, Delivered, Ended
<1>6. SinkInv'
  BY <1>2, <1>3, <1>4 DEF SinkInv, InOrder, Ended
<1>7. WindowInv'
  BY <1>2, <1>3, <1>4 DEF WindowInv, Delivered, Ended
<1>8. PublishInv'
  BY <1>2 DEF PublishInv
<1> QED
  BY <1>1, <1>2, <1>5, <1>6, <1>7, <1>8

LEMMA AppendKeeps ==
  ASSUME EventInv, AppendRow
  PROVE  EventInv'
<1> USE DEF TypeOK, EventInv
<1>1. TypeOK'
  BY TypeInductive DEF Next, Parent
<1>2. CASE Len(rows) \in buffer
  <2>1. /\ pc = "append" /\ rows' = Append(rows, Len(rows)) /\ buffer' = buffer \ {Len(rows)}
        /\ UNCHANGED <<pc, poolVars, published>>
    BY <1>2 DEF AppendRow, poolVars
  <2>2. Len(rows') = Len(rows) + 1 /\ Len(rows) \in Index
    BY <1>2, <2>1
  <2>3. InOrder'
    <3> SUFFICES ASSUME NEW k \in 1 .. Len(rows) + 1
                 PROVE  rows'[k] = k - 1
      BY <2>2 DEF InOrder
    <3> QED
      BY <2>1 DEF SinkInv, InOrder
  <2>4. SinkInv'
    <3>1. \A i \in Index : i < Len(rows') \/ i \in buffer' <=> i < Len(rows) \/ i \in buffer
      BY <1>2, <2>1, <2>2
    <3>2. \A i \in buffer' : i >= Len(rows')
      BY <2>1, <2>2 DEF SinkInv
    <3> QED
      BY <2>1, <2>2, <2>3, <3>1, <3>2 DEF SinkInv, Taken, poolVars
  <2>5. PoolInv' /\ WindowInv' /\ PublishInv' /\ pc' \notin {"join", "verify"}
    BY <2>1, <2>2 DEF PoolInv, WindowInv, PublishInv, Delivered, Taken, Ended, poolVars
  <2> QED
    BY <1>1, <2>4, <2>5
<1>3. CASE Len(rows) \notin buffer
  <2>1. PICK i \in ready : Delivered(i) /\ finished' = finished \cup {i} /\ ready' = ready \ {i}
    BY <1>3 DEF AppendRow, Finish
  <2>2. /\ pc = "append" /\ pc' = "advance"
        /\ UNCHANGED <<future, nextIndex, firstUnfinished, sinkVars, published>>
    BY <1>3 DEF AppendRow
  <2>3. \A j \in ready : Delivered(j) <=> j = i
    BY <2>1 DEF Delivered
  <2>4. Taken(i)
    BY <2>2, <2>3 DEF WindowInv
  <2>5. PoolInv'
    BY <2>1, <2>2, <2>3 DEF PoolInv, Ended
  <2>6. SinkInv'
    BY <1>3, <2>2 DEF SinkInv, InOrder, Taken, sinkVars
  <2>7. \A j \in ready' : ~Taken(j)
    BY <2>1, <2>2, <2>3 DEF PoolInv, Taken
  <2>8. WindowInv'
    BY <2>1, <2>2, <2>4, <2>7 DEF WindowInv, Taken, Ended, sinkVars
  <2>9. PublishInv'
    BY <2>2 DEF PublishInv
  <2> QED
    BY <1>1, <2>2, <2>5, <2>6, <2>8, <2>9
<1> QED
  BY <1>2, <1>3

LEMMA AdvanceKeeps ==
  ASSUME EventInv, Advance
  PROVE  EventInv'
<1> USE DEF TypeOK, EventInv, sinkVars
<1>1. TypeOK'
  BY TypeInductive DEF Next, Parent
<1>2. CASE firstUnfinished \in finished
  <2>1. /\ pc = "advance" /\ finished' = finished \ {firstUnfinished}
        /\ firstUnfinished' = firstUnfinished + 1
        /\ UNCHANGED <<pc, future, nextIndex, ready, buffer, rows, published>>
    BY <1>2 DEF Advance
  <2>2. PoolInv' /\ SinkInv' /\ PublishInv'
    BY <2>1 DEF PoolInv, SinkInv, PublishInv, InOrder, Taken, Ended
  <2>3. firstUnfinished # Len(rows)
    BY <1>2, <2>1 DEF WindowInv, SinkInv, Ended, Taken
  <2>4. WindowInv'
    BY <1>2, <2>1, <2>3 DEF WindowInv, Taken, Ended
  <2> QED
    BY <1>1, <2>1, <2>2, <2>4
<1>3. CASE firstUnfinished \notin finished
  <2>1. /\ pc = "advance" /\ pc' = IF ready = {} THEN "submit" ELSE "deliver"
        /\ UNCHANGED <<poolVars, buffer, rows, published>>
    BY <1>3 DEF Advance, poolVars
  <2>2. PoolInv' /\ SinkInv' /\ WindowInv' /\ PublishInv'
    BY <1>3, <2>1 DEF PoolInv, SinkInv, WindowInv, PublishInv, InOrder, Taken, Ended, poolVars
  <2> QED
    BY <1>1, <2>1, <2>2
<1> QED
  BY <1>2, <1>3

(* After the last hanchan only the artifacts change.                       *)
LEMMA PublishKeeps ==
  ASSUME EventInv,
         \/ Begin \/ Join
         \/ Verify /\ ~Stop
         \/ RenameFails
         \/ TakeBack /\ ~Stop
         \/ \E artifact \in Artifact : Rename(artifact)
  PROVE  EventInv'
<1> USE DEF TypeOK, EventInv
<1>1. TypeOK'
  BY TypeInductive DEF Next, Parent
<1>2. /\ UNCHANGED <<poolVars, buffer, rows>>
      /\ pc \in {"begin", "join", "verify", "publish", "rollback"}
      /\ pc' \in {"submit", "verify", "publish", "rollback", "published", "refused"}
      /\ pc' = "verify" => pc = "join"
  BY DEF Begin, Join, Verify, RenameFails, TakeBack, Rename, sinkVars
<1>3. PoolInv' /\ SinkInv' /\ WindowInv'
  BY <1>2 DEF PoolInv, SinkInv, WindowInv, InOrder, Taken, Ended, poolVars
<1>4. ASSUME Begin PROVE PublishInv'
  BY <1>4 DEF Begin, PublishInv
<1>5. ASSUME Verify /\ ~Stop PROVE PublishInv'
  BY <1>5 DEF Verify, PublishInv, Complete, sinkVars
<1>6. ASSUME RenameFails PROVE PublishInv'
  BY <1>6 DEF RenameFails, PublishInv, Complete, sinkVars
<1>7. ASSUME TakeBack /\ ~Stop PROVE PublishInv'
  BY <1>7 DEF TakeBack, PublishInv, Complete, sinkVars
<1>8. ASSUME NEW artifact \in Artifact, Rename(artifact)
      PROVE  PublishInv'
  BY <1>8 DEF Rename, PublishInv, Complete, Follows, Artifact, sinkVars
<1>9. ASSUME Join PROVE PublishInv'
  BY <1>9 DEF Join, PublishInv
<1> QED
  BY <1>1, <1>2, <1>3, <1>4, <1>5, <1>6, <1>7, <1>8, <1>9 DEF PublishInv, Complete

-----------------------------------------------------------------------------
LEMMA InvInitial == Init => EventInv
<1> SUFFICES ASSUME Init PROVE EventInv
  OBVIOUS
<1>1. TypeOK
  BY DEF Init, TypeOK
<1>2. PoolInv /\ WindowInv /\ PublishInv /\ pc \notin {"join", "verify"}
  BY DEF Init, PoolInv, WindowInv, PublishInv, Taken, Ended
<1>3. SinkInv
  BY DEF Init, SinkInv, InOrder, Taken, Ended
<1> QED
  BY <1>1, <1>2, <1>3 DEF EventInv

(* A rerun begins as the first execution did, but for the destinations.    *)
LEMMA RerunKeeps ==
  ASSUME EventInv, Rerun
  PROVE  EventInv'
<1> USE DEF EventInv, Rerun
<1>1. TypeOK'
  BY TypeInductive DEF Next
<1>2. (PoolInv /\ WindowInv /\ PublishInv /\ pc \notin {"join", "verify"})'
  BY DEF PoolInv, WindowInv, PublishInv, Taken, Ended
<1>3. SinkInv'
  BY DEF SinkInv, InOrder, Taken, Ended
<1> QED
  BY <1>1, <1>2, <1>3

LEMMA InvInductive ==
  ASSUME EventInv, [Next]_vars
  PROVE  EventInv'
<1>1. CASE UNCHANGED vars
  <2>1. TypeOK'
    BY TypeInductive DEF EventInv
  <2> QED
    BY <1>1, <2>1 DEF EventInv, vars, poolVars, sinkVars, PoolInv, SinkInv, WindowInv, PublishInv,
       InOrder, Taken, Delivered, Complete
<1>2. CASE Stop /\ "result" \notin published
  BY <1>2, EndKeeps DEF Stop, EventInv
<1>3. CASE Kill
  BY <1>3, EndKeeps DEF Kill, EventInv, PublishInv, Ended
<1>4. ASSUME Stop, pc \in {"submit", "wait", "deliver", "append", "verify", "publish", "rollback"}
      PROVE  EventInv'
  BY <1>2, <1>4 DEF EventInv, PublishInv
<1>5. CASE CheckFails \/ OutOfTime
  BY <1>4, <1>5 DEF CheckFails, OutOfTime
<1>6. CASE Submit \/ Collect \/ AppendRow \/ Advance
  BY <1>6, SubmitKeeps, CollectKeeps, AppendKeeps, AdvanceKeeps
<1>7. CASE Deliver \/ Verify \/ TakeBack
  <2>1. CASE Stop
    BY <1>4, <1>7, <2>1 DEF Deliver, Verify, TakeBack
  <2>2. CASE ~Stop
    BY <1>7, <2>2, DeliverKeeps, PublishKeeps
  <2> QED
    BY <2>1, <2>2
<1>8. CASE Begin \/ Join \/ RenameFails
  BY <1>8, PublishKeeps
<1>9. ASSUME NEW artifact \in Artifact, Rename(artifact)
      PROVE  EventInv'
  BY <1>9, PublishKeeps
<1>10. CASE Rerun \/ PoolBreaks
  BY <1>10, WorkerKeeps, RerunKeeps
<1>11. ASSUME NEW i \in Index, WorkerReturns(i)
       PROVE  EventInv'
  BY <1>11, WorkerKeeps
<1> QED
  BY <1>1, <1>3, <1>5, <1>6, <1>7, <1>8, <1>9, <1>10, <1>11 DEF Next, Parent

(* In every behaviour: what the pool has collected, the record and its     *)
(* submission window fit together, also when a step fails or a run is      *)
(* killed.                                                                 *)
THEOREM EventCorrect == Spec => []EventInv
<1>1. EventInv /\ [Next]_vars => EventInv'
  BY InvInductive
<1> QED
  BY InvInitial, <1>1, PTL DEF Spec

(* The raw record holds the hanchan in the order of the schedule, none is  *)
(* lost or delivered twice, and only a whole record is published.          *)
THEOREM ResultIsWholeCorrect == Spec => []ResultIsWhole
<1>1. EventInv => ResultIsWhole
  <2> SUFFICES ASSUME EventInv PROVE ResultIsWhole
    OBVIOUS
  <2>1. InOrder /\ (pc \in {"publish", "published", "rollback"} => Complete)
        /\ ("result" \in published => published = Artifact)
    BY DEF EventInv, SinkInv, PublishInv
  <2>2. EachDeliveredOnce
    BY ReadyIsNew DEF EventInv, EachDeliveredOnce
  <2> QED
    BY <2>1, <2>2 DEF ResultIsWhole
<1> QED
  BY <1>1, EventCorrect, PTL

(* However slow one hanchan is, no more than MaxAhead results are held:    *)
(* they lie between the end of the record and the submission window.       *)
THEOREM ReorderBoundedCorrect == Spec => []ReorderBounded
<1>1. EventInv => ReorderBounded
  <2> SUFFICES ASSUME EventInv PROVE ReorderBounded
    OBVIOUS
  <2> DEFINE window == Len(rows) .. Len(rows) + MaxAhead - 1
  <2>1. Len(rows) \in Nat
    BY DEF EventInv, TypeOK
  <2>2. buffer \subseteq window
    BY <2>1 DEF EventInv, TypeOK, PoolInv, SinkInv, WindowInv, Taken
  <2>3. IsFiniteSet(window) /\ Cardinality(window) = MaxAhead
    BY <2>1, FS_Interval
  <2>4. Cardinality(buffer) <= Cardinality(window)
    BY <2>2, <2>3, FS_Subset
  <2> QED
    BY <2>3, <2>4 DEF ReorderBounded
<1> QED
  BY <1>1, EventCorrect, PTL

-----------------------------------------------------------------------------
(* The least of some hanchan.                                              *)
LEMMA LeastOf ==
  ASSUME NEW S, S \subseteq Nat, S # {}
  PROVE  \E i \in S : \A j \in S : i <= j
<1> DEFINE R == {p \in Nat \X Nat : p[1] < p[2]}
<1>1. IsWellFoundedOn(R, Nat)
  BY NatLessThanWellFounded, Zenon DEF OpToRel
<1> HIDE DEF R
<1>2. PICK i \in S : \A j \in S : <<j, i>> \notin R
  BY <1>1, WFMin
<1>3. \A j \in S : j < i => <<j, i>> \in R
  BY DEF R
<1>4. \A j \in S : ~(j < i)
  BY <1>2, <1>3, Zenon
<1>5. \A j \in S : i <= j
  BY <1>4
<1> QED
  BY <1>5

(* What the parent waits for stays there until it is collected.            *)
LEMMA WaitKeeps ==
  ASSUME TypeOK, pc = "wait" => Pending # {}, [Next]_vars, pc' = "wait"
  PROVE  Pending' # {}
<1> USE DEF TypeOK, Ended
<1>1. CASE Submit
  BY <1>1 DEF Submit, Pending
<1>2. CASE pc = "wait" /\ UNCHANGED future
  BY <1>2 DEF Pending
<1>3. ASSUME NEW i \in Index, WorkerReturns(i) PROVE Pending' # {}
  BY <1>3 DEF WorkerReturns, Pending
<1>4. CASE PoolBreaks
  BY <1>4 DEF PoolBreaks, Pending, Running
<1> QED
  BY <1>1, <1>2, <1>3, <1>4 DEF Next, Parent, vars, poolVars, Begin, CheckFails, OutOfTime, Stop,
     Collect, Deliver, AppendRow, Advance, Join, Verify, Rename, TakeBack, RenameFails, Kill,
     Rerun

(* No wait of the parent is for nothing, and none of its steps lacks the   *)
(* hanchan it is for: that is what the end of the event rests on.          *)
THEOREM NeverStuckCorrect == Spec => []NeverStuck
<1> DEFINE WaitInv == pc = "wait" => Pending # {}
<1>1. Init => WaitInv
  BY DEF Init
<1>2. EventInv /\ WaitInv /\ [Next]_vars => WaitInv'
  BY WaitKeeps DEF EventInv
<1>3. EventInv /\ WaitInv => NeverStuck
  <2> SUFFICES ASSUME EventInv, WaitInv PROVE NeverStuck
    OBVIOUS
  <2>1. ASSUME pc = "deliver" PROVE \E i \in ready : Delivered(i)
    <3>1. ready \subseteq Nat /\ ready # {}
      BY <2>1 DEF EventInv, TypeOK, PoolInv
    <3>2. PICK i \in ready : \A j \in ready : i <= j
      BY <3>1, LeastOf
    <3> QED
      BY <3>2 DEF Delivered
  <2>2. ASSUME pc = "append" PROVE \E i \in ready : Delivered(i)
    BY <2>2 DEF EventInv, WindowInv
  <2> QED
    BY <2>1, <2>2 DEF NeverStuck
<1> QED
  BY <1>1, <1>2, <1>3, EventCorrect, PTL DEF Spec

-----------------------------------------------------------------------------
(* The refinement: where the parent is, and what is at the destinations.   *)
LEMMA ContractInitial == Init => Contract!EventInit
BY DEF Init, Contract!EventInit

(* What a step does to them.                                               *)
Stutters == UNCHANGED <<pc, published>>
Begins == /\ pc = "begin" /\ pc' = IF published = {} THEN "submit" ELSE "refused"
          /\ UNCHANGED published
Works == /\ pc \notin Ended \cup {"begin"} /\ pc' \notin Ended \cup {"begin"}
         /\ published' # Artifact
Succeeds == pc = "publish" /\ pc' = "published" /\ published' = Artifact
Fails == pc \notin Ended \cup {"begin"} /\ pc' \in {"stopped", "killed"} /\ UNCHANGED published
Reruns == pc \in Ended /\ pc' = "begin" /\ UNCHANGED published

LEMMA StepKinds ==
  ASSUME EventInv, [Next]_vars
  PROVE  Stutters \/ Begins \/ Works \/ Succeeds \/ Fails \/ Reruns
<1> USE DEF EventInv, TypeOK, PublishInv, Stutters, Begins, Works, Succeeds, Fails, Reruns
<1>1. Stop /\ pc \notin Ended \cup {"begin"} => Fails
  BY DEF Stop
<1>2. CASE UNCHANGED vars \/ PoolBreaks \/ \E i \in Index : WorkerReturns(i)
  BY <1>2 DEF vars, PoolBreaks, WorkerReturns
<1>3. CASE Begin
  BY <1>3 DEF Begin
<1>4. CASE Submit \/ Collect \/ AppendRow \/ Advance
  <2>1. pc \notin Ended \cup {"begin"} /\ pc' \notin Ended \cup {"begin"} /\ published' = {}
    BY <1>4 DEF Submit, Collect, AppendRow, Advance, Ended
  <2> QED
    BY <2>1 DEF Artifact
<1>5. CASE Deliver \/ Join \/ Verify
  BY <1>1, <1>5 DEF Deliver, Join, Verify, Artifact, Ended
<1>6. CASE CheckFails \/ OutOfTime
  BY <1>1, <1>6 DEF CheckFails, OutOfTime, Ended
<1>7. CASE RenameFails \/ TakeBack
  BY <1>1, <1>7 DEF RenameFails, TakeBack, Artifact, Ended
<1>8. ASSUME NEW artifact \in Artifact, Rename(artifact)
      PROVE  Works \/ Succeeds
  BY <1>8 DEF Rename, Artifact, Ended
<1>9. CASE Kill
  BY <1>9 DEF Kill
<1>10. CASE Rerun
  BY <1>10 DEF Rerun
<1> QED
  BY <1>2, <1>3, <1>4, <1>5, <1>6, <1>7, <1>8, <1>9, <1>10 DEF Next, Parent

LEMMA ContractStep ==
  ASSUME EventInv, [Next]_vars
  PROVE  [Contract!Next]_(Contract!eventVars)
<1> USE DEF Contract!Next, Contract!eventVars, Contract!EventOver
<1>1. CASE Stutters
  BY <1>1 DEF Stutters
<1>2. CASE Begins
  BY <1>2 DEF Begins, Contract!Begin, Ended, Artifact
<1>3. CASE Works
  BY <1>3 DEF Works, Contract!Work, Ended
<1>4. CASE Succeeds
  BY <1>4 DEF Succeeds, Contract!Succeed, Ended, Artifact
<1>5. CASE Fails
  BY <1>5 DEF Fails, Contract!Fail, Ended
<1>6. CASE Reruns
  BY <1>6 DEF Reruns, Contract!Again, Ended
<1> QED
  BY <1>1, <1>2, <1>3, <1>4, <1>5, <1>6, StepKinds

(* Whoever runs the event may rely on its contract.                        *)
THEOREM KeepsContractCorrect == Spec => KeepsContract
<1>1. Init => Contract!EventInit
  BY ContractInitial
<1>2. EventInv /\ [Next]_vars => [Contract!Next]_(Contract!eventVars)
  BY ContractStep
<1> QED
  BY <1>1, <1>2, EventCorrect, PTL DEF Spec, KeepsContract, Contract!Spec

(* A whole publication is final: no rerun of the lock, no failed rename    *)
(* and no kill takes anything of it back or submits a hanchan again.       *)
THEOREM PublishedIsFinal ==
  Spec => [][published = Artifact
               => published' = Artifact /\ nextIndex' \in {nextIndex, 0}]_vars
<1> DEFINE Final == published = Artifact
                      => published' = Artifact /\ nextIndex' \in {nextIndex, 0}
<1>1. ASSUME EventInv, [Next]_vars, published = Artifact
      PROVE  published' = Artifact /\ nextIndex' \in {nextIndex, 0}
  <2>1. pc \in {"begin", "published", "refused"}
    BY <1>1 DEF EventInv, PublishInv, Artifact
  <2>2. Begin \/ Rerun \/ PoolBreaks \/ UNCHANGED vars \/ \E i \in Index : WorkerReturns(i)
    BY <1>1, <2>1 DEF Next, Parent, CheckFails, RenameFails, Kill, Submit, OutOfTime, Collect,
       Deliver, AppendRow, Advance, Join, Verify, Rename, TakeBack, Ended
  <2> QED
    BY <1>1, <2>2 DEF Begin, Rerun, PoolBreaks, WorkerReturns, vars, poolVars
<1>2. EventInv /\ [Next]_vars => [Final]_vars
  BY <1>1
<1> QED
  BY <1>2, EventCorrect, PTL DEF Spec
=============================================================================
