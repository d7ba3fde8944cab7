----------------------- MODULE PresentationFeedProofs -----------------------
(***************************************************************************)
(* Proofs about PresentationFeed, for any capacity, any number of games    *)
(* and any number of decisions in each.                                    *)
(***************************************************************************)
EXTENDS PresentationFeed, SequenceTheorems, TLAPS

USE BoundsAssumption

(* What the consumer has in hand is what it was told of, until it is told  *)
(* of a later game.                                                        *)
HandInv ==
  /\ held <= told /\ told <= opened
  /\ polling => held = told
  /\ ~polling => held # NoGame

(* A game that has not ended has no terminal fact, one that has ended has  *)
(* one while the feed is attached.                                         *)
Unended(g) == g > opened \/ (g = opened /\ runner = "playing")
Ended(g)   == g < opened \/ (g = opened /\ runner = "between")

TerminalInv ==
  \A g \in Games :
    /\ Unended(g) => ~Terminal(received[g]) /\ ~Terminal(buffers[g])
    /\ attached /\ Ended(g) => Terminal(received[g]) \/ Terminal(buffers[g])

(* A game that has not been opened has no decisions; no buffer is detached *)
(* before the feed is.                                                     *)
OpenInv ==
  /\ runner = "playing" => opened # NoGame
  /\ \A g \in Games : g > opened => decided[g] = 0
  /\ attached => \A g \in Games : buffers[g].attached

FeedInv == TypeOK /\ HandInv /\ TerminalInv /\ OneTerminal /\ OpenInv /\ DecisionsAccounted

-----------------------------------------------------------------------------
(* The sequence of decisions a consumer knows of a game.                   *)

Decision == 1..MaxDecisions

Sorted(s) == \A i, j \in 1..Len(s) : i < j => s[i] < s[j]

Accounted(s, lost, count) ==
  /\ Len(s) + lost = count
  /\ Sorted(s)
  /\ count > 0 => s # <<>> /\ s[Len(s)] = count

Seen(g) == received[g].decisions \o buffers[g].decisions
Lost(g) == received[g].coalesced + buffers[g].coalesced

GameAccounted(g) == Accounted(Seen(g), Lost(g), decided[g])
GamesAccounted == \A g \in Games : GameAccounted(g)

LEMMA AccountedDef ==
  TypeOK => (DecisionsAccounted <=> (attached => GamesAccounted))
<1> SUFFICES ASSUME TypeOK
    PROVE  DecisionsAccounted <=> (attached => GamesAccounted)
  OBVIOUS
<1>1. ASSUME NEW g \in Games
      PROVE  GameAccounted(g)
               <=> LET seen == received[g].decisions \o buffers[g].decisions
                   IN  /\ Len(seen) + received[g].coalesced + buffers[g].coalesced = decided[g]
                       /\ \A i, j \in 1..Len(seen) : i < j => seen[i] < seen[j]
                       /\ decided[g] > 0 => seen # <<>> /\ seen[Len(seen)] = decided[g]
  <2>1. /\ received[g].decisions \in Seq(1..MaxDecisions) /\ received[g].coalesced \in Nat
        /\ buffers[g].decisions \in Seq(1..MaxDecisions) /\ buffers[g].coalesced \in Nat
    BY <1>1 DEF TypeOK, Buffer, Received
  <2>2. Len(Seen(g)) \in Nat
    BY <2>1, ConcatProperties, LenProperties DEF Seen
  <2>3. Len(Seen(g)) + Lost(g) = Len(Seen(g)) + received[g].coalesced + buffers[g].coalesced
    <3> HIDE DEF Seen
    <3> QED
      BY <2>1, <2>2 DEF Lost
  <2> QED
    BY <2>3, Zenon DEF GameAccounted, Accounted, Sorted, Seen
<1> QED
  BY <1>1, Zenon DEF DecisionsAccounted, GamesAccounted

(* The newest decision is the largest.                                     *)
LEMMA NewestIsLargest ==
  ASSUME NEW s \in Seq(Nat), NEW lost \in Nat, NEW count \in Nat, Accounted(s, lost, count)
  PROVE  \A i \in 1..Len(s) : s[i] <= count
<1> SUFFICES ASSUME NEW i \in 1..Len(s) PROVE s[i] <= count
  OBVIOUS
<1>1. Len(s) \in Nat /\ s[i] \in Nat /\ s[Len(s)] \in Nat
  BY LenProperties, ElementOfSeq
<1>2. count > 0 /\ s[Len(s)] = count
  BY <1>1 DEF Accounted
<1> QED
  BY <1>1, <1>2 DEF Accounted, Sorted

(* A new decision at the end.                                              *)
LEMMA ExtendAccounted ==
  ASSUME NEW s \in Seq(Nat), NEW t \in Seq(Nat), NEW lost \in Nat, NEW count \in Nat,
         Accounted(s, lost, count), Len(t) = Len(s) + 1,
         \A i \in 1..Len(s) : t[i] = s[i], t[Len(t)] = count + 1
  PROVE  Accounted(t, lost, count + 1)
<1>1. Len(s) \in Nat /\ Len(t) \in Nat /\ t # <<>>
  BY LenProperties, EmptySeq
<1>2. \A i \in 1..Len(s) : s[i] \in Nat /\ s[i] <= count
  BY NewestIsLargest, ElementOfSeq
<1>3. Sorted(t)
  <2> SUFFICES ASSUME NEW i \in 1..Len(t), NEW j \in 1..Len(t), i < j PROVE t[i] < t[j]
    BY DEF Sorted
  <2>1. i \in 1..Len(s) /\ t[i] = s[i]
    BY <1>1
  <2>2. CASE j = Len(t)
    BY <2>1, <2>2, <1>2
  <2>3. CASE j \in 1..Len(s)
    BY <2>1, <2>3 DEF Accounted, Sorted
  <2> QED
    BY <2>2, <2>3, <1>1
<1> QED
  BY <1>1, <1>3 DEF Accounted

(* A new decision at the end for one that is given up in the middle.       *)
LEMMA ReplaceAccounted ==
  ASSUME NEW s \in Seq(Nat), NEW t \in Seq(Nat), NEW lost \in Nat, NEW count \in Nat,
         NEW n \in Nat, Accounted(s, lost, count), s # <<>>, Len(t) = Len(s),
         \A i \in 1..Len(s) - 1 : i <= n => t[i] = s[i],
         \A i \in 1..Len(s) - 1 : i > n => t[i] = s[i + 1],
         t[Len(t)] = count + 1
  PROVE  Accounted(t, lost + 1, count + 1)
<1>1. Len(s) \in Nat \ {0} /\ t # <<>>
  BY LenProperties, EmptySeq
<1>2. \A i \in 1..Len(s) : s[i] \in Nat /\ s[i] <= count
  BY NewestIsLargest, ElementOfSeq
<1>3. Sorted(t)
  <2> SUFFICES ASSUME NEW i \in 1..Len(t), NEW j \in 1..Len(t), i < j PROVE t[i] < t[j]
    BY DEF Sorted
  <2>1. i \in 1..Len(s) - 1 /\ i \in 1..Len(s) /\ i + 1 \in 1..Len(s)
    BY <1>1
  <2>2. \A k, l \in 1..Len(s) : k < l => s[k] < s[l]
    BY DEF Accounted, Sorted
  <2>3. CASE i <= n
    <3>1. t[i] = s[i]
      BY <2>1, <2>3
    <3>2. CASE j = Len(t)
      BY <2>1, <3>1, <3>2, <1>2
    <3>3. CASE j <= n /\ j \in 1..Len(s) - 1
      <4>1. t[j] = s[j]
        BY <3>3
      <4> QED
        BY <2>1, <2>2, <3>1, <3>3, <4>1, <1>1
    <3>4. CASE j > n /\ j \in 1..Len(s) - 1
      <4>1. t[j] = s[j + 1] /\ j + 1 \in 1..Len(s)
        BY <3>4, <1>1
      <4>2. i < j + 1
        BY <1>1
      <4> QED
        BY <2>1, <2>2, <3>1, <4>1, <4>2
    <3> QED
      BY <3>2, <3>3, <3>4, <1>1
  <2>4. CASE i > n
    <3>1. t[i] = s[i + 1]
      BY <2>1, <2>4
    <3>2. CASE j = Len(t)
      BY <2>1, <3>1, <3>2, <1>2
    <3>3. CASE j \in 1..Len(s) - 1
      <4>1. j > n
        BY <2>4, <1>1
      <4>2. t[j] = s[j + 1] /\ j + 1 \in 1..Len(s)
        BY <3>3, <4>1, <1>1
      <4>3. i + 1 < j + 1
        BY <1>1
      <4> QED
        BY <2>1, <2>2, <3>1, <4>2, <4>3
    <3> QED
      BY <3>2, <3>3, <1>1
  <2> QED
    BY <2>3, <2>4
<1> QED
  BY <1>1, <1>3 DEF Accounted

(* The parts of a concatenation, each by its own index.                    *)
LEMMA ConcatElements ==
  ASSUME NEW r \in Seq(Nat), NEW b \in Seq(Nat)
  PROVE  /\ Len(r) \in Nat /\ Len(b) \in Nat
         /\ r \o b \in Seq(Nat) /\ Len(r \o b) = Len(r) + Len(b)
         /\ \A i \in 1..Len(r) : (r \o b)[i] = r[i]
         /\ \A k \in 1..Len(b) : (r \o b)[Len(r) + k] = b[k]
<1>1. Len(r) \in Nat /\ Len(b) \in Nat
  BY LenProperties
<1>2. /\ r \o b \in Seq(Nat) /\ Len(r \o b) = Len(r) + Len(b)
      /\ \A i \in 1..Len(r) + Len(b) :
           (r \o b)[i] = IF i <= Len(r) THEN r[i] ELSE b[i - Len(r)]
  BY ConcatProperties
<1>3. ASSUME NEW i \in 1..Len(r) PROVE (r \o b)[i] = r[i]
  <2>1. i \in 1..Len(r) + Len(b) /\ i <= Len(r)
    BY <1>1
  <2> QED
    BY <1>2, <2>1
<1>4. ASSUME NEW k \in 1..Len(b) PROVE (r \o b)[Len(r) + k] = b[k]
  <2>1. /\ Len(r) + k \in 1..Len(r) + Len(b) /\ ~(Len(r) + k <= Len(r))
        /\ (Len(r) + k) - Len(r) = k
    BY <1>1
  <2> QED
    BY <1>2, <2>1
<1> QED
  BY <1>1, <1>2, <1>3, <1>4

(* A decision that joins a buffer with room for it.                        *)
LEMMA AppendAccounted ==
  ASSUME NEW r \in Seq(Nat), NEW b \in Seq(Nat), NEW lost \in Nat, NEW count \in Nat,
         Accounted(r \o b, lost, count)
  PROVE  Accounted(r \o Append(b, count + 1), lost, count + 1)
<1>1. PICK c : c = Append(b, count + 1)
  OBVIOUS
<1>2. /\ c \in Seq(Nat) /\ Len(c) = Len(b) + 1
      /\ \A i \in 1..Len(b) : c[i] = b[i]
      /\ c[Len(b) + 1] = count + 1
  BY <1>1, AppendProperties
<1>3. PICK s : s = r \o b
  OBVIOUS
<1>4. PICK t : t = r \o c
  OBVIOUS
<1>5. /\ Len(r) \in Nat /\ Len(b) \in Nat
      /\ s \in Seq(Nat) /\ Len(s) = Len(r) + Len(b)
      /\ \A i \in 1..Len(r) : s[i] = r[i]
      /\ \A k \in 1..Len(b) : s[Len(r) + k] = b[k]
  BY <1>3, ConcatElements
<1>6. /\ t \in Seq(Nat) /\ Len(t) = Len(r) + Len(c)
      /\ \A i \in 1..Len(r) : t[i] = r[i]
      /\ \A k \in 1..Len(c) : t[Len(r) + k] = c[k]
  BY <1>4, <1>2, ConcatElements
<1>7. Len(t) = Len(s) + 1
  BY <1>2, <1>5, <1>6
<1>8. t[Len(t)] = count + 1
  <2>1. Len(t) = Len(r) + (Len(b) + 1) /\ Len(b) + 1 \in 1..Len(c)
    BY <1>2, <1>5, <1>6
  <2> QED
    BY <1>2, <1>6, <2>1
<1>9. ASSUME NEW i \in 1..Len(s) PROVE t[i] = s[i]
  <2>1. CASE i <= Len(r)
    <3>1. i \in 1..Len(r)
      BY <2>1, <1>5
    <3> QED
      BY <3>1, <1>5, <1>6
  <2>2. CASE i > Len(r)
    <3>1. PICK k \in 1..Len(b) : i = Len(r) + k
      <4>1. i - Len(r) \in 1..Len(b) /\ i = Len(r) + (i - Len(r))
        BY <2>2, <1>5
      <4> QED
        BY <4>1
    <3>2. k \in 1..Len(c)
      BY <1>2, <1>5
    <3>3. c[k] = b[k]
      BY <1>2
    <3> QED
      BY <3>1, <3>2, <3>3, <1>5, <1>6
  <2> QED
    BY <2>1, <2>2, <1>5
<1>10. Accounted(t, lost, count + 1)
  BY <1>3, <1>5, <1>6, <1>7, <1>8, <1>9, ExtendAccounted
<1> QED
  BY <1>1, <1>4, <1>10

(* A full buffer that gives up its oldest decision for a new one.          *)
LEMMA CoalesceAccounted ==
  ASSUME NEW r \in Seq(Nat), NEW b \in Seq(Nat), b # <<>>,
         NEW lost \in Nat, NEW count \in Nat, Accounted(r \o b, lost, count)
  PROVE  Accounted(r \o Append(Tail(b), count + 1), lost + 1, count + 1)
<1>1. PICK c : c = Append(Tail(b), count + 1)
  OBVIOUS
<1>2. PICK u : u = Tail(b)
  OBVIOUS
<1>3. Len(b) \in Nat \ {0}
  BY EmptySeq
<1>4. /\ u \in Seq(Nat) /\ Len(u) = Len(b) - 1
      /\ \A i \in 1..Len(u) : u[i] = b[i + 1]
  BY <1>2, HeadTailProperties
<1>5. /\ c \in Seq(Nat) /\ Len(c) = Len(u) + 1
      /\ \A i \in 1..Len(u) : c[i] = u[i]
      /\ c[Len(u) + 1] = count + 1
  BY <1>1, <1>2, <1>4, AppendProperties
<1>6. /\ Len(c) = Len(b) /\ c[Len(b)] = count + 1 /\ Len(b) \in 1..Len(c)
  BY <1>3, <1>4, <1>5
<1>7. PICK s : s = r \o b
  OBVIOUS
<1>8. PICK t : t = r \o c
  OBVIOUS
<1>9. /\ Len(r) \in Nat
      /\ s \in Seq(Nat) /\ Len(s) = Len(r) + Len(b)
      /\ \A i \in 1..Len(r) : s[i] = r[i]
      /\ \A k \in 1..Len(b) : s[Len(r) + k] = b[k]
  BY <1>7, ConcatElements
<1>10. /\ t \in Seq(Nat) /\ Len(t) = Len(r) + Len(c)
       /\ \A i \in 1..Len(r) : t[i] = r[i]
       /\ \A k \in 1..Len(c) : t[Len(r) + k] = c[k]
  BY <1>8, <1>5, ConcatElements
<1>11. Len(t) = Len(s) /\ Len(s) \in Nat \ {0} /\ s # <<>>
  BY <1>3, <1>6, <1>9, <1>10, EmptySeq
<1>12. t[Len(t)] = count + 1
  BY <1>6, <1>9, <1>10
<1>13. ASSUME NEW i \in 1..Len(s) - 1, i <= Len(r) PROVE t[i] = s[i]
  <2>1. i \in 1..Len(r)
    BY <1>13, <1>9
  <2> QED
    BY <2>1, <1>9, <1>10
<1>14. ASSUME NEW i \in 1..Len(s) - 1, i > Len(r) PROVE t[i] = s[i + 1]
  <2>1. PICK k \in 1..Len(u) : i = Len(r) + k
    <3>1. i - Len(r) \in 1..Len(u) /\ i = Len(r) + (i - Len(r))
      BY <1>14, <1>9, <1>4, <1>3
    <3> QED
      BY <3>1
  <2>2. k \in 1..Len(c) /\ k + 1 \in 1..Len(b) /\ i + 1 = Len(r) + (k + 1)
    BY <1>3, <1>4, <1>6, <1>9, <2>1
  <2>3. t[i] = c[k] /\ s[i + 1] = b[k + 1]
    BY <1>9, <1>10, <2>1, <2>2
  <2>4. c[k] = u[k] /\ u[k] = b[k + 1]
    BY <1>4, <1>5
  <2> QED
    BY <2>3, <2>4
<1>15. Accounted(t, lost + 1, count + 1)
  BY <1>7, <1>9, <1>10, <1>11, <1>12, <1>13, <1>14, ReplaceAccounted
<1> QED
  BY <1>1, <1>8, <1>15

-----------------------------------------------------------------------------
(* What the operations on a buffer do to its fields.                       *)

LEMMA WithDecisionFields ==
  ASSUME NEW b \in Buffer, Len(b.decisions) <= Capacity, NEW d \in 1..MaxDecisions
  PROVE  LET c == WithDecision(b, d)
         IN  /\ c \in Buffer /\ Len(c.decisions) <= Capacity
             /\ c.completion = b.completion /\ c.failure = b.failure /\ c.attached = b.attached
             /\ \/ /\ b.decisions # <<>> /\ c.decisions = Append(Tail(b.decisions), d)
                   /\ c.coalesced = b.coalesced + 1
                \/ c.decisions = Append(b.decisions, d) /\ c.coalesced = b.coalesced
<1>1. b.decisions \in Seq(1..MaxDecisions) /\ Len(b.decisions) \in Nat /\ b.coalesced \in Nat
  BY LenProperties DEF Buffer
<1>2. CASE Len(b.decisions) = Capacity
  <2>1. b.decisions # <<>>
    BY <1>2, EmptySeq
  <2>2. Tail(b.decisions) \in Seq(1..MaxDecisions) /\ Len(Tail(b.decisions)) = Capacity - 1
    BY <1>1, <1>2, <2>1, HeadTailProperties
  <2>3. PICK s : s = Append(Tail(b.decisions), d)
    OBVIOUS
  <2>4. s \in Seq(1..MaxDecisions) /\ Len(s) = Capacity
    BY <2>2, <2>3, AppendProperties
  <2>5. WithDecision(b, d) = [b EXCEPT !.decisions = s, !.coalesced = b.coalesced + 1]
    BY <1>2, <2>3 DEF WithDecision, Buffer
  <2>6. b.coalesced + 1 \in Nat
    BY <1>1
  <2>7. PICK c : c = [b EXCEPT !.decisions = s, !.coalesced = b.coalesced + 1]
    OBVIOUS
  <2>8. c \in Buffer
    BY <2>4, <2>6, <2>7 DEF Buffer
  <2>9. c.decisions = s /\ c.coalesced = b.coalesced + 1
    BY <2>4, <2>6, <2>7 DEF Buffer
  <2>10. c.completion = b.completion /\ c.failure = b.failure /\ c.attached = b.attached
    BY <2>4, <2>6, <2>7 DEF Buffer
  <2> QED
    BY <2>1, <2>3, <2>4, <2>5, <2>7, <2>8, <2>9, <2>10
<1>3. CASE Len(b.decisions) # Capacity
  <2>1. PICK s : s = Append(b.decisions, d)
    OBVIOUS
  <2>2. s \in Seq(1..MaxDecisions) /\ Len(s) = Len(b.decisions) + 1
    BY <1>1, <2>1, AppendProperties
  <2>3. WithDecision(b, d) = [b EXCEPT !.decisions = s, !.coalesced = b.coalesced]
    BY <1>3, <2>1 DEF WithDecision, Buffer
  <2>7. PICK c : c = [b EXCEPT !.decisions = s, !.coalesced = b.coalesced]
    OBVIOUS
  <2>8. c \in Buffer
    BY <1>1, <2>2, <2>7 DEF Buffer
  <2>9. c.decisions = s /\ c.coalesced = b.coalesced
    BY <1>1, <2>2, <2>7 DEF Buffer
  <2>10. c.completion = b.completion /\ c.failure = b.failure /\ c.attached = b.attached
    BY <1>1, <2>2, <2>7 DEF Buffer
  <2> QED
    BY <1>1, <1>3, <2>1, <2>2, <2>3, <2>7, <2>8, <2>9, <2>10
<1> QED
  BY <1>2, <1>3

LEMMA DrainedFields ==
  ASSUME NEW b \in Buffer
  PROVE  LET c == Drained(b)
         IN  /\ c \in Buffer /\ c.decisions = <<>> /\ Len(c.decisions) <= Capacity
             /\ c.coalesced = 0 /\ ~c.completion /\ ~c.failure /\ c.attached = b.attached
<1>1. PICK s \in Seq(1..MaxDecisions) : s = <<>> /\ Len(s) = 0
  BY EmptySeq
<1>2. Drained(b) = [b EXCEPT !.decisions = s, !.completion = FALSE, !.failure = FALSE,
                              !.coalesced = 0]
  BY <1>1 DEF Drained
<1>3. PICK c : c = Drained(b)
  OBVIOUS
<1>4. c \in Buffer
  <2>1. c = [b EXCEPT !.decisions = s, !.completion = FALSE, !.failure = FALSE, !.coalesced = 0]
    BY <1>2, <1>3
  <2> QED
    BY <2>1, Zenon DEF Buffer
<1>5. c.decisions = s /\ c.coalesced = 0 /\ ~c.completion /\ ~c.failure
  BY <1>2, <1>3 DEF Buffer
<1>6. c.attached = b.attached
  BY <1>2, <1>3 DEF Buffer
<1> QED
  BY <1>1, <1>3, <1>4, <1>5, <1>6

LEMMA WithBatchFields ==
  ASSUME NEW r \in Received, NEW b \in Buffer, NEW c, c = WithBatch(r, b)
  PROVE  /\ c \in Received
         /\ c.decisions = r.decisions \o b.decisions
         /\ c.coalesced = r.coalesced + b.coalesced
         /\ c.completion <=> r.completion \/ b.completion
         /\ c.failure <=> r.failure \/ b.failure
<1>1. PICK s : s = r.decisions \o b.decisions
  OBVIOUS
<1>2. s \in Seq(1..MaxDecisions)
  BY <1>1, ConcatProperties DEF Received, Buffer
<1> QED
  BY <1>1, <1>2 DEF WithBatch, Received, Buffer

-----------------------------------------------------------------------------
(* The type invariant.                                                     *)

LEMMA TypeInductive == TypeOK /\ [Next]_vars => TypeOK'
<1> SUFFICES ASSUME TypeOK, [Next]_vars PROVE TypeOK'
  OBVIOUS
<1> USE DEF TypeOK, Games, NoGame
<1>1. CASE OpenGame
  <2>1. NewBuffer \in Buffer /\ Len(NewBuffer.decisions) <= Capacity
    BY EmptySeq DEF NewBuffer, Buffer
  <2> QED
    BY <1>1, <2>1 DEF OpenGame, consumerVars
<1>2. CASE PublishDecision
  <2> DEFINE b == buffers[opened]
             d == decided[opened] + 1
  <2>1. CASE opened \in Games
    <3>1. b \in Buffer /\ d \in 1..MaxDecisions
      BY <1>2, <2>1 DEF PublishDecision
    <3>3. WithDecision(b, d) \in Buffer /\ Len(WithDecision(b, d).decisions) <= Capacity
      BY <2>1, <3>1, WithDecisionFields
    <3>4. decided' = [decided EXCEPT ![opened] = d] /\ decided'[opened] = d
      BY <1>2, <2>1 DEF PublishDecision
    <3>5. buffers' = [buffers EXCEPT ![opened] = IF @.attached THEN WithDecision(b, d) ELSE @]
      BY <1>2, <3>4 DEF PublishDecision, PublishTo
    <3> HIDE DEF b, d
    <3> QED
      BY <1>2, <2>1, <3>1, <3>3, <3>4, <3>5 DEF PublishDecision, PublishTo, consumerVars
  <2>2. CASE opened \notin Games
    BY <1>2, <2>2 DEF PublishDecision, PublishTo, consumerVars
  <2> QED
    BY <2>1, <2>2
<1>3. CASE PublishCompletion
  BY <1>3 DEF PublishCompletion, PublishTo, consumerVars, Buffer
<1>4. CASE PublishFailure
  BY <1>4 DEF PublishFailure, PublishTo, consumerVars, Buffer
<1>5. CASE Cancelled \/ Stop
  BY <1>5 DEF Cancelled, Stop, feedVars, consumerVars
<1>6. CASE Current
  BY <1>6 DEF Current, feedVars, runnerVars
<1>7. CASE Drain
  <2>1. \A g \in Games : WithBatch(received[g], buffers[g]) \in Received
    BY WithBatchFields
  <2>2. \A g \in Games : Drained(buffers[g]) \in Buffer
                         /\ Len(Drained(buffers[g]).decisions) <= Capacity
    BY DrainedFields
  <2> QED
    BY <1>7, <2>1, <2>2 DEF Drain, runnerVars
<1>8. CASE Detach
  <2>1. ASSUME NEW g \in Games
        PROVE  LET b == [Drained(buffers[g]) EXCEPT !.attached = FALSE]
               IN  b \in Buffer /\ Len(b.decisions) <= Capacity
    <3>1. PICK c : c = Drained(buffers[g])
      OBVIOUS
    <3>2. c \in Buffer /\ Len(c.decisions) <= Capacity
      BY <3>1, DrainedFields
    <3> QED
      BY <3>1, <3>2 DEF Buffer
  <2> QED
    BY <1>8, <2>1 DEF Detach, DetachCurrent, runnerVars, consumerVars
<1>9. CASE UNCHANGED vars
  BY <1>9 DEF vars, feedVars, runnerVars, consumerVars
<1> QED
  BY <1>1, <1>2, <1>3, <1>4, <1>5, <1>6, <1>7, <1>8, <1>9 DEF Next, EventLoop, Consumer

(* The feed is correctly typed: no buffer holds more than Capacity         *)
(* decisions (LivePresentation's max_decisions).                           *)
THEOREM TypeCorrect == Spec => []TypeOK
<1>1. Init => TypeOK
  BY EmptySeq DEF Init, TypeOK, NewBuffer, NothingReceived, Buffer, Received, Games, NoGame
<1> QED
  BY <1>1, TypeInductive, PTL DEF Spec

-----------------------------------------------------------------------------
(* What the steps that touch a buffer do, game by game.                    *)

LEMMA PublishDecisionEffect ==
  ASSUME TypeOK, OpenInv, PublishDecision
  PROVE  /\ opened \in Games
         /\ decided[opened] + 1 \in 1..MaxDecisions
         /\ decided' = [decided EXCEPT ![opened] = decided[opened] + 1]
         /\ \A g \in Games : g # opened => buffers'[g] = buffers[g]
         /\ buffers[opened].attached
              => buffers'[opened] = WithDecision(buffers[opened], decided[opened] + 1)
         /\ ~buffers[opened].attached => buffers'[opened] = buffers[opened]
         /\ \A g \in Games : /\ buffers'[g].completion = buffers[g].completion
                             /\ buffers'[g].failure = buffers[g].failure
                             /\ buffers'[g].attached = buffers[g].attached
<1> DEFINE d == decided[opened] + 1
           b == buffers[opened]
<1>1. opened \in Games
  BY DEF TypeOK, OpenInv, PublishDecision, Games, NoGame
<1>2. d \in 1..MaxDecisions /\ decided' = [decided EXCEPT ![opened] = d] /\ decided'[opened] = d
  BY <1>1 DEF TypeOK, PublishDecision
<1>3. buffers' = [buffers EXCEPT ![opened] = IF @.attached THEN WithDecision(b, d) ELSE @]
  BY <1>2 DEF PublishDecision, PublishTo
<1>4. /\ \A g \in Games : g # opened => buffers'[g] = buffers[g]
      /\ b.attached => buffers'[opened] = WithDecision(b, d)
      /\ ~b.attached => buffers'[opened] = b
  BY <1>1, <1>3 DEF TypeOK
<1>5. b \in Buffer /\ Len(b.decisions) <= Capacity
  BY <1>1 DEF TypeOK
<1>6. LET c == WithDecision(b, d)
      IN  c.completion = b.completion /\ c.failure = b.failure /\ c.attached = b.attached
  BY <1>2, <1>5, WithDecisionFields
<1> HIDE DEF d
<1> QED
  BY <1>1, <1>2, <1>4, <1>6 DEF d

LEMMA PublishTerminalEffect ==
  ASSUME TypeOK, OpenInv, PublishCompletion \/ PublishFailure
  PROVE  /\ opened \in Games
         /\ \A g \in Games : g # opened => buffers'[g] = buffers[g]
         /\ \A g \in Games : /\ buffers'[g].decisions = buffers[g].decisions
                             /\ buffers'[g].coalesced = buffers[g].coalesced
                             /\ buffers'[g].attached = buffers[g].attached
         /\ PublishCompletion => /\ buffers'[opened].failure = buffers[opened].failure
                                 /\ buffers[opened].attached => buffers'[opened].completion
         /\ PublishFailure => /\ buffers'[opened].completion = buffers[opened].completion
                              /\ buffers[opened].attached => buffers'[opened].failure
<1>1. opened \in Games
  BY DEF TypeOK, OpenInv, PublishCompletion, PublishFailure, Games, NoGame
<1>2. buffers[opened] \in Buffer
  BY <1>1 DEF TypeOK
<1>3. ASSUME PublishCompletion, buffers[opened].attached
      PROVE  /\ \A g \in Games : g # opened => buffers'[g] = buffers[g]
             /\ buffers'[opened].decisions = buffers[opened].decisions
             /\ buffers'[opened].coalesced = buffers[opened].coalesced
             /\ buffers'[opened].attached = buffers[opened].attached
             /\ buffers'[opened].failure = buffers[opened].failure
             /\ buffers'[opened].completion
  <2>1. PICK c : c = [buffers[opened] EXCEPT !.completion = TRUE]
    OBVIOUS
  <2>2. buffers' = [buffers EXCEPT ![opened] = c]
    BY <1>3, <2>1 DEF PublishCompletion, PublishTo
  <2>3. /\ c.decisions = buffers[opened].decisions /\ c.coalesced = buffers[opened].coalesced
        /\ c.attached = buffers[opened].attached
        /\ c.failure = buffers[opened].failure /\ c.completion
    BY <1>2, <2>1 DEF Buffer
  <2> QED
    BY <1>1, <2>2, <2>3 DEF TypeOK
<1>4. ASSUME PublishFailure, buffers[opened].attached
      PROVE  /\ \A g \in Games : g # opened => buffers'[g] = buffers[g]
             /\ buffers'[opened].decisions = buffers[opened].decisions
             /\ buffers'[opened].coalesced = buffers[opened].coalesced
             /\ buffers'[opened].attached = buffers[opened].attached
             /\ buffers'[opened].completion = buffers[opened].completion
             /\ buffers'[opened].failure
  <2>1. PICK c : c = [buffers[opened] EXCEPT !.failure = TRUE]
    OBVIOUS
  <2>2. buffers' = [buffers EXCEPT ![opened] = c]
    BY <1>4, <2>1 DEF PublishFailure, PublishTo
  <2>3. /\ c.decisions = buffers[opened].decisions /\ c.coalesced = buffers[opened].coalesced
        /\ c.attached = buffers[opened].attached
        /\ c.completion = buffers[opened].completion /\ c.failure
    BY <1>2, <2>1 DEF Buffer
  <2> QED
    BY <1>1, <2>2, <2>3 DEF TypeOK
<1>5. ASSUME ~buffers[opened].attached PROVE buffers' = buffers
  BY <1>1, <1>5 DEF TypeOK, PublishCompletion, PublishFailure, PublishTo
<1> QED
  BY <1>1, <1>3, <1>4, <1>5

LEMMA DrainEffect ==
  ASSUME TypeOK, HandInv, Drain
  PROVE  /\ held \in Games
         /\ \A g \in Games : g # held => buffers'[g] = buffers[g] /\ received'[g] = received[g]
         /\ buffers'[held] = Drained(buffers[held])
         /\ received'[held] = WithBatch(received[held], buffers[held])
  BY DEF TypeOK, HandInv, Drain, Games, NoGame

LEMMA DetachEffect ==
  ASSUME TypeOK, Detach
  PROVE  /\ ~attached'
         /\ \A g \in Games : \/ buffers'[g] = buffers[g]
                             \/ ~buffers'[g].completion /\ ~buffers'[g].failure
<1>1. CASE opened = NoGame
  BY <1>1 DEF Detach, DetachCurrent
<1>2. CASE opened # NoGame
  <2>1. opened \in Games /\ buffers[opened] \in Buffer
    BY <1>2 DEF TypeOK, Games, NoGame
  <2>2. PICK c : c = Drained(buffers[opened])
    OBVIOUS
  <2>3. c \in Buffer /\ ~c.completion /\ ~c.failure
    BY <2>1, <2>2, DrainedFields
  <2>4. buffers' = [buffers EXCEPT ![opened] = [c EXCEPT !.attached = FALSE]] /\ ~attached'
    BY <1>2, <2>1, <2>2 DEF Detach, DetachCurrent
  <2>5. PICK e : e = [c EXCEPT !.attached = FALSE]
    OBVIOUS
  <2>6. ~e.completion /\ ~e.failure
    BY <2>3, <2>5 DEF Buffer
  <2> QED
    BY <2>1, <2>4, <2>5, <2>6 DEF TypeOK
<1> QED
  BY <1>1, <1>2

-----------------------------------------------------------------------------
(* The invariant holds of the first state and of every step, part by part. *)

LEMMA InitFeedInv == Init => FeedInv
<1> SUFFICES ASSUME Init PROVE FeedInv
  OBVIOUS
<1>1. TypeOK
  BY EmptySeq DEF Init, TypeOK, NewBuffer, NothingReceived, Buffer, Received, Games, NoGame
<1>2. HandInv /\ TerminalInv /\ OneTerminal /\ OpenInv
  BY DEF Init, HandInv, TerminalInv, OneTerminal, OpenInv, Terminal, NewBuffer, NothingReceived,
         NoGame, Ended, Games
<1>3. ASSUME NEW g \in Games PROVE GameAccounted(g)
  <2>1. Seen(g) = <<>> /\ Lost(g) = 0 /\ decided[g] = 0
    BY <1>3, ConcatEmptySeq, EmptySeq DEF Init, Seen, Lost, NewBuffer, NothingReceived
  <2>2. Len(<<>>) = 0
    BY EmptySeq
  <2> QED
    BY <2>1, <2>2 DEF GameAccounted, Accounted, Sorted
<1> QED
  BY <1>1, <1>2, <1>3, AccountedDef DEF FeedInv, GamesAccounted

LEMMA HandInductive == TypeOK /\ HandInv /\ [Next]_vars => HandInv'
<1> SUFFICES ASSUME TypeOK, HandInv, [Next]_vars PROVE HandInv'
  OBVIOUS
<1> USE DEF HandInv
<1>1. CASE OpenGame
  BY <1>1 DEF OpenGame, consumerVars, TypeOK
<1>2. CASE PublishDecision \/ PublishCompletion \/ PublishFailure
  BY <1>2 DEF PublishDecision, PublishCompletion, PublishFailure, PublishTo, consumerVars
<1>3. CASE Cancelled \/ Stop \/ Detach
  BY <1>3 DEF Cancelled, Stop, Detach, DetachCurrent, feedVars, consumerVars
<1>4. CASE Current
  BY <1>4 DEF Current, feedVars, NoGame, TypeOK
<1>5. CASE Drain
  BY <1>5 DEF Drain, TypeOK
<1>6. CASE UNCHANGED vars
  BY <1>6 DEF vars, feedVars, consumerVars
<1> QED
  BY <1>1, <1>2, <1>3, <1>4, <1>5, <1>6 DEF Next, EventLoop, Consumer

LEMMA OpenInductive == TypeOK /\ HandInv /\ OpenInv /\ [Next]_vars => OpenInv'
<1> SUFFICES ASSUME TypeOK, HandInv, OpenInv, [Next]_vars PROVE OpenInv'
  OBVIOUS
<1>1. CASE OpenGame
  <2>1. opened + 1 \in Games
    BY <1>1 DEF OpenGame, TypeOK, Games
  <2> QED
    BY <1>1, <2>1 DEF OpenGame, consumerVars, TypeOK, OpenInv, NewBuffer, Games, NoGame
<1>2. CASE PublishDecision
  BY <1>2, PublishDecisionEffect DEF PublishDecision, PublishTo, OpenInv, TypeOK, Games
<1>3. CASE PublishCompletion \/ PublishFailure
  BY <1>3, PublishTerminalEffect DEF PublishCompletion, PublishFailure, PublishTo, OpenInv
<1>4. CASE Cancelled \/ Stop
  BY <1>4 DEF Cancelled, Stop, feedVars, OpenInv
<1>5. CASE Current
  BY <1>5 DEF Current, feedVars, runnerVars, OpenInv
<1>6. CASE Drain
  <2>1. buffers'[held].attached = buffers[held].attached
    BY <1>6, DrainEffect, DrainedFields DEF TypeOK
  <2>2. \A g \in Games : buffers'[g].attached = buffers[g].attached
    BY <1>6, <2>1, DrainEffect
  <2> QED
    BY <1>6, <2>2 DEF Drain, runnerVars, OpenInv
<1>7. CASE Detach
  BY <1>7 DEF Detach, DetachCurrent, runnerVars, OpenInv
<1>8. CASE UNCHANGED vars
  BY <1>8 DEF vars, feedVars, runnerVars, OpenInv
<1> QED
  BY <1>1, <1>2, <1>3, <1>4, <1>5, <1>6, <1>7, <1>8 DEF Next, EventLoop, Consumer

(* Both parts about terminal facts, which need each other: a game that has *)
(* not ended has no terminal fact, so the one its end publishes is alone.  *)
LEMMA TerminalInductive ==
  TypeOK /\ HandInv /\ OpenInv /\ TerminalInv /\ OneTerminal /\ [Next]_vars
    => TerminalInv' /\ OneTerminal'
<1> SUFFICES ASSUME TypeOK, HandInv, OpenInv, TerminalInv, OneTerminal, [Next]_vars
             PROVE  TerminalInv' /\ OneTerminal'
  OBVIOUS
<1> USE DEF Terminal
<1>1. CASE OpenGame
  <2>1. /\ opened \in Nat /\ opened + 1 \in Games
        /\ buffers' = [buffers EXCEPT ![opened + 1] = NewBuffer]
        /\ ~NewBuffer.completion /\ ~NewBuffer.failure
        /\ received' = received /\ attached' = attached
        /\ opened' = opened + 1 /\ runner' = "playing" /\ runner = "between"
    BY <1>1 DEF OpenGame, MayOpen, consumerVars, NewBuffer, TypeOK, Games
  <2>2. \A g \in Games : buffers'[g] = IF g = opened + 1 THEN NewBuffer ELSE buffers[g]
    BY <2>1 DEF TypeOK
  <2>3. ASSUME NEW g \in Games
        PROVE  /\ Unended(g)' => Unended(g)
               /\ Ended(g)' => Ended(g) /\ g # opened + 1
    BY <2>1 DEF Unended, Ended, Games
  <2> QED
    BY <2>1, <2>2, <2>3 DEF TerminalInv, OneTerminal
<1>2. CASE PublishDecision
  <2>1. \A g \in Games : buffers'[g].completion = buffers[g].completion
                         /\ buffers'[g].failure = buffers[g].failure
    BY <1>2, PublishDecisionEffect
  <2>2. UNCHANGED <<opened, runner, received, attached>>
    BY <1>2 DEF PublishDecision, PublishTo, consumerVars
  <2> QED
    BY <2>1, <2>2 DEF TerminalInv, OneTerminal, Unended, Ended
<1>3. CASE PublishCompletion \/ PublishFailure
  <2>1. /\ runner = "playing" /\ runner' \in {"between", "over"}
        /\ UNCHANGED <<opened, received, attached>>
    BY <1>3 DEF PublishCompletion, PublishFailure, PublishTo, consumerVars
  <2>2. opened \in Games /\ \A g \in Games : g # opened => buffers'[g] = buffers[g]
    BY <1>3, PublishTerminalEffect
  <2>3. /\ ~received[opened].completion /\ ~received[opened].failure
        /\ ~buffers[opened].completion /\ ~buffers[opened].failure
    BY <2>1, <2>2 DEF TerminalInv, Unended
  <2>4. /\ ~buffers'[opened].completion \/ ~buffers'[opened].failure
        /\ attached => buffers'[opened].completion \/ buffers'[opened].failure
    BY <1>3, <2>2, <2>3, PublishTerminalEffect DEF OpenInv
  <2>5. ASSUME NEW g \in Games
        PROVE  /\ Unended(g)' => Unended(g) /\ g # opened
               /\ Ended(g)' => g = opened \/ Ended(g)
    BY <2>1, <2>2 DEF Unended, Ended, TypeOK, Games
  <2> QED
    BY <2>1, <2>2, <2>3, <2>4, <2>5 DEF TerminalInv, OneTerminal
<1>4. CASE Cancelled \/ Stop
  <2>1. runner' = "over" /\ UNCHANGED <<opened, buffers, received, attached>>
    BY <1>4 DEF Cancelled, Stop, feedVars, consumerVars
  <2> QED
    BY <2>1 DEF TerminalInv, OneTerminal, Unended, Ended
<1>5. CASE Current
  BY <1>5 DEF Current, feedVars, runnerVars, TerminalInv, OneTerminal, Unended, Ended
<1>6. CASE Drain
  <2>1. held \in Games /\ received[held] \in Received /\ buffers[held] \in Buffer
    BY <1>6, DrainEffect DEF TypeOK
  <2>2. /\ ~buffers'[held].completion /\ ~buffers'[held].failure
        /\ received'[held].completion <=> received[held].completion \/ buffers[held].completion
        /\ received'[held].failure <=> received[held].failure \/ buffers[held].failure
    <3>1. buffers'[held] = Drained(buffers[held])
          /\ received'[held] = WithBatch(received[held], buffers[held])
      BY <1>6, DrainEffect
    <3>2. ~buffers'[held].completion /\ ~buffers'[held].failure
      BY <2>1, <3>1, DrainedFields
    <3>3. /\ received'[held].completion <=> received[held].completion \/ buffers[held].completion
          /\ received'[held].failure <=> received[held].failure \/ buffers[held].failure
      BY <2>1, <3>1, WithBatchFields
    <3> QED
      BY <3>2, <3>3
  <2>3. \A g \in Games : g # held => buffers'[g] = buffers[g] /\ received'[g] = received[g]
    BY <1>6, DrainEffect
  <2>4. UNCHANGED <<opened, runner, attached>>
    BY <1>6 DEF Drain, runnerVars
  <2> QED
    BY <2>1, <2>2, <2>3, <2>4 DEF TerminalInv, OneTerminal, Unended, Ended
<1>7. CASE Detach
  <2>1. UNCHANGED <<opened, runner, received>>
    BY <1>7 DEF Detach, runnerVars, consumerVars
  <2> QED
    BY <1>7, <2>1, DetachEffect DEF TerminalInv, OneTerminal, Unended, Ended
<1>8. CASE UNCHANGED vars
  BY <1>8 DEF vars, feedVars, runnerVars, consumerVars, TerminalInv, OneTerminal, Unended, Ended
<1> QED
  BY <1>1, <1>2, <1>3, <1>4, <1>5, <1>6, <1>7, <1>8 DEF Next, EventLoop, Consumer

LEMMA GameAccountedNext ==
  ASSUME NEW g, NEW s, NEW lost, NEW count, Accounted(s, lost, count),
         Seen(g)' = s, Lost(g)' = lost, decided'[g] = count
  PROVE  GameAccounted(g)'
BY DEF GameAccounted, Accounted, Sorted

LEMMA AccountedInductive ==
  TypeOK /\ HandInv /\ OpenInv /\ DecisionsAccounted /\ [Next]_vars => DecisionsAccounted'
<1> SUFFICES ASSUME TypeOK, HandInv, OpenInv, DecisionsAccounted, [Next]_vars, attached'
             PROVE  GamesAccounted'
  <2>1. TypeOK /\ [Next]_vars => TypeOK'
    BY TypeInductive
  <2>2. TypeOK' => (DecisionsAccounted' <=>
                     (attached' => GamesAccounted'))
    BY AccountedDef, PTL
  <2> QED
    BY <2>1, <2>2
<1>1. ASSUME NEW g \in Games
      PROVE  /\ received[g].decisions \in Seq(Nat) /\ received[g].coalesced \in Nat
             /\ buffers[g].decisions \in Seq(Nat) /\ buffers[g].coalesced \in Nat
             /\ decided[g] \in Nat
  <2>1. /\ received[g].decisions \in Seq(1..MaxDecisions)
        /\ buffers[g].decisions \in Seq(1..MaxDecisions) /\ 1..MaxDecisions \subseteq Nat
    BY <1>1 DEF TypeOK, Buffer, Received
  <2> QED
    BY <1>1, <2>1, SeqMonotonic DEF TypeOK, Buffer, Received
<1>2. ASSUME attached PROVE \A g \in Games : Accounted(Seen(g), Lost(g), decided[g])
  BY <1>2, AccountedDef DEF GamesAccounted, GameAccounted
<1>3. ASSUME NEW g \in Games, attached, decided'[g] = decided[g],
             received'[g].decisions = received[g].decisions,
             received'[g].coalesced = received[g].coalesced,
             buffers'[g].decisions = buffers[g].decisions,
             buffers'[g].coalesced = buffers[g].coalesced
      PROVE  GameAccounted(g)'
  <2>1. Seen(g)' = Seen(g)
    BY <1>3 DEF Seen
  <2>2. Lost(g)' = Lost(g)
    BY <1>3 DEF Lost
  <2> QED
    BY <1>2, <1>3, <2>1, <2>2, GameAccountedNext
<1>4. ASSUME UNCHANGED <<attached, buffers, received, decided>> PROVE GamesAccounted'
  BY <1>3, <1>4 DEF GamesAccounted
<1>5. CASE OpenGame
  <2>1. opened \in Nat /\ opened + 1 \in Games
    BY <1>5 DEF OpenGame, TypeOK, Games
  <2>2. /\ buffers' = [buffers EXCEPT ![opened + 1] = NewBuffer]
        /\ UNCHANGED <<received, decided, attached>>
    BY <1>5 DEF OpenGame, consumerVars
  <2>3. NewBuffer.decisions = <<>> /\ NewBuffer.coalesced = 0
    BY DEF NewBuffer
  <2>4. ASSUME NEW g \in Games, g # opened + 1 PROVE GameAccounted(g)'
    <3>1. buffers'[g] = buffers[g]
      BY <2>1, <2>2, <2>4 DEF TypeOK
    <3> QED
      BY <1>3, <2>2, <3>1
  <2>5. ASSUME NEW g \in Games, g = opened + 1 PROVE GameAccounted(g)'
    <3>1. decided[g] = 0
      BY <2>1, <2>5 DEF OpenInv
    <3>2. Len(Seen(g)) + Lost(g) = 0
      BY <1>2, <2>2, <3>1 DEF Accounted
    <3>3. Len(Seen(g)) = Len(received[g].decisions) + Len(buffers[g].decisions)
      BY <1>1, ConcatElements DEF Seen
    <3>4. Len(received[g].decisions) = 0 /\ received[g].coalesced = 0
      <4> DEFINE m == Len(received[g].decisions)
                 n == Len(buffers[g].decisions)
      <4>1. m \in Nat /\ n \in Nat
        BY <1>1, ConcatElements
      <4> HIDE DEF m, n
      <4>2. m + n + (received[g].coalesced + buffers[g].coalesced) = 0
        BY <3>2, <3>3 DEF Lost, m, n
      <4>3. m = 0 /\ received[g].coalesced = 0
        BY <1>1, <4>1, <4>2
      <4> QED
        BY <4>3 DEF m
    <3>5. buffers'[g] = NewBuffer
      BY <2>1, <2>2, <2>5 DEF TypeOK
    <3>6. Seen(g)' = received[g].decisions
      <4>1. Seen(g)' = received[g].decisions \o <<>>
        BY <2>2, <2>3, <3>5 DEF Seen
      <4> QED
        BY <1>1, <4>1, ConcatEmptySeq
    <3>7. Lost(g)' = 0
      BY <2>2, <2>3, <3>4, <3>5 DEF Lost
    <3>8. Accounted(received[g].decisions, 0, 0)
      BY <3>4 DEF Accounted, Sorted
    <3> QED
      BY <2>2, <3>1, <3>6, <3>7, <3>8, GameAccountedNext
  <2> QED
    BY <2>4, <2>5 DEF GamesAccounted
<1>6. CASE PublishDecision
  <2>1. attached /\ UNCHANGED received
    BY <1>6 DEF PublishDecision, PublishTo, consumerVars
  <2>2. PICK o \in Games : o = opened
    BY <1>6, PublishDecisionEffect
  <2> DEFINE d == decided[o]
             r == received[o].decisions
             b == buffers[o].decisions
  <2>3. /\ d + 1 \in 1..MaxDecisions /\ decided'[o] = d + 1
        /\ \A g \in Games : g # o => buffers'[g] = buffers[g] /\ decided'[g] = decided[g]
    BY <1>6, <2>2, PublishDecisionEffect DEF TypeOK
  <2>4. buffers'[o] = WithDecision(buffers[o], d + 1)
    BY <1>6, <2>1, <2>2, PublishDecisionEffect DEF OpenInv
  <2>5. ASSUME NEW g \in Games, g # o PROVE GameAccounted(g)'
    BY <1>3, <2>1, <2>3, <2>5
  <2>6. /\ r \in Seq(Nat) /\ b \in Seq(Nat) /\ Lost(o) \in Nat /\ d \in Nat
        /\ Accounted(r \o b, Lost(o), d)
    BY <1>1, <1>2, <2>1 DEF Lost, Seen
  <2>7. \/ /\ b # <<>> /\ buffers'[o].decisions = Append(Tail(b), d + 1)
           /\ buffers'[o].coalesced = buffers[o].coalesced + 1
        \/ /\ buffers'[o].decisions = Append(b, d + 1)
           /\ buffers'[o].coalesced = buffers[o].coalesced
    BY <2>3, <2>4, WithDecisionFields DEF TypeOK
  <2>8. ASSUME b # <<>>, buffers'[o].decisions = Append(Tail(b), d + 1),
               buffers'[o].coalesced = buffers[o].coalesced + 1
        PROVE  GameAccounted(o)'
    <3>1. Lost(o)' = Lost(o) + 1
      BY <1>1, <2>1, <2>8 DEF Lost
    <3>2. Seen(o)' = r \o Append(Tail(b), d + 1)
      BY <2>1, <2>8 DEF Seen
    <3>3. PICK s, l, n : s = r \o Append(Tail(b), d + 1) /\ l = Lost(o) + 1 /\ n = d + 1
      OBVIOUS
    <3>4. Accounted(s, l, n)
      BY <2>6, <2>8, <3>3, CoalesceAccounted
    <3>5. Seen(o)' = s /\ Lost(o)' = l /\ decided'[o] = n
      BY <2>3, <3>1, <3>2, <3>3
    <3> QED
      BY <3>4, <3>5, GameAccountedNext
  <2>9. ASSUME buffers'[o].decisions = Append(b, d + 1),
               buffers'[o].coalesced = buffers[o].coalesced
        PROVE  GameAccounted(o)'
    <3>1. Lost(o)' = Lost(o)
      BY <2>1, <2>9 DEF Lost
    <3>2. Seen(o)' = r \o Append(b, d + 1)
      BY <2>1, <2>9 DEF Seen
    <3>3. PICK s, l, n : s = r \o Append(b, d + 1) /\ l = Lost(o) /\ n = d + 1
      OBVIOUS
    <3>4. Accounted(s, l, n)
      BY <2>6, <3>3, AppendAccounted
    <3>5. Seen(o)' = s /\ Lost(o)' = l /\ decided'[o] = n
      BY <2>3, <3>1, <3>2, <3>3
    <3> QED
      BY <3>4, <3>5, GameAccountedNext
  <2> QED
    BY <2>5, <2>7, <2>8, <2>9 DEF GamesAccounted
<1>7. CASE PublishCompletion \/ PublishFailure
  <2>1. attached /\ UNCHANGED <<received, decided>>
    BY <1>7 DEF PublishCompletion, PublishFailure, PublishTo, consumerVars
  <2>2. \A g \in Games : buffers'[g].decisions = buffers[g].decisions
                         /\ buffers'[g].coalesced = buffers[g].coalesced
    BY <1>7, PublishTerminalEffect
  <2> QED
    BY <1>3, <2>1, <2>2 DEF GamesAccounted
<1>8. CASE Cancelled \/ Stop
  BY <1>8, <1>4 DEF Cancelled, Stop, feedVars, consumerVars
<1>9. CASE Current
  BY <1>9, <1>4 DEF Current, feedVars, runnerVars
<1>10. CASE Drain
  <2>1. attached /\ UNCHANGED decided
    BY <1>10 DEF Drain, runnerVars
  <2>2. PICK h \in Games : h = held
    BY <1>10, DrainEffect
  <2>3. /\ received[h] \in Received /\ buffers[h] \in Buffer
        /\ \A g \in Games : g # h => buffers'[g] = buffers[g] /\ received'[g] = received[g]
        /\ buffers'[h] = Drained(buffers[h])
        /\ received'[h] = WithBatch(received[h], buffers[h])
    BY <1>10, <2>2, DrainEffect DEF TypeOK
  <2>4. ASSUME NEW g \in Games, g # h PROVE GameAccounted(g)'
    BY <1>3, <2>1, <2>3, <2>4
  <2>5. GameAccounted(h)'
    <3>1. buffers'[h].decisions = <<>> /\ buffers'[h].coalesced = 0
      BY <2>3, DrainedFields
    <3>2. /\ received'[h].decisions = received[h].decisions \o buffers[h].decisions
          /\ received'[h].coalesced = received[h].coalesced + buffers[h].coalesced
      <4>1. PICK c : c = WithBatch(received[h], buffers[h])
        OBVIOUS
      <4>2. /\ c.decisions = received[h].decisions \o buffers[h].decisions
            /\ c.coalesced = received[h].coalesced + buffers[h].coalesced
        BY <4>1 DEF WithBatch
      <4> QED
        BY <2>3, <4>1, <4>2
    <3>3. Seen(h)' = Seen(h)
      <4>1. Seen(h)' = Seen(h) \o <<>>
        BY <3>1, <3>2 DEF Seen
      <4>2. Seen(h) \in Seq(Nat)
        BY <1>1, ConcatElements DEF Seen
      <4> QED
        BY <4>1, <4>2, ConcatEmptySeq
    <3>4. Lost(h)' = Lost(h)
      BY <1>1, <3>1, <3>2 DEF Lost
    <3> QED
      BY <1>2, <2>1, <3>3, <3>4, GameAccountedNext
  <2> QED
    BY <2>4, <2>5 DEF GamesAccounted
<1>11. CASE Detach
  BY <1>11 DEF Detach, DetachCurrent
<1>12. CASE UNCHANGED vars
  BY <1>12, <1>4 DEF vars, feedVars, runnerVars, consumerVars
<1> QED
  BY <1>5, <1>6, <1>7, <1>8, <1>9, <1>10, <1>11, <1>12 DEF Next, EventLoop, Consumer

(* FeedInv is inductive, hence an invariant.                               *)
THEOREM FeedCorrect == Spec => []FeedInv
<1>1. FeedInv /\ [Next]_vars => FeedInv'
  BY TypeInductive, HandInductive, OpenInductive, TerminalInductive, AccountedInductive DEF FeedInv
<1> QED
  BY <1>1, InitFeedInv, PTL DEF Spec

-----------------------------------------------------------------------------
(* No game is shown both as completed and as failed: run_ranked_game       *)
(* publishes one terminal fact, and draining it moves it, never copies it. *)
THEOREM OneTerminalCorrect == Spec => []OneTerminal
<1>1. FeedInv => OneTerminal
  BY DEF FeedInv
<1> QED
  BY <1>1, FeedCorrect, PTL

(* While the feed is attached, every published decision was received,      *)
(* waits in its buffer or is counted in coalesced_decisions, in the order  *)
(* of publication, the newest among those that were kept, however the      *)
(* drains interleave with publish_decision.                                *)
THEOREM DecisionsAccountedCorrect == Spec => []DecisionsAccounted
<1>1. FeedInv => DecisionsAccounted
  BY DEF FeedInv
<1> QED
  BY <1>1, FeedCorrect, PTL

(* A consumer that drains before it turns to the game current() told it of *)
(* has received how a game ended when it lets go of it.                    *)
THEOREM NoTerminalMissedCorrect == Spec => NoTerminalMissed
<1>1. ASSUME FeedInv, [Next]_vars, held' # held, held # NoGame, attached
      PROVE  Terminal(received'[held])
  <2>1. CASE Current
    BY <1>1, <2>1 DEF Current
  <2>2. CASE Drain
    <3>1. held \in Games /\ received[held] \in Received /\ buffers[held] \in Buffer
      BY <1>1, <2>2, DrainEffect DEF FeedInv, TypeOK
    <3>2. Ended(held)
      BY <1>1, <2>2 DEF Drain, FeedInv, HandInv, TypeOK, Ended
    <3>3. Terminal(received[held]) \/ Terminal(buffers[held])
      BY <1>1, <3>1, <3>2 DEF FeedInv, TerminalInv
    <3>4. received'[held] = WithBatch(received[held], buffers[held])
      BY <1>1, <2>2, DrainEffect DEF FeedInv
    <3>5. /\ received'[held].completion <=> received[held].completion \/ buffers[held].completion
          /\ received'[held].failure <=> received[held].failure \/ buffers[held].failure
      BY <3>1, <3>4, WithBatchFields
    <3> QED
      BY <3>3, <3>5 DEF Terminal
  <2>3. CASE EventLoop \/ Detach \/ UNCHANGED vars
    BY <1>1, <2>3 DEF EventLoop, OpenGame, PublishDecision, PublishCompletion, PublishFailure,
         PublishTo, Cancelled, Stop, Detach, vars, consumerVars
  <2> QED
    BY <1>1, <2>1, <2>2, <2>3 DEF Next, Consumer
<1>2. FeedInv /\ [Next]_vars
        => [held' # held /\ held # NoGame /\ attached => Terminal(received'[held])]_vars
  BY <1>1
<1> QED
  BY <1>2, FeedCorrect, PTL DEF Spec, NoTerminalMissed
=============================================================================
