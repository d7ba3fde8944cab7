------------------------ MODULE SeedAuthorityProofs -------------------------
(***************************************************************************)
(* The theorems of SeedAuthority, for any allocations, workflow runs and   *)
(* jobs. The argument: the authority only moves along Extends, because a   *)
(* push is refused unless the run's ledger extends the current one; so     *)
(* whatever a job has seen reserved is still there, and the current        *)
(* authority, which has no overlap, has all the populations ever played.   *)
(***************************************************************************)
EXTENDS SeedAuthority, TLAPS

-----------------------------------------------------------------------------
(* The order of states, and of ledgers.                                    *)

(* The rank of each state of an allocation.                                *)
LEMMA RankFacts ==
  /\ Rank["free"] = 0 /\ Rank["RESERVED"] = 1
  /\ Rank["COMMITTED"] = 2 /\ Rank["RETIRED"] = 3
  /\ \A s \in State : Rank[s] \in 0..3 /\ (Rank[s] = 0 <=> s = "free")
BY DEF Rank, State

(* A ledger extends itself.                                                *)
LEMMA ExtendsReflexive == ASSUME NEW l \in Ledger PROVE Extends(l, l)
BY RankFacts DEF Extends, Ledger

(* Extensions of ledgers compose.                                          *)
LEMMA ExtendsTransitive ==
  ASSUME NEW l \in Ledger, NEW m \in Ledger, NEW n \in Ledger, Extends(m, l), Extends(n, m)
  PROVE  Extends(n, l)
<1>1. SUFFICES ASSUME NEW a \in Allocation PROVE Rank[l[a]] <= Rank[n[a]]
  BY DEF Extends
<1>2. l[a] \in State /\ m[a] \in State /\ n[a] \in State BY DEF Ledger
<1>3. Rank[l[a]] <= Rank[m[a]] /\ Rank[m[a]] <= Rank[n[a]] BY DEF Extends
<1> QED BY <1>2, <1>3, RankFacts

(* No row disappears from a ledger that is extended.                       *)
LEMMA ExtendsKeeps ==
  ASSUME NEW l \in Ledger, NEW m \in Ledger, Extends(m, l),
         NEW a \in Allocation, l[a] # "free"
  PROVE  m[a] # "free"
<1>1. l[a] \in State /\ m[a] \in State BY DEF Ledger
<1>2. Rank[l[a]] <= Rank[m[a]] BY DEF Extends
<1> QED BY <1>1, <1>2, RankFacts

(* Every ledger extends the empty one.                                     *)
LEMMA ExtendsEmpty == ASSUME NEW l \in Ledger PROVE Extends(l, Empty)
<1>1. SUFFICES ASSUME NEW a \in Allocation PROVE Rank[Empty[a]] <= Rank[l[a]]
  BY DEF Extends
<1>2. l[a] \in State BY DEF Ledger
<1> QED BY <1>2, RankFacts DEF Empty

-----------------------------------------------------------------------------
(* What the operations do to a ledger.                                     *)

(* reserve_allocation gives a sound ledger that extends the one before.    *)
LEMMA ReserveIsSound ==
  ASSUME NEW l \in Ledger, Sound(l), NEW a \in Allocation,
         DomainOf[a] # Legacy, ~Collides(l, a)
  PROVE  Sound([l EXCEPT ![a] = "RESERVED"]) /\ Extends([l EXCEPT ![a] = "RESERVED"], l)
<1> DEFINE m == [l EXCEPT ![a] = "RESERVED"]
<1>1. \A b \in Allocation : m[b] = IF b = a THEN "RESERVED" ELSE l[b]
  BY DEF Ledger
<1>2. l[a] = "free"
  <2>1. Overlap(a, a) BY MembershipAssumption DEF Overlap
  <2> QED BY <2>1 DEF Collides
<1>3. \A b \in Allocation : l[b] # "free" /\ DomainOf[b] \in {DomainOf[a], Legacy}
        => ~Overlap(a, b)
  BY DEF Collides
<1>4. \A b, c \in Allocation : Overlap(b, c) <=> Overlap(c, b)
  BY DEF Overlap
<1> HIDE DEF m
<1>5. Valid(m)
  <2>1. SUFFICES ASSUME NEW b \in Allocation, NEW c \in Allocation, b # c,
                        m[b] # "free", m[c] # "free", DomainOf[b] = DomainOf[c]
                 PROVE  ~Overlap(b, c)
    BY DEF Valid
  <2>2. CASE b = a BY <2>1, <2>2, <1>1, <1>3
  <2>3. CASE c = a BY <2>1, <2>3, <1>1, <1>3, <1>4
  <2>4. CASE b # a /\ c # a BY <2>1, <2>4, <1>1 DEF Sound, Valid
  <2> QED BY <2>2, <2>3, <2>4
<1>6. NotQuarantined(m)
  <2>1. SUFFICES ASSUME NEW b \in Allocation, NEW c \in Allocation,
                        m[b] \in Active, m[c] # "free", DomainOf[c] = Legacy
                 PROVE  ~Overlap(b, c)
    BY DEF NotQuarantined
  <2>2. c # a /\ l[c] # "free" BY <2>1, <1>1
  <2>3. CASE b = a BY <2>1, <2>2, <2>3, <1>3
  <2>4. CASE b # a BY <2>1, <2>2, <2>4, <1>1 DEF Sound, NotQuarantined
  <2> QED BY <2>3, <2>4
<1>7. Extends(m, l)
  <2>1. SUFFICES ASSUME NEW b \in Allocation PROVE Rank[l[b]] <= Rank[m[b]]
    BY DEF Extends
  <2>2. l[b] \in State BY DEF Ledger
  <2> QED BY <2>2, <1>1, <1>2, RankFacts
<1> QED BY <1>5, <1>6, <1>7 DEF Sound, m

(* transition_allocation gives a sound ledger that extends the one before. *)
LEMMA TransitionIsSound ==
  ASSUME NEW l \in Ledger, Sound(l), NEW a \in Allocation,
         NEW s \in {"COMMITTED", "RETIRED"}, Allowed(l[a], s)
  PROVE  Sound([l EXCEPT ![a] = s]) /\ Extends([l EXCEPT ![a] = s], l)
<1> DEFINE m == [l EXCEPT ![a] = s]
<1>1. \A b \in Allocation : m[b] = IF b = a THEN s ELSE l[b]
  BY DEF Ledger
<1>2. l[a] \in State /\ s \in State BY DEF Ledger, State
<1>3. l[a] # "free" /\ Rank[l[a]] <= Rank[s] BY DEF Allowed
<1>4. s \in Active => l[a] \in Active
  BY <1>2, <1>3, RankFacts DEF Active, State
<1> HIDE DEF m
<1>5. \A b \in Allocation : m[b] # "free" => l[b] # "free" BY <1>1, <1>3
<1>6. \A b \in Allocation : m[b] \in Active => l[b] \in Active BY <1>1, <1>4
<1>7. Sound(m) BY <1>5, <1>6 DEF Sound, Valid, NotQuarantined
<1>8. Extends(m, l)
  <2>1. SUFFICES ASSUME NEW b \in Allocation PROVE Rank[l[b]] <= Rank[m[b]]
    BY DEF Extends
  <2>2. l[b] \in State BY DEF Ledger
  <2> QED BY <2>2, <1>1, <1>3, RankFacts
<1> QED BY <1>7, <1>8 DEF m

(* A valid bootstrap has nothing active that could be quarantined.         *)
LEMMA BootstrapIsSound == ASSUME NEW l \in Ledger, ValidBootstrap(l) PROVE Sound(l)
BY DEF Sound, ValidBootstrap, NotQuarantined

(* A migration by hand gives a sound ledger that extends the authority.    *)
LEMMA MigrationIsSound ==
  ASSUME TypeOK, Sound(live), Migrate
  PROVE  live' \in Ledger /\ Sound(live') /\ Extends(live', live)
<1>1. live' = [a \in Allocation |-> IF main[a] # "free" THEN "RETIRED" ELSE live[a]]
  BY DEF Migrate
<1>2. main \in Ledger /\ live \in Ledger BY DEF TypeOK
<1>3. live' \in Ledger BY <1>1, <1>2 DEF Ledger, State
<1>4. ValidBranch(live', main) BY <1>1 DEF Migrate
<1>5. Valid(live') BY <1>4 DEF ValidBranch
<1>6. NotQuarantined(live')
  <2>1. SUFFICES ASSUME NEW a \in Allocation, NEW b \in Allocation,
                        live'[a] \in Active, live'[b] # "free", DomainOf[b] = Legacy
                 PROVE  ~Overlap(a, b)
    BY DEF NotQuarantined
  <2>2. main[a] = "free" /\ live[a] \in Active /\ live'[a] # "free"
    BY <2>1, <1>1 DEF Active
  <2>3. CASE main[b] # "free"
    BY <2>1, <2>2, <2>3, <1>4 DEF ValidBranch, Collides
  <2>4. CASE main[b] = "free"
    <3>1. live[b] # "free" BY <2>1, <2>4, <1>1
    <3> QED BY <2>1, <2>2, <3>1 DEF Sound, NotQuarantined
  <2> QED BY <2>3, <2>4
<1>7. Extends(live', live)
  <2>1. SUFFICES ASSUME NEW a \in Allocation PROVE Rank[live[a]] <= Rank[live'[a]]
    BY DEF Extends
  <2>2. live[a] \in State BY <1>2 DEF Ledger
  <2> QED BY <2>2, <1>1, RankFacts DEF State
<1> QED BY <1>3, <1>5, <1>6, <1>7 DEF Sound

-----------------------------------------------------------------------------
(* The inductive invariant.                                                *)

(* The first authority is the bootstrap, and no run has begun.             *)
LEMMA InitIsSound == Init => AuthorityInv
<1> SUFFICES ASSUME Init PROVE AuthorityInv OBVIOUS
<1>1. Empty \in Ledger BY DEF Empty, Ledger, State
<1>2. main \in Ledger BY DEF Init, Ledger, State
<1>3. TypeOK BY <1>1, <1>2 DEF Init, TypeOK
<1>4. Sound(live) BY DEF Init, Sound, Valid, NotQuarantined, Empty
<1>5. RunsAreSound BY DEF Init, RunsAreSound
<1>6. PlayedIsRecorded BY <1>1, ExtendsReflexive DEF Init, PlayedIsRecorded
<1> QED BY <1>3, <1>4, <1>5, <1>6 DEF AuthorityInv

(* A run that ends has nothing more to be pushed.                          *)
LEMMA EndKeepsRuns ==
  ASSUME TypeOK, RunsAreSound, NEW r \in Run, End(r)
  PROVE  /\ RunsAreSound'
         /\ pc' \in [Run -> {"idle", "checked out", "loaded", "applied"}]
         /\ base' \in [Run -> Ledger] /\ seen' \in [Run -> Ledger] /\ local' \in [Run -> Ledger]
<1>1. Empty \in Ledger BY DEF Empty, Ledger, State
<1>2. \A i \in Run : pc'[i] = IF i = r THEN "idle" ELSE pc[i]
  BY DEF End, Goto, TypeOK
<1>3. \A i \in Run : i # r => base'[i] = base[i] /\ seen'[i] = seen[i] /\ local'[i] = local[i]
  BY DEF End, TypeOK
<1>4. RunsAreSound'
  <2>1. ASSUME NEW i \in Run
        PROVE  /\ pc'[i] = "checked out" => ValidBootstrap(base'[i])
               /\ pc'[i] \in {"loaded", "applied"} =>
                    Sound(local'[i]) /\ Extends(local'[i], seen'[i])
    <3>1. CASE i = r BY <3>1, <1>2
    <3>2. CASE i # r
      <4>1. pc'[i] = pc[i] /\ seen'[i] = seen[i] /\ local'[i] = local[i] /\ base'[i] = base[i]
        BY <3>2, <1>2, <1>3
      <4> QED BY <4>1 DEF RunsAreSound
    <3> QED BY <3>1, <3>2
  <2> QED BY <2>1 DEF RunsAreSound
<1>5. pc' \in [Run -> {"idle", "checked out", "loaded", "applied"}]
  BY DEF End, Goto, TypeOK
<1>6. base' \in [Run -> Ledger] /\ seen' \in [Run -> Ledger] /\ local' \in [Run -> Ledger]
  BY <1>1 DEF End, TypeOK
<1> QED BY <1>4, <1>5, <1>6

(* What was recorded stays recorded in an authority that is extended.      *)
LEMMA ExtensionKeepsRecord ==
  ASSUME TypeOK, live' \in Ledger, PlayedIsRecorded, Extends(live', live), UNCHANGED jobVars
  PROVE  PlayedIsRecorded'
<1>1. live \in Ledger /\ snapshot \in [Job -> Ledger] /\ played \subseteq Allocation
  BY DEF TypeOK
<1>2. snapshot' = snapshot /\ played' = played BY DEF jobVars
<1>3. ASSUME NEW j \in Job PROVE Extends(live', snapshot'[j])
  <2>1. Extends(live, snapshot[j]) BY DEF PlayedIsRecorded
  <2>2. snapshot[j] \in Ledger BY <1>1
  <2>3. Extends(live', snapshot[j]) BY <1>1, <2>1, <2>2, ExtendsTransitive
  <2> QED BY <1>2, <2>3
<1>4. ASSUME NEW a \in played' PROVE live'[a] # "free"
  <2>1. live[a] # "free" /\ a \in Allocation BY <1>1, <1>2 DEF PlayedIsRecorded
  <2> QED BY <1>1, <2>1, ExtendsKeeps
<1> QED BY <1>3, <1>4 DEF PlayedIsRecorded

(* Every step keeps the invariant, and the authority is only extended.     *)
LEMMA StepIsSound ==
  AuthorityInv /\ [Next]_vars => AuthorityInv' /\ Extends(live', live)
<1> SUFFICES ASSUME AuthorityInv, [Next]_vars
             PROVE  AuthorityInv' /\ Extends(live', live)
  OBVIOUS
<1> USE DEF AuthorityInv
<1>0. live \in Ledger /\ Extends(live, live)
  BY ExtendsReflexive DEF TypeOK
<1>1. ASSUME NEW a \in Allocation, CheckPullRequest(a)
      PROVE  AuthorityInv' /\ Extends(live', live)
  BY <1>0, <1>1 DEF CheckPullRequest, TypeOK, runVars, jobVars, RunsAreSound, PlayedIsRecorded
<1>2. ASSUME NEW a \in Allocation, MergePullRequest(a)
      PROVE  AuthorityInv' /\ Extends(live', live)
  <2>1. main' \in Ledger /\ checked' \subseteq Allocation
    BY <1>2 DEF MergePullRequest, TypeOK, Ledger, State
  <2> QED BY <1>0, <1>2, <2>1 DEF MergePullRequest, TypeOK, runVars, jobVars, RunsAreSound,
                                  PlayedIsRecorded
<1>3. CASE Migrate
  <2>1. live' \in Ledger /\ Sound(live') /\ Extends(live', live)
    BY <1>3, MigrationIsSound
  <2>2. UNCHANGED <<mainVars, runVars, jobVars>> BY <1>3 DEF Migrate
  <2>3. PlayedIsRecorded' BY <2>1, <2>2, ExtensionKeepsRecord
  <2>4. TypeOK' /\ RunsAreSound'
    BY <2>1, <2>2 DEF TypeOK, mainVars, runVars, jobVars, RunsAreSound
  <2> QED BY <2>1, <2>3, <2>4
<1>4. ASSUME NEW r \in Run, Checkout(r)
      PROVE  AuthorityInv' /\ Extends(live', live)
  <2>1. TypeOK' BY <1>4 DEF Checkout, Goto, TypeOK, mainVars, jobVars
  <2>2. UNCHANGED <<live, seen, local, jobVars>> BY <1>4 DEF Checkout
  <2>3. \A i \in Run : pc'[i] = IF i = r THEN "checked out" ELSE pc[i]
    BY <1>4 DEF Checkout, Goto, TypeOK
  <2>4. \A i \in Run : base'[i] = IF i = r THEN main ELSE base[i]
    BY <1>4 DEF Checkout, TypeOK
  <2>5. RunsAreSound'
    BY <1>4, <2>2, <2>3, <2>4 DEF Checkout, RunsAreSound, ValidBootstrap, Valid
  <2>6. PlayedIsRecorded' /\ Sound(live') BY <2>2 DEF PlayedIsRecorded, jobVars
  <2> QED BY <1>0, <2>1, <2>2, <2>5, <2>6
<1>5. ASSUME NEW r \in Run, Fetch(r)
      PROVE  AuthorityInv' /\ Extends(live', live)
  <2>0. PICK found \in {live, Empty} :
          LET ledger == IF found = Empty THEN base[r] ELSE found IN
          IF ValidBranch(ledger, base[r])
          THEN /\ Goto(r, "loaded")
               /\ seen' = [seen EXCEPT ![r] = found]
               /\ local' = [local EXCEPT ![r] = ledger]
               /\ base' = [base EXCEPT ![r] = Empty]
          ELSE End(r)
    BY <1>5 DEF Fetch
  <2> DEFINE ledger == IF found = Empty THEN base[r] ELSE found
  <2>1. UNCHANGED <<main, checked, live, snapshot, played>> /\ pc[r] = "checked out"
    BY <1>5 DEF Fetch, mainVars, jobVars
  <2>2. PlayedIsRecorded' /\ Sound(live') BY <2>1 DEF PlayedIsRecorded
  <2>3. base[r] \in Ledger /\ Sound(base[r])
    BY <2>1, BootstrapIsSound DEF TypeOK, RunsAreSound
  <2>4. ledger \in Ledger /\ Sound(ledger) /\ Extends(ledger, found) /\ found \in Ledger
    BY <1>0, <2>3, ExtendsEmpty DEF Empty, Ledger, State
  <2>5. CASE ValidBranch(ledger, base[r])
    <3>1. Empty \in Ledger BY DEF Empty, Ledger, State
    <3>2. /\ pc' = [pc EXCEPT ![r] = "loaded"] /\ seen' = [seen EXCEPT ![r] = found]
          /\ local' = [local EXCEPT ![r] = ledger] /\ base' = [base EXCEPT ![r] = Empty]
      BY <2>0, <2>5 DEF Goto
    <3> HIDE DEF ledger
    <3>3. TypeOK' BY <1>0, <2>1, <2>4, <3>1, <3>2 DEF TypeOK
    <3>4. \A i \in Run :
            /\ pc'[i] = IF i = r THEN "loaded" ELSE pc[i]
            /\ seen'[i] = IF i = r THEN found ELSE seen[i]
            /\ local'[i] = IF i = r THEN ledger ELSE local[i]
            /\ i # r => base'[i] = base[i]
      BY <3>2 DEF TypeOK
    <3>5. ASSUME NEW i \in Run
          PROVE  /\ pc'[i] = "checked out" => ValidBootstrap(base'[i])
                 /\ pc'[i] \in {"loaded", "applied"} =>
                      Sound(local'[i]) /\ Extends(local'[i], seen'[i])
      <4>1. CASE i = r BY <4>1, <3>4, <2>4
      <4>2. CASE i # r
        <5>1. pc'[i] = pc[i] /\ seen'[i] = seen[i] /\ local'[i] = local[i] /\ base'[i] = base[i]
          BY <4>2, <3>4
        <5> QED BY <5>1 DEF RunsAreSound
      <4> QED BY <4>1, <4>2
    <3>6. RunsAreSound' BY <3>5 DEF RunsAreSound
    <3> QED BY <1>0, <2>1, <2>2, <3>3, <3>6
  <2>6. CASE ~ValidBranch(ledger, base[r])
    <3>1. End(r) BY <2>0, <2>6
    <3>2. TypeOK' /\ RunsAreSound' BY <2>1, <3>1, EndKeepsRuns DEF TypeOK
    <3> QED BY <1>0, <2>1, <2>2, <3>2
  <2> QED BY <2>5, <2>6
<1>6. ASSUME NEW r \in Run, NEW a \in Allocation, NEW s \in State,
             pc[r] = "loaded", Apply(r, a, s),
             Sound([local[r] EXCEPT ![a] = s]), Extends([local[r] EXCEPT ![a] = s], local[r])
      PROVE  AuthorityInv' /\ Extends(live', live)
  <2> DEFINE new == [local[r] EXCEPT ![a] = s]
  <2>1. UNCHANGED <<main, checked, live, base, seen, snapshot, played>>
    BY <1>6 DEF Apply, mainVars, jobVars
  <2>2. local[r] \in Ledger /\ seen[r] \in Ledger /\ new \in Ledger
    BY DEF TypeOK, Ledger
  <2>3. local' = [local EXCEPT ![r] = new] /\ pc' = [pc EXCEPT ![r] = "applied"]
    BY <1>6 DEF Apply, Goto
  <2>4. Sound(new) /\ Extends(new, local[r]) BY <1>6
  <2> HIDE DEF new
  <2>5. Extends(local[r], seen[r]) BY <1>6 DEF RunsAreSound
  <2>6. Extends(new, seen[r]) BY <2>2, <2>4, <2>5, ExtendsTransitive
  <2>7. TypeOK' BY <2>1, <2>2, <2>3 DEF TypeOK
  <2>8. \A i \in Run : /\ pc'[i] = IF i = r THEN "applied" ELSE pc[i]
                       /\ local'[i] = IF i = r THEN new ELSE local[i]
    BY <2>3 DEF TypeOK
  <2>9. ASSUME NEW i \in Run
        PROVE  /\ pc'[i] = "checked out" => ValidBootstrap(base'[i])
               /\ pc'[i] \in {"loaded", "applied"} =>
                    Sound(local'[i]) /\ Extends(local'[i], seen'[i])
    <3>1. CASE i = r BY <3>1, <2>1, <2>4, <2>6, <2>8
    <3>2. CASE i # r
      <4>1. pc'[i] = pc[i] /\ seen'[i] = seen[i] /\ local'[i] = local[i] /\ base'[i] = base[i]
        BY <3>2, <2>1, <2>8
      <4> QED BY <4>1 DEF RunsAreSound
    <3> QED BY <3>1, <3>2
  <2>10. RunsAreSound' BY <2>9 DEF RunsAreSound
  <2>11. PlayedIsRecorded' /\ Sound(live') BY <2>1 DEF PlayedIsRecorded
  <2> QED BY <1>0, <2>1, <2>7, <2>10, <2>11
<1>7. ASSUME NEW r \in Run, NEW a \in Allocation, Reserve(r, a)
      PROVE  AuthorityInv' /\ Extends(live', live)
  <2>1. local[r] \in Ledger /\ Sound(local[r])
    BY <1>7 DEF Reserve, TypeOK, RunsAreSound
  <2>2. /\ Sound([local[r] EXCEPT ![a] = "RESERVED"])
        /\ Extends([local[r] EXCEPT ![a] = "RESERVED"], local[r])
    BY <1>7, <2>1, ReserveIsSound DEF Reserve
  <2>3. "RESERVED" \in State BY DEF State
  <2>4. pc[r] = "loaded" /\ Apply(r, a, "RESERVED") BY <1>7 DEF Reserve
  <2> QED BY <2>2, <2>3, <2>4, <1>6
<1>8. ASSUME NEW r \in Run, NEW a \in Allocation, NEW s \in State, Transition(r, a, s)
      PROVE  AuthorityInv' /\ Extends(live', live)
  <2>1. local[r] \in Ledger /\ Sound(local[r])
    BY <1>8 DEF Transition, TypeOK, RunsAreSound
  <2>2. pc[r] = "loaded" /\ Apply(r, a, s) /\ s \in {"COMMITTED", "RETIRED"}
        /\ Allowed(local[r][a], s)
    BY <1>8 DEF Transition
  <2>3. Sound([local[r] EXCEPT ![a] = s]) /\ Extends([local[r] EXCEPT ![a] = s], local[r])
    BY <2>1, <2>2, TransitionIsSound
  <2> QED BY <2>2, <2>3, <1>6
<1>9. ASSUME NEW r \in Run, Push(r)
      PROVE  AuthorityInv' /\ Extends(live', live)
  <2>1. End(r) /\ pc[r] = "applied" /\ UNCHANGED <<main, checked, jobVars>>
    BY <1>9 DEF Push, mainVars
  <2>2. live' = IF live = seen[r] THEN local[r] ELSE live
    BY <1>9 DEF Push, FastForward
  <2>3. local[r] \in Ledger /\ Sound(local[r]) /\ Extends(local[r], seen[r])
    BY <2>1 DEF TypeOK, RunsAreSound
  <2>4. live' \in Ledger /\ Sound(live') /\ Extends(live', live)
    BY <1>0, <2>2, <2>3
  <2>5. PlayedIsRecorded' BY <2>1, <2>4, ExtensionKeepsRecord
  <2>6. TypeOK' /\ RunsAreSound' BY <2>1, <2>4, EndKeepsRuns DEF TypeOK, jobVars
  <2> QED BY <2>4, <2>5, <2>6
<1>10. ASSUME NEW r \in Run, Abort(r)
       PROVE  AuthorityInv' /\ Extends(live', live)
  <2>1. End(r) /\ UNCHANGED <<main, checked, live, snapshot, played>>
    BY <1>10 DEF Abort, mainVars, jobVars
  <2>2. TypeOK' /\ RunsAreSound' BY <2>1, EndKeepsRuns DEF TypeOK
  <2>3. PlayedIsRecorded' /\ Sound(live') BY <2>1 DEF PlayedIsRecorded
  <2> QED BY <1>0, <2>1, <2>2, <2>3
<1>11. ASSUME NEW j \in Job, Launch(j)
       PROVE  AuthorityInv' /\ Extends(live', live)
  <2>1. UNCHANGED <<mainVars, live, runVars, played>>
        /\ snapshot' = [snapshot EXCEPT ![j] = live]
    BY <1>11 DEF Launch
  <2>2. TypeOK' /\ RunsAreSound' /\ Sound(live')
    BY <1>0, <2>1 DEF TypeOK, mainVars, runVars, RunsAreSound
  <2>3. \A i \in Job : snapshot'[i] = IF i = j THEN live ELSE snapshot[i]
    BY <2>1 DEF TypeOK
  <2>4. PlayedIsRecorded' BY <1>0, <2>1, <2>3 DEF PlayedIsRecorded
  <2> QED BY <1>0, <2>1, <2>2, <2>4
<1>12. ASSUME NEW j \in Job, NEW a \in Allocation, Play(j, a)
       PROVE  AuthorityInv' /\ Extends(live', live)
  <2>1. UNCHANGED <<mainVars, live, runVars>> /\ snapshot[j][a] # "free"
        /\ played' = played \cup {a} /\ snapshot' = [snapshot EXCEPT ![j] = Empty]
    BY <1>12 DEF Play, Active
  <2>2. Empty \in Ledger BY DEF Empty, Ledger, State
  <2>3. TypeOK' /\ RunsAreSound' /\ Sound(live')
    BY <2>1, <2>2 DEF TypeOK, mainVars, runVars, RunsAreSound
  <2>4. \A i \in Job : snapshot'[i] = IF i = j THEN Empty ELSE snapshot[i]
    BY <2>1 DEF TypeOK
  <2>5. \A i \in Job : Extends(live', snapshot'[i])
    BY <1>0, <2>1, <2>4, ExtendsEmpty DEF PlayedIsRecorded
  <2>6. live[a] # "free"
    <3>1. snapshot[j] \in Ledger /\ Extends(live, snapshot[j])
      BY DEF TypeOK, PlayedIsRecorded
    <3> QED BY <1>0, <2>1, <3>1, ExtendsKeeps
  <2>7. PlayedIsRecorded' BY <2>1, <2>5, <2>6 DEF PlayedIsRecorded
  <2> QED BY <1>0, <2>1, <2>3, <2>7
<1>13. CASE UNCHANGED vars
  BY <1>0, <1>13 DEF vars, mainVars, runVars, jobVars, TypeOK, RunsAreSound, PlayedIsRecorded
<1> QED
  BY <1>1, <1>2, <1>3, <1>4, <1>5, <1>7, <1>8, <1>9, <1>10, <1>11, <1>12, <1>13
  DEF Next, Workflow

-----------------------------------------------------------------------------
(* The authority and everything derived from it stay sound: no overlap in  *)
(* a domain, and nothing pushed, seen or played outside it.                *)
THEOREM AuthorityCorrect == Spec => []AuthorityInv
<1>1. Init => AuthorityInv BY InitIsSound
<1>2. AuthorityInv /\ [Next]_vars => AuthorityInv' BY StepIsSound
<1> QED BY <1>1, <1>2, PTL DEF Spec

(* No seed is played for two populations of its domain.                    *)
THEOREM SeedsPlayedOnceCorrect == Spec => []SeedsPlayedOnce
<1>1. AuthorityInv => SeedsPlayedOnce
  BY DEF AuthorityInv, TypeOK, PlayedIsRecorded, Sound, Valid, SeedsPlayedOnce
<1> QED BY <1>1, AuthorityCorrect, PTL

(* No active population shares a seed with quarantined history.            *)
THEOREM QuarantineHoldsCorrect == Spec => []QuarantineHolds
<1>1. AuthorityInv => QuarantineHolds BY DEF AuthorityInv, Sound, QuarantineHolds
<1> QED BY <1>1, AuthorityCorrect, PTL

(* No step of the system frees an allocation or moves it backward.         *)
THEOREM NeverRegressesCorrect == Spec => NeverRegresses
<1>1. AuthorityInv /\ [Next]_vars => [Extends(live', live)]_vars BY StepIsSound
<1> QED BY <1>1, AuthorityCorrect, PTL DEF Spec, NeverRegresses
=============================================================================
