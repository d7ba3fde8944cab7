--------------------------- MODULE SeedAuthority ----------------------------
(***************************************************************************)
(* Who may play which seeds (seed_registry.py and the workflow that drives *)
(* it): a ledger of allocations on the seed-registry branch, started from  *)
(* the bootstrap ledger on main, changed by workflow runs that fetch it,   *)
(* apply one operation and push, and read by jobs that carry a snapshot of *)
(* it to wherever they play (measurement_allocation_guard.py).             *)
(*                                                                         *)
(* Runs overlap here, although the workflow's concurrency group serializes *)
(* them: the fast-forward push is meant to be a boundary of its own.       *)
(* A ledger is the state of every allocation there could be, "free" where  *)
(* it has no row. The rows' other fields never change and are left out.    *)
(***************************************************************************)
EXTENDS Integers

CONSTANTS
  Allocation,  (* allocation identities, that is: owner, domain and seeds   *)
  DomainOf,    (* allocation -> its seed domain                             *)
  SeedsOf,     (* allocation -> its seed membership                         *)
  Legacy,      (* the domain of history that is quarantined everywhere      *)
  Run, Job

ASSUME MembershipAssumption == \A a \in Allocation : SeedsOf[a] # {}

State == {"free", "RESERVED", "COMMITTED", "RETIRED"}
Active == {"RESERVED", "COMMITTED"}
Rank == [s \in State |-> IF s = "free" THEN 0 ELSE IF s = "RESERVED" THEN 1
                         ELSE IF s = "COMMITTED" THEN 2 ELSE 3]

Ledger == [Allocation -> State]
Empty == [a \in Allocation |-> "free"]

VARIABLES
  main,      (* the bootstrap ledger on main                                *)
  checked,   (* allocations whose pull request to main has passed CI        *)
  live,      (* the ledger on seed-registry, Empty while there is no branch *)
  pc,        (* run -> its step                                             *)
  base,      (* run -> the bootstrap it has checked out                     *)
  seen,      (* run -> the authority it has fetched                         *)
  local,     (* run -> the ledger it works on                               *)
  snapshot,  (* job -> the authority it has been given                      *)
  played     (* allocations whose seeds were played                         *)

mainVars == <<main, checked>>
runVars == <<pc, base, seen, local>>
jobVars == <<snapshot, played>>
vars == <<mainVars, live, runVars, jobVars>>

TypeOK ==
  /\ main \in Ledger /\ checked \subseteq Allocation
  /\ live \in Ledger
  /\ pc \in [Run -> {"idle", "checked out", "loaded", "applied"}]
  /\ base \in [Run -> Ledger] /\ seen \in [Run -> Ledger] /\ local \in [Run -> Ledger]
  /\ snapshot \in [Job -> Ledger] /\ played \subseteq Allocation

-----------------------------------------------------------------------------
Overlap(a, b) == SeedsOf[a] \cap SeedsOf[b] # {}

(* validate_ledger: within one domain no seed has two rows.                *)
Valid(ledger) ==
  \A a, b \in Allocation :
    a # b /\ ledger[a] # "free" /\ ledger[b] # "free" /\ DomainOf[a] = DomainOf[b]
      => ~Overlap(a, b)

(* Operators whose name starts with "Bug" are not part of the model: each  *)
(* is a plausible bug of the definition after it, which the run notices.   *)

BugSameDomainOnly(ledger, a) ==
  \E b \in Allocation :
    ledger[b] # "free" /\ DomainOf[b] = DomainOf[a] /\ Overlap(a, b)

(* collision_records: rows of the domain and legacy rows, in any state.    *)
Collides(ledger, a) ==
  \E b \in Allocation :
    /\ ledger[b] # "free"
    /\ DomainOf[b] \in {DomainOf[a], Legacy}
    /\ Overlap(a, b)

(* Nothing is deleted and no state moves backward.                         *)
Extends(new, old) == \A a \in Allocation : Rank[old[a]] <= Rank[new[a]]

(* validate_branch_against_base.                                           *)
ValidBranch(branch, old) ==
  /\ Valid(branch) /\ Valid(old)
  /\ Extends(branch, old)
  /\ \A a \in Allocation : branch[a] # "free" /\ old[a] = "free" => ~Collides(old, a)

(* validate_bootstrap_ledger.                                              *)
ValidBootstrap(ledger) ==
  Valid(ledger) /\ \A a \in Allocation : ledger[a] \notin Active

Init ==
  /\ main \in [Allocation -> {"free", "RETIRED"}] /\ ValidBootstrap(main)
  /\ checked = {} /\ live = Empty
  /\ pc = [r \in Run |-> "idle"]
  /\ base = [r \in Run |-> Empty] /\ seen = base /\ local = base
  /\ snapshot = [j \in Job |-> Empty] /\ played = {}

-----------------------------------------------------------------------------
(* A pull request adds a row of history to main. CI checks it against the  *)
(* main of that moment; it may be merged when main has moved on.           *)
CheckPullRequest(a) ==
  LET branch == [main EXCEPT ![a] = "RETIRED"] IN
  /\ main[a] = "free"
  /\ ValidBootstrap(branch) /\ ValidBranch(branch, main)
  /\ checked' = checked \cup {a}
  /\ UNCHANGED <<main, live, runVars, jobVars>>

MergePullRequest(a) ==
  /\ a \in checked
  /\ main' = [main EXCEPT ![a] = "RETIRED"]
  /\ checked' = checked \ {a}
  /\ UNCHANGED <<live, runVars, jobVars>>

(* The authority is brought in line with main by hand.                     *)
Migrate ==
  LET migrated == [a \in Allocation |-> IF main[a] # "free" THEN "RETIRED" ELSE live[a]] IN
  /\ live # Empty
  /\ ValidBranch(migrated, main)
  /\ live' = migrated
  /\ UNCHANGED <<mainVars, runVars, jobVars>>

-----------------------------------------------------------------------------
(* A run of the workflow.                                                  *)

Goto(r, step) == pc' = [pc EXCEPT ![r] = step]

(* A run that stops leaves nothing behind.                                 *)
End(r) ==
  /\ Goto(r, "idle")
  /\ base' = [base EXCEPT ![r] = Empty]
  /\ seen' = [seen EXCEPT ![r] = Empty]
  /\ local' = [local EXCEPT ![r] = Empty]

Checkout(r) ==
  /\ pc[r] = "idle"
  /\ ValidBootstrap(main)
  /\ Goto(r, "checked out")
  /\ base' = [base EXCEPT ![r] = main]
  /\ UNCHANGED <<mainVars, live, seen, local, jobVars>>

(* Without a branch the run starts from the bootstrap; it takes every      *)
(* failure of ls-remote to mean that there is none.                        *)
Fetch(r) ==
  /\ pc[r] = "checked out"
  /\ \E found \in {live, Empty} :
       LET ledger == IF found = Empty THEN base[r] ELSE found IN
       IF ValidBranch(ledger, base[r])
       THEN /\ Goto(r, "loaded")
            /\ seen' = [seen EXCEPT ![r] = found]
            /\ local' = [local EXCEPT ![r] = ledger]
            /\ base' = [base EXCEPT ![r] = Empty]
       ELSE End(r)
  /\ UNCHANGED <<mainVars, live, jobVars>>

Apply(r, a, state) ==
  /\ Goto(r, "applied")
  /\ local' = [local EXCEPT ![r][a] = state]
  /\ UNCHANGED <<mainVars, live, base, seen, jobVars>>

(* reserve_allocation.                                                     *)
Reserve(r, a) ==
  /\ pc[r] = "loaded"
  /\ DomainOf[a] # Legacy
  /\ ~Collides(local[r], a)
  /\ Apply(r, a, "RESERVED")

(* transition_allocation: no way back, and none from a missing row.        *)
Allowed(old, new) == old # "free" /\ Rank[old] <= Rank[new]

(* To the state the row has already, it leaves nothing to publish: that    *)
(* run ends as in Abort.                                                   *)
Transition(r, a, state) ==
  /\ pc[r] = "loaded"
  /\ state \in {"COMMITTED", "RETIRED"} \ {local[r][a]}
  /\ Allowed(local[r][a], state)
  /\ Apply(r, a, state)

BugForcePush(r) == TRUE

FastForward(r) == live = seen[r]

(* The push is refused if the branch is not what the run has fetched.      *)
Push(r) ==
  /\ pc[r] = "applied"
  /\ live' = IF FastForward(r) THEN local[r] ELSE live
  /\ End(r)
  /\ UNCHANGED <<mainVars, jobVars>>

(* An operation that is refused, or a runner that dies.                    *)
Abort(r) ==
  /\ pc[r] # "idle"
  /\ End(r)
  /\ UNCHANGED <<mainVars, live, jobVars>>

-----------------------------------------------------------------------------
(* A job is launched with the authority of some moment ...                 *)
Launch(j) ==
  /\ live # Empty
  /\ snapshot' = [snapshot EXCEPT ![j] = live]
  /\ UNCHANGED <<mainVars, live, runVars, played>>

(* ... and plays a population that is active in it (require_allocation_    *)
(* binding); the guard of the measurement scripts insists on RESERVED.     *)
Play(j, a) ==
  /\ Valid(snapshot[j])
  /\ snapshot[j][a] \in Active
  /\ played' = played \cup {a}
  /\ snapshot' = [snapshot EXCEPT ![j] = Empty]
  /\ UNCHANGED <<mainVars, live, runVars>>

-----------------------------------------------------------------------------
Workflow(r) ==
  \/ Checkout(r) \/ Fetch(r) \/ Push(r) \/ Abort(r)
  \/ \E a \in Allocation : Reserve(r, a) \/ \E s \in State : Transition(r, a, s)

Next ==
  \/ \E a \in Allocation : CheckPullRequest(a) \/ MergePullRequest(a)
  \/ Migrate
  \/ \E r \in Run : Workflow(r)
  \/ \E j \in Job : Launch(j) \/ \E a \in Allocation : Play(j, a)

Spec == Init /\ [][Next]_vars

-----------------------------------------------------------------------------
(* No seed is played for two populations of its domain, however old the    *)
(* snapshots of the jobs and however many runs raced for the branch.       *)
SeedsPlayedOnce ==
  \A a, b \in played : a # b /\ DomainOf[a] = DomainOf[b] => ~Overlap(a, b)

(* A population that may still be played shares no seed with the history   *)
(* the authority quarantines.                                              *)
NotQuarantined(ledger) ==
  \A a, b \in Allocation :
    ledger[a] \in Active /\ ledger[b] # "free" /\ DomainOf[b] = Legacy => ~Overlap(a, b)

QuarantineHolds == NotQuarantined(live)

(* No push, of whatever run in whatever order, frees an allocation or      *)
(* moves it backward.                                                      *)
NeverRegresses == [][Extends(live', live)]_vars

(* What the proofs add: a run that would still be pushed works on a legal  *)
(* successor of what it fetched, and a job's snapshot is a past authority. *)
Sound(ledger) == Valid(ledger) /\ NotQuarantined(ledger)

RunsAreSound ==
  \A r \in Run :
    /\ pc[r] = "checked out" => ValidBootstrap(base[r])
    /\ pc[r] \in {"loaded", "applied"} => Sound(local[r]) /\ Extends(local[r], seen[r])

PlayedIsRecorded ==
  /\ \A j \in Job : Extends(live, snapshot[j])
  /\ \A a \in played : live[a] # "free"

AuthorityInv == TypeOK /\ Sound(live) /\ RunsAreSound /\ PlayedIsRecorded
=============================================================================
