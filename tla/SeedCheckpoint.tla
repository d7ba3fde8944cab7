--------------------------- MODULE SeedCheckpoint ---------------------------
(***************************************************************************)
(* publish_seed_checkpoint (durable_seed_checkpoint.py): the artifact of a *)
(* seed and then the receipt that binds it, each published with a synced   *)
(* temporary file, a link that never overwrites, and a sync of the         *)
(* directory, while the machine may crash between any two steps.           *)
(*                                                                         *)
(* The directory is what every process sees in it; of that, a crash leaves *)
(* the entries that a sync, or the kernel on its own, has written back.    *)
(* The content of a file is the call that wrote it: the payloads of two    *)
(* calls differ, and a receipt binds the payload of its own call. The      *)
(* temporary files have names of their own and no reader. The directory    *)
(* itself is taken to be durable once it has been created.                 *)
(***************************************************************************)
CONSTANTS Seeds,
          Calls,   (* calls of publish_seed_checkpoint, of any process      *)
          NoFile

ASSUME CallsAssumption == NoFile \notin Calls

ArtifactOf(s) == <<"artifact", s>>
ReceiptOf(s) == <<"receipt", s>>
Kind == {"artifact", "receipt"}
File == Kind \X Seeds

VARIABLES
  directory,  (* file -> the call that wrote it, or NoFile                  *)
  synced,     (* the files whose entry survives a crash                     *)
  pc,         (* where each call is                                         *)
  kind,       (* ... and which of its two files it publishes                *)
  seed        (* ... of which seed                                          *)

vars == <<directory, synced, pc, kind, seed>>

Active == {"check", "link", "sync"}

TypeOK ==
  /\ directory \in [File -> Calls \cup {NoFile}]
  /\ synced \subseteq File
  /\ pc \in [Calls -> Active \cup {"idle", "done", "failed"}]
  /\ kind \in [Calls -> Kind]
  /\ seed \in [Calls -> Seeds]

Init ==
  /\ directory = [f \in File |-> NoFile]
  /\ synced = {}
  /\ pc = [c \in Calls |-> "idle"]
  /\ kind = [c \in Calls |-> "artifact"]
  /\ seed \in [Calls -> Seeds]

Exists(f) == directory[f] # NoFile
Target(c) == <<kind[c], seed[c]>>

-----------------------------------------------------------------------------
Goto(c, place) == pc' = [pc EXCEPT ![c] = place]

Begin(c) ==
  /\ pc[c] = "idle"
  /\ Goto(c, "check")
  /\ UNCHANGED <<directory, synced, kind, seed>>

(* The destination must be new. If so the temporary file is written, with  *)
(* its content on the disk.                                                *)
Check(c) ==
  /\ pc[c] = "check"
  /\ Goto(c, IF Exists(Target(c)) THEN "failed" ELSE "link")
  /\ UNCHANGED <<directory, synced, kind, seed>>

(* Operators whose name starts with "Bug" are not part of the model: each  *)
(* is a plausible bug of the definition after it, which the run notices.   *)

BugReplace(c) ==
  /\ pc[c] = "link"
  /\ directory' = [directory EXCEPT ![Target(c)] = c]
  /\ Goto(c, "sync")
  /\ UNCHANGED <<synced, kind, seed>>

BugSkipExisting(c) ==
  /\ pc[c] = "link"
  /\ directory' = [directory EXCEPT ![Target(c)] = IF Exists(Target(c)) THEN @ ELSE c]
  /\ Goto(c, "sync")
  /\ UNCHANGED <<synced, kind, seed>>

(* os.link fails if another call was faster.                               *)
Link(c) ==
  /\ pc[c] = "link"
  /\ IF Exists(Target(c))
     THEN Goto(c, "failed") /\ UNCHANGED directory
     ELSE /\ directory' = [directory EXCEPT ![Target(c)] = c]
          /\ Goto(c, "sync")
  /\ UNCHANGED <<synced, kind, seed>>

(* The artifact is followed by its receipt, the receipt by the return.     *)
Advance(c) ==
  IF kind[c] = "artifact"
  THEN kind' = [kind EXCEPT ![c] = "receipt"] /\ Goto(c, "check")
  ELSE UNCHANGED kind /\ Goto(c, "done")

BugNoSync(c) ==
  /\ pc[c] = "sync"
  /\ Advance(c)
  /\ UNCHANGED <<directory, synced, seed>>

(* The sync writes back every entry of the directory, also of other calls. *)
SyncDirectory(c) ==
  /\ pc[c] = "sync"
  /\ synced' = {f \in File : Exists(f)}
  /\ Advance(c)
  /\ UNCHANGED <<directory, seed>>

(* An OSError (a full disk, a failed sync) or the end of the process: what *)
(* has been done stays.                                                    *)
Fail(c) ==
  /\ pc[c] \in Active
  /\ Goto(c, "failed")
  /\ UNCHANGED <<directory, synced, kind, seed>>

-----------------------------------------------------------------------------
WriteBack(f) ==
  /\ Exists(f)
  /\ synced' = synced \cup {f}
  /\ UNCHANGED <<directory, pc, kind, seed>>

(* The machine crashes; the calls in progress are gone.                    *)
Crash ==
  /\ directory' = [f \in File |-> IF f \in synced THEN directory[f] ELSE NoFile]
  /\ pc' = [c \in Calls |-> IF pc[c] \in Active THEN "failed" ELSE pc[c]]
  /\ UNCHANGED <<synced, kind, seed>>

Next ==
  \/ \E c \in Calls : \/ Begin(c) \/ Check(c) \/ Link(c) \/ SyncDirectory(c) \/ Fail(c)
  \/ \E f \in File : WriteBack(f)
  \/ Crash

Spec == Init /\ [][Next]_vars

-----------------------------------------------------------------------------
(* read_seed_checkpoint: what a receipt binds is what the artifact holds.  *)
Readable(s) ==
  /\ Exists(ReceiptOf(s))
  /\ directory[ArtifactOf(s)] = directory[ReceiptOf(s)]

(* A receipt that an audit finds, after whatever crash or failed call, can *)
(* be read back: its artifact is there, and is the one it binds.           *)
ReceiptsAreReadable == \A s \in Seeds : Exists(ReceiptOf(s)) => Readable(s)

(* The checkpoint of a call that has returned survives every crash.        *)
CheckpointSurvives ==
  \A c \in Calls : pc[c] = "done" =>
    directory[ArtifactOf(seed[c])] = c /\ directory[ReceiptOf(seed[c])] = c

(* The durable receipts are a ledger of completed seeds.                   *)
Ledger == INSTANCE CheckpointLedger WITH
  recorded <- [s \in Seeds |-> IF ReceiptOf(s) \in synced
                               THEN directory[ReceiptOf(s)] ELSE NoFile],
  acknowledged <- {c \in Calls : pc[c] = "done"}

ImplementsLedger == Ledger!Spec

-----------------------------------------------------------------------------
(* What the proofs add: an artifact is durable before its receipt is begun *)
(* and a receipt before its call returns.                                  *)
SyncedExist == \A f \in synced : Exists(f)

ArtifactFirst ==
  /\ \A s \in Seeds : Exists(ReceiptOf(s)) =>
       ArtifactOf(s) \in synced /\ directory[ArtifactOf(s)] = directory[ReceiptOf(s)]
  /\ \A c \in Calls : kind[c] = "receipt" =>
       ArtifactOf(seed[c]) \in synced /\ directory[ArtifactOf(seed[c])] = c

DoneIsDurable ==
  /\ \A c \in Calls : pc[c] = "sync" => directory[Target(c)] = c
  /\ \A c \in Calls : pc[c] = "done" =>
       kind[c] = "receipt" /\ ReceiptOf(seed[c]) \in synced
       /\ directory[ReceiptOf(seed[c])] = c

CheckpointInv == TypeOK /\ SyncedExist /\ ArtifactFirst /\ DoneIsDurable
=============================================================================
