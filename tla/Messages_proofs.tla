-------------------------- MODULE Messages_proofs --------------------------
(***************************************************************************)
(* What is proved of messages and their files.  First the files: files,    *)
(* rows and queue agree.  What that invariant needs besides: that whoever  *)
(* decides, drains or enters holds the lock for it, that what he read      *)
(* under the lock stays true until he lets go of it, and that bytes are    *)
(* written before the rows that speak of them.  Then the parts of          *)
(* MCMessages: the ids of one thread, sending and reading, and the copies  *)
(* a client holds.                                                         *)
(***************************************************************************)
EXTENDS AutoMod, MCMessages, FiniteSetTheorems, TLAPS

(* What carries them. Whoever decides, deletes or holds a place among the   *)
(* uploads has the lock for it, and what he read under it stays so.         *)
Busy(a) == job[a].at \in {"write", "commit", "unlink"}

Locked ==
  /\ \A a \in Actor : /\ Busy(a) => processing = a
                      /\ job[a].at \in {"commit", "unlink"} => publication = a
  /\ drain.todo # {} => publication = "drain"
  /\ \A f \in File : upload[f] \in {"write", "commit"} => admission = f

\* A decision finds its file as it was when it was taken.
Current ==
  \A a \in Actor :
    /\ job[a].at \in {"picked", "scanning"} => a = "worker" /\ job[a].from = "pending"
    /\ job[a].at \in {"write", "commit"} => /\ status[job[a].file] = job[a].from
                                           /\ job[a].from \in Held \cup {"published"}
    /\ job[a].at = "unlink" => status[job[a].file] = job[a].to

\* The worker releases what the policy and the blocks let pass.
Lawful ==
  LET j == job["worker"] IN
  (j.at \in {"write", "commit"} /\ j.to = "published") =>
    j.from = "pending" /\ ~Unlicensed(j.file) /\ Decision(j.file, j.result) = "published"

\* A file on its way in is known to no table but that of messages.
Fresh ==
  \A f \in File :
    /\ upload[f] # "done" => status[f] = "none" /\ f \notin rows \cup queue \cup drain.todo
    /\ status[f] = "none" => f \notin cleared

\* The bytes are there before the row that tells of them.
BytesFirst ==
  /\ \A f \in File : /\ upload[f] = "attach" => f \in public \cup excused
                     /\ upload[f] = "commit" => f \in private
  /\ \A a \in Actor :
       /\ (job[a].at = "commit" /\ job[a].to = "published") => job[a].file \in public \cup excused
       /\ (job[a].at \in {"write", "commit"} /\ job[a].from = "published") =>
            job[a].file \in private

\* A row put back while the queue is drained was seen.
LiveSeen == drain.todo \cap rows \subseteq drain.live

\* A file admitted to the queue has its place.
PlaceKept ==
  \A f \in File : upload[f] \in {"write", "commit"} =>
    Cardinality((HeldFiles \ reheld) \cup {f}) <= MaxHeld

\* All but the counting of places, which has lemmas of its own.
Safe ==
  /\ TypeOK /\ HeldIsHidden /\ EvidenceKept /\ ListedIsThere /\ LeftoversListed
  /\ Locked /\ Current /\ Lawful /\ Fresh /\ BytesFirst /\ LiveSeen

USE DEF disk, locks, tables, world, hist, steps

-----------------------------------------------------------------------------
(* Decisions.                                                               *)
JobTypes == job \in [Actor -> Jobs \cup {NoJob}]

\* Who is not idle has a file, and knows what he is about.
LEMMA JobOf ==
  ASSUME TypeOK, NEW a \in Actor, job[a].at # "idle"
  PROVE  job[a] \in Jobs /\ job[a].file \in File /\ job[a].from \in Status
         /\ job[a].to \in Status
<1>1. job[a] \in Jobs
  BY DEF TypeOK, NoJob
<1> QED
  BY <1>1 DEF Jobs

Stage == {"picked", "scanning", "write", "commit", "unlink"}

LEMMA Stepped ==
  \A j \in Jobs, at \in Stage, to \in Status :
    /\ Step(j, at, to) \in Jobs
    /\ Step(j, at, to).at = at /\ Step(j, at, to).to = to
    /\ Step(j, at, to).file = j.file /\ Step(j, at, to).from = j.from
    /\ Step(j, at, to).result = j.result
BY DEF Step, Jobs, Stage

LEMMA Employ ==
  ASSUME JobTypes, NEW a \in Actor, NEW j \in Jobs \cup {NoJob}, job' = [job EXCEPT ![a] = j]
  PROVE  JobTypes' /\ job'[a] = j /\ \A b \in Actor : b # a => job'[b] = job[b]
BY DEF JobTypes

\* What a step of the one who decides makes of his decision.
Moves(a, at, to) ==
  /\ JobTypes'
  /\ job'[a].at = at /\ job'[a].to = to /\ job'[a].file = job[a].file
  /\ job'[a].from = job[a].from /\ job'[a].result = job[a].result
  /\ \A b \in Actor : b # a => job'[b] = job[b]

LEMMA Moved ==
  ASSUME TypeOK, NEW a \in Actor, job[a].at # "idle", NEW to \in Status, NEW at \in Stage,
         job' = [job EXCEPT ![a] = Step(job[a], at, to)]
  PROVE  Moves(a, at, to)
<1>1. job[a] \in Jobs
  BY JobOf
<1>2. PICK s \in Jobs :
        /\ s = Step(job[a], at, to) /\ s.at = at /\ s.to = to /\ s.file = job[a].file
        /\ s.from = job[a].from /\ s.result = job[a].result
  BY <1>1, Stepped
<1>3. JobTypes' /\ job'[a] = s /\ \A b \in Actor : b # a => job'[b] = job[b]
  BY <1>2, Employ DEF TypeOK, JobTypes
<1> QED
  BY <1>2, <1>3 DEF Moves

\* A decision begun, or given up.
Becomes(a, j) ==
  JobTypes' /\ job'[a] = j /\ \A b \in Actor : b # a => job'[b] = job[b]

LEMMA Begun ==
  ASSUME TypeOK, NEW a \in Actor, NEW f \in File, NEW from \in Status, NEW to \in Status,
         NEW at \in {"picked", "write"},
         job' = [job EXCEPT ![a] = [at |-> at, file |-> f, from |-> from, to |-> to,
                                    result |-> "unknown"]]
  PROVE  /\ JobTypes' /\ job'[a].at = at /\ job'[a].file = f
         /\ job'[a].from = from /\ job'[a].to = to
         /\ \A b \in Actor : b # a => job'[b] = job[b]
<1> DEFINE j == [at |-> at, file |-> f, from |-> from, to |-> to, result |-> "unknown"]
<1>1. j \in Jobs
  BY DEF Jobs, Result
<1> QED
  BY <1>1, Employ DEF TypeOK, JobTypes

LEMMA Dropped ==
  ASSUME TypeOK, NEW a \in Actor, job' = [job EXCEPT ![a] = NoJob]
  PROVE  Becomes(a, NoJob) /\ job'[a].at = "idle"
BY Employ DEF TypeOK, JobTypes, Becomes, NoJob

LEMMA FinishWriteMoves ==
  ASSUME TypeOK, NEW a \in Actor, FinishWrite(a)
  PROVE  \E to \in Status :
           /\ Moves(a, "commit", to)
           /\ \/ to = "published" /\ job[a].to = "published" /\ WritePublic(job[a].file)
              \/ to # "published" /\ UNCHANGED <<public, aged, excused>>
<1>1. job[a].at # "idle" /\ job[a].to \in Status
  BY JobOf DEF FinishWrite
<1>2. CASE /\ job[a].to = "published" /\ WritePublic(job[a].file)
           /\ job' = [job EXCEPT ![a] = Step(job[a], "commit", "published")]
  <2>1. "published" \in Status
    BY DEF Status, Terminal
  <2>2. Moves(a, "commit", "published")
    BY <1>1, <1>2, <2>1, Moved DEF Stage
  <2> QED
    BY <1>2, <2>1, <2>2
<1>3. CASE \E to \in Status \ {"published"} :
             /\ job' = [job EXCEPT ![a] = Step(job[a], "commit", to)]
             /\ UNCHANGED <<public, aged, excused>>
  <2>1. PICK to \in Status \ {"published"} :
          /\ job' = [job EXCEPT ![a] = Step(job[a], "commit", to)]
          /\ UNCHANGED <<public, aged, excused>>
    BY <1>3
  <2>2. Moves(a, "commit", to)
    BY <1>1, <2>1, Moved DEF Stage
  <2> QED
    BY <2>1, <2>2
<1> QED
  BY <1>1, <1>2, <1>3 DEF FinishWrite, Unreleasable, Status, Held

LEMMA ClaimMoves ==
  ASSUME TypeOK, Claim
  PROVE  \/ Becomes("worker", NoJob) /\ processing' = processing
         \/ Moves("worker", "scanning", "pending") /\ processing' = processing
         \/ \E to \in Status :
              /\ Moves("worker", "write", to) /\ processing' = "worker"
              /\ status[job["worker"].file] = "pending"
              /\ to = "published" => /\ ~Unlicensed(job["worker"].file)
                                     /\ Decision(job["worker"].file, job["worker"].result)
                                          = "published"
<1>1. "worker" \in Actor /\ job["worker"].at # "idle"
  BY DEF Claim, Actor
<1> DEFINE f == job["worker"].file
           r == job["worker"].result
           Goes(at, to) == job' = [job EXCEPT !["worker"] = Step(job["worker"], at, to)]
<1>2. CASE job' = [job EXCEPT !["worker"] = NoJob] /\ UNCHANGED processing
  BY <1>1, <1>2, Dropped
<1>3. CASE Goes("scanning", "pending") /\ UNCHANGED processing
  <2>1. "pending" \in Status
    BY DEF Status, Held
  <2> QED
    BY <1>1, <1>3, <2>1, Moved DEF Stage
<1>4. CASE /\ status[f] = "pending" /\ Goes("write", HoldFor(f)) /\ processing' = "worker"
  <2>1. HoldFor(f) \in Status \ {"published"}
    BY DEF HoldFor, Status, Held, Terminal
  <2>2. Moves("worker", "write", HoldFor(f))
    BY <1>1, <1>4, <2>1, Moved DEF Stage
  <2> QED
    BY <1>4, <2>1, <2>2
<1>5. CASE /\ status[f] = "pending" /\ ~OnHold(f)
           /\ Goes("write", Decision(f, r)) /\ processing' = "worker"
  <2>1. Decision(f, r) \in Status
    BY DEF Decision, Status, Held, Terminal
  <2>2. Moves("worker", "write", Decision(f, r))
    BY <1>1, <1>5, <2>1, Moved DEF Stage
  <2>3. ~Unlicensed(f)
    BY <1>5 DEF OnHold
  <2> QED
    BY <1>5, <2>1, <2>2, <2>3
<1> QED
  BY <1>2, <1>3, <1>4, <1>5 DEF Claim

-----------------------------------------------------------------------------
(* The steps that leave the decisions alone: requests, moderators' orders,  *)
(* deletions, the drain, the sweep, time and the machine.                   *)
LEMMA AdmitSafe ==
  ASSUME Safe, NEW f \in File, NEW exempt \in BOOLEAN, Admit(f, exempt)
  PROVE  Safe'
<1>1. TypeOK'
  BY DEF Safe, TypeOK, Admit
<1>2. Locked'
  BY SentinelAssumption DEF Safe, Locked, TypeOK, Busy, Admit
<1>3. Fresh'
  BY DEF Safe, Fresh, TypeOK, Admit
<1>4. BytesFirst'
  BY DEF Safe, BytesFirst, TypeOK, Admit
<1>5. (HeldIsHidden /\ EvidenceKept /\ ListedIsThere /\ LeftoversListed
      /\ Current /\ Lawful /\ LiveSeen)'
  BY DEF Safe, HeldIsHidden, EvidenceKept, ListedIsThere, LeftoversListed,
     Current, Lawful, LiveSeen, Unlicensed, Decision, Action, HashFires, Admit
<1> QED
  BY <1>1, <1>2, <1>3, <1>4, <1>5 DEF Safe

LEMMA WritePrivateSafe ==
  ASSUME Safe, NEW f \in File, WritePrivate(f)
  PROVE  Safe'
<1>1. TypeOK'
  BY DEF Safe, TypeOK, WritePrivate
<1>2. EvidenceKept'
  BY DEF Safe, EvidenceKept, WritePrivate
<1>3. LeftoversListed'
  BY DEF Safe, LeftoversListed, Fresh, WritePrivate
<1>4. Locked'
  BY DEF Safe, Locked, Busy, WritePrivate
<1>5. Fresh'
  BY DEF Safe, Fresh, WritePrivate
<1>6. BytesFirst'
  BY DEF Safe, BytesFirst, WritePrivate
<1>7. (HeldIsHidden /\ ListedIsThere /\ Current /\ Lawful /\ LiveSeen)'
  BY DEF Safe, HeldIsHidden, ListedIsThere, Current, Lawful, LiveSeen,
     Unlicensed, Decision, Action, HashFires, WritePrivate
<1> QED
  BY <1>1, <1>2, <1>3, <1>4, <1>5, <1>6, <1>7 DEF Safe

LEMMA CommitRowSafe ==
  ASSUME Safe, NEW f \in File, CommitRow(f)
  PROVE  Safe'
<1>1. TypeOK'
  BY DEF Safe, TypeOK, Status, Held, CommitRow
<1>2. HeldIsHidden'
  BY DEF Safe, HeldIsHidden, Fresh, CommitRow
<1>3. EvidenceKept'
  BY DEF Safe, EvidenceKept, BytesFirst, CommitRow
<1>4. LeftoversListed'
  BY DEF Safe, LeftoversListed, Held, CommitRow
<1>5. Locked'
  BY SentinelAssumption DEF Safe, Locked, TypeOK, Busy, CommitRow
<1>6. Current'
  BY DEF Safe, Current, Fresh, TypeOK, Jobs, NoJob, Status, Held, Terminal,
     Actor, CommitRow
<1>7. Fresh'
  BY DEF Safe, Fresh, TypeOK, CommitRow
<1>8. BytesFirst'
  BY DEF Safe, BytesFirst, CommitRow
<1>9. (ListedIsThere /\ Lawful /\ LiveSeen)'
  BY DEF Safe, ListedIsThere, Lawful, LiveSeen, Unlicensed, Decision, Action,
     HashFires, CommitRow
<1> QED
  BY <1>1, <1>2, <1>3, <1>4, <1>5, <1>6, <1>7, <1>8, <1>9 DEF Safe

LEMMA EnqueueFailsSafe ==
  ASSUME Safe, NEW f \in File, EnqueueFails(f)
  PROVE  Safe'
<1>1. TypeOK'
  BY DEF Safe, TypeOK, Fresh, EnqueueFails
<1>2. EvidenceKept'
  BY DEF Safe, EvidenceKept, Fresh, Held, EnqueueFails
<1>3. LeftoversListed'
  BY DEF Safe, LeftoversListed, EnqueueFails
<1>4. Locked'
  BY SentinelAssumption DEF Safe, Locked, TypeOK, Busy, EnqueueFails
<1>5. Fresh'
  BY DEF Safe, Fresh, TypeOK, EnqueueFails
<1>6. BytesFirst'
  BY DEF Safe, BytesFirst, Fresh, Current, Locked, TypeOK, Held, EnqueueFails
<1>7. (HeldIsHidden /\ ListedIsThere /\ Current /\ Lawful /\ LiveSeen)'
  BY DEF Safe, HeldIsHidden, ListedIsThere, Current, Lawful, LiveSeen,
     Unlicensed, Decision, Action, HashFires, EnqueueFails
<1> QED
  BY <1>1, <1>2, <1>3, <1>4, <1>5, <1>6, <1>7 DEF Safe

LEMMA SaveAttachmentSafe ==
  ASSUME Safe, NEW f \in File, SaveAttachment(f)
  PROVE  Safe'
<1>1. TypeOK'
  BY DEF Safe, TypeOK, SaveAttachment, WritePublic
<1>2. ListedIsThere'
  BY DEF Safe, ListedIsThere, SaveAttachment, WritePublic
<1>3. Locked'
  BY DEF Safe, Locked, Busy, SaveAttachment, WritePublic
<1>4. Fresh'
  BY DEF Safe, Fresh, SaveAttachment, WritePublic
<1>5. BytesFirst'
  BY DEF Safe, BytesFirst, SaveAttachment, WritePublic
<1>6. (HeldIsHidden /\ EvidenceKept /\ LeftoversListed /\ Current /\ Lawful
      /\ LiveSeen)'
  BY DEF Safe, HeldIsHidden, EvidenceKept, LeftoversListed, Current, Lawful,
     LiveSeen, Unlicensed, Decision, Action, HashFires, SaveAttachment,
     WritePublic
<1> QED
  BY <1>1, <1>2, <1>3, <1>4, <1>5, <1>6 DEF Safe

LEMMA InsertAttachmentSafe ==
  ASSUME Safe, NEW f \in File, InsertAttachment(f)
  PROVE  Safe'
<1>1. TypeOK'
  BY DEF Safe, TypeOK, InsertAttachment
<1>2. HeldIsHidden'
  BY DEF Safe, HeldIsHidden, Fresh, InsertAttachment
<1>3. ListedIsThere'
  BY DEF Safe, ListedIsThere, BytesFirst, InsertAttachment
<1>4. Locked'
  BY DEF Safe, Locked, Busy, InsertAttachment
<1>5. Fresh'
  BY DEF Safe, Fresh, TypeOK, InsertAttachment
<1>6. BytesFirst'
  BY DEF Safe, BytesFirst, InsertAttachment
<1>7. LiveSeen'
  BY DEF Safe, LiveSeen, Fresh, InsertAttachment
<1>8. (EvidenceKept /\ LeftoversListed /\ Current /\ Lawful)'
  BY DEF Safe, EvidenceKept, LeftoversListed, Current, Lawful, Unlicensed,
     Decision, Action, HashFires, InsertAttachment
<1> QED
  BY <1>1, <1>2, <1>3, <1>4, <1>5, <1>6, <1>7, <1>8 DEF Safe

LEMMA ClearOriginalSafe ==
  ASSUME Safe, NEW f \in File, ClearOriginal(f)
  PROVE  Safe'
<1>1. TypeOK'
  BY DEF Safe, TypeOK, ClearOriginal
<1>2. EvidenceKept'
  BY DEF Safe, EvidenceKept, Held, Terminal, ClearOriginal
<1>3. LeftoversListed'
  BY DEF Safe, LeftoversListed, ClearOriginal
<1>4. Fresh'
  BY DEF Safe, Fresh, Terminal, ClearOriginal
<1>5. BytesFirst'
  BY SentinelAssumption DEF Safe, BytesFirst, Fresh, Locked, Busy, Actor,
     Terminal, ClearOriginal
<1>6. (HeldIsHidden /\ ListedIsThere /\ Locked /\ Current /\ Lawful
      /\ LiveSeen)'
  BY DEF Safe, HeldIsHidden, ListedIsThere, Locked, Current, Lawful, LiveSeen,
     Busy, Unlicensed, Decision, Action, HashFires, ClearOriginal
<1> QED
  BY <1>1, <1>2, <1>3, <1>4, <1>5, <1>6 DEF Safe

LEMMA ReconcileOrphansSafe ==
  ASSUME Safe, NEW f \in File, ReconcileOrphans(f)
  PROVE  Safe'
<1>1. TypeOK'
  BY DEF Safe, TypeOK, ReconcileOrphans
<1>2. EvidenceKept'
  BY DEF Safe, EvidenceKept, Held, ReconcileOrphans
<1>3. LeftoversListed'
  BY DEF Safe, LeftoversListed, ReconcileOrphans
<1>4. BytesFirst'
  BY SentinelAssumption DEF Safe, BytesFirst, Locked, Current, Held,
     ReconcileOrphans
<1>5. (HeldIsHidden /\ ListedIsThere /\ Locked /\ Current /\ Lawful /\ Fresh
      /\ LiveSeen)'
  BY DEF Safe, HeldIsHidden, ListedIsThere, Locked, Current, Lawful, Fresh,
     LiveSeen, Busy, Unlicensed, Decision, Action, HashFires, ReconcileOrphans
<1> QED
  BY <1>1, <1>2, <1>3, <1>4, <1>5 DEF Safe

LEMMA BlockSafe ==
  ASSUME Safe, NEW f \in File, Block(f)
  PROVE  Safe'
<1>1. TypeOK'
  BY BoundsAssumption DEF Safe, TypeOK, Block, Changing
<1>2. Lawful'
  BY SentinelAssumption DEF Safe, Lawful, Locked, Busy, Actor, Block, Changing
<1>3. (HeldIsHidden /\ EvidenceKept /\ ListedIsThere /\ LeftoversListed
      /\ Locked /\ Current /\ Fresh /\ BytesFirst /\ LiveSeen)'
  BY DEF Safe, HeldIsHidden, EvidenceKept, ListedIsThere, LeftoversListed,
     Locked, Current, Fresh, BytesFirst, LiveSeen, Busy, Block, Changing
<1> QED
  BY <1>1, <1>2, <1>3 DEF Safe

LEMMA UnblockSafe ==
  ASSUME Safe, NEW f \in File, Unblock(f)
  PROVE  Safe'
<1>1. TypeOK'
  BY DEF Safe, TypeOK, Unblock
<1>2. Lawful'
  BY SentinelAssumption DEF Safe, Lawful, Locked, Busy, Actor, Unblock
<1>3. (HeldIsHidden /\ EvidenceKept /\ ListedIsThere /\ LeftoversListed
      /\ Locked /\ Current /\ Fresh /\ BytesFirst /\ LiveSeen)'
  BY DEF Safe, HeldIsHidden, EvidenceKept, ListedIsThere, LeftoversListed,
     Locked, Current, Fresh, BytesFirst, LiveSeen, Busy, Unblock
<1> QED
  BY <1>1, <1>2, <1>3 DEF Safe

LEMMA LoseStandingSafe ==
  ASSUME Safe, NEW f \in File, LoseStanding(f)
  PROVE  Safe'
<1>1. TypeOK'
  BY BoundsAssumption DEF Safe, TypeOK, LoseStanding, Changing
<1>2. (HeldIsHidden /\ EvidenceKept /\ ListedIsThere /\ LeftoversListed
      /\ Locked /\ Current /\ Lawful /\ Fresh /\ BytesFirst /\ LiveSeen)'
  BY DEF Safe, HeldIsHidden, EvidenceKept, ListedIsThere, LeftoversListed,
     Locked, Current, Lawful, Fresh, BytesFirst, LiveSeen, Busy, Unlicensed,
     Decision, Action, HashFires, LoseStanding, Changing
<1> QED
  BY <1>1, <1>2 DEF Safe

LEMMA UnlinkAttachmentsSafe ==
  ASSUME Safe, NEW f \in File, UnlinkAttachments(f)
  PROVE  Safe'
<1>1. TypeOK'
  BY DEF Safe, TypeOK, UnlinkAttachments
<1>2. ListedIsThere'
  BY DEF Safe, ListedIsThere, UnlinkAttachments
<1>3. BytesFirst'
  BY DEF Safe, BytesFirst, UnlinkAttachments
<1>4. (HeldIsHidden /\ EvidenceKept /\ LeftoversListed /\ Locked /\ Current
      /\ Lawful /\ Fresh /\ LiveSeen)'
  BY DEF Safe, HeldIsHidden, EvidenceKept, LeftoversListed, Locked, Current,
     Lawful, Fresh, LiveSeen, Busy, Unlicensed, Decision, Action, HashFires,
     UnlinkAttachments
<1> QED
  BY <1>1, <1>2, <1>3, <1>4 DEF Safe

LEMMA DeleteMessageSafe ==
  ASSUME Safe, NEW f \in File, DeleteMessage(f)
  PROVE  Safe'
<1>1. TypeOK'
  BY DEF Safe, TypeOK, DeleteMessage, DropMessage
<1>2. HeldIsHidden'
  BY DEF Safe, HeldIsHidden, DeleteMessage, DropMessage
<1>3. ListedIsThere'
  BY DEF Safe, ListedIsThere, DeleteMessage, DropMessage
<1>4. Fresh'
  BY DEF Safe, Fresh, DeleteMessage, DropMessage
<1>5. LiveSeen'
  BY DEF Safe, LiveSeen, DeleteMessage, DropMessage
<1>6. (EvidenceKept /\ LeftoversListed /\ Locked /\ Current /\ Lawful
      /\ BytesFirst)'
  BY DEF Safe, EvidenceKept, LeftoversListed, Locked, Current, Lawful,
     BytesFirst, Busy, Unlicensed, Decision, Action, HashFires, DeleteMessage,
     DropMessage
<1> QED
  BY <1>1, <1>2, <1>3, <1>4, <1>5, <1>6 DEF Safe

LEMMA BulkDeleteSafe ==
  ASSUME Safe, NEW f \in File, BulkDelete(f)
  PROVE  Safe'
<1>1. TypeOK'
  BY DEF Safe, TypeOK, BulkDelete, DropMessage
<1>2. HeldIsHidden'
  BY DEF Safe, HeldIsHidden, BulkDelete, DropMessage
<1>3. ListedIsThere'
  BY DEF Safe, ListedIsThere, BulkDelete, DropMessage
<1>4. Fresh'
  BY DEF Safe, Fresh, BulkDelete, DropMessage
<1>5. LiveSeen'
  BY DEF Safe, LiveSeen, BulkDelete, DropMessage
<1>6. (EvidenceKept /\ LeftoversListed /\ Locked /\ Current /\ Lawful
      /\ BytesFirst)'
  BY DEF Safe, EvidenceKept, LeftoversListed, Locked, Current, Lawful,
     BytesFirst, Busy, Unlicensed, Decision, Action, HashFires, BulkDelete,
     DropMessage
<1> QED
  BY <1>1, <1>2, <1>3, <1>4, <1>5, <1>6 DEF Safe

LEMMA LookSafe ==
  ASSUME Safe, NEW f \in File, Look(f)
  PROVE  Safe'
<1>1. TypeOK'
  BY DEF Safe, TypeOK, Look, NoSweep
<1>2. (HeldIsHidden /\ EvidenceKept /\ ListedIsThere /\ LeftoversListed
      /\ Locked /\ Current /\ Lawful /\ Fresh /\ BytesFirst /\ LiveSeen)'
  BY DEF Safe, HeldIsHidden, EvidenceKept, ListedIsThere, LeftoversListed,
     Locked, Current, Lawful, Fresh, BytesFirst, LiveSeen, Busy, Unlicensed,
     Decision, Action, HashFires, Look, NoSweep
<1> QED
  BY <1>1, <1>2 DEF Safe

LEMMA FindRowSafe ==
  ASSUME Safe, FindRow
  PROVE  Safe'
<1>1. TypeOK'
  BY DEF Safe, TypeOK, FindRow, NoSweep
<1>2. (HeldIsHidden /\ EvidenceKept /\ ListedIsThere /\ LeftoversListed
      /\ Locked /\ Current /\ Lawful /\ Fresh /\ BytesFirst /\ LiveSeen)'
  BY DEF Safe, HeldIsHidden, EvidenceKept, ListedIsThere, LeftoversListed,
     Locked, Current, Lawful, Fresh, BytesFirst, LiveSeen, Busy, Unlicensed,
     Decision, Action, HashFires, FindRow, NoSweep
<1> QED
  BY <1>1, <1>2 DEF Safe

LEMMA SweepSafe ==
  ASSUME Safe, Sweep
  PROVE  Safe'
<1>1. TypeOK'
  BY DEF Safe, TypeOK, Sweep, NoSweep
<1>2. ListedIsThere'
  BY DEF Safe, ListedIsThere, Sweep, NoSweep
<1>3. BytesFirst'
  BY DEF Safe, BytesFirst, Sweep, NoSweep
<1>4. (HeldIsHidden /\ EvidenceKept /\ LeftoversListed /\ Locked /\ Current
      /\ Lawful /\ Fresh /\ LiveSeen)'
  BY DEF Safe, HeldIsHidden, EvidenceKept, LeftoversListed, Locked, Current,
     Lawful, Fresh, LiveSeen, Busy, Unlicensed, Decision, Action, HashFires,
     Sweep, NoSweep
<1> QED
  BY <1>1, <1>2, <1>3, <1>4 DEF Safe

LEMMA PassRetentionSafe ==
  ASSUME Safe, NEW f \in File, PassRetention(f)
  PROVE  Safe'
<1>1. TypeOK'
  BY DEF Safe, TypeOK, PassRetention
<1>2. (HeldIsHidden /\ EvidenceKept /\ ListedIsThere /\ LeftoversListed
      /\ Locked /\ Current /\ Lawful /\ Fresh /\ BytesFirst /\ LiveSeen)'
  BY DEF Safe, HeldIsHidden, EvidenceKept, ListedIsThere, LeftoversListed,
     Locked, Current, Lawful, Fresh, BytesFirst, LiveSeen, Busy, Unlicensed,
     Decision, Action, HashFires, PassRetention
<1> QED
  BY <1>1, <1>2 DEF Safe

LEMMA PassHourSafe ==
  ASSUME Safe, NEW f \in File, PassHour(f)
  PROVE  Safe'
<1>1. TypeOK'
  BY DEF Safe, TypeOK, PassHour
<1>2. (HeldIsHidden /\ EvidenceKept /\ ListedIsThere /\ LeftoversListed
      /\ Locked /\ Current /\ Lawful /\ Fresh /\ BytesFirst /\ LiveSeen)'
  BY DEF Safe, HeldIsHidden, EvidenceKept, ListedIsThere, LeftoversListed,
     Locked, Current, Lawful, Fresh, BytesFirst, LiveSeen, Busy, Unlicensed,
     Decision, Action, HashFires, PassHour
<1> QED
  BY <1>1, <1>2 DEF Safe

LEMMA SetPolicySafe ==
  ASSUME Safe, NEW p \in Policies, SetPolicy(p)
  PROVE  Safe'
<1>1. TypeOK'
  BY BoundsAssumption DEF Safe, TypeOK, SetPolicy, Changing
<1>2. Lawful'
  BY SentinelAssumption DEF Safe, Lawful, Locked, Busy, Actor, SetPolicy,
     Changing
<1>3. (HeldIsHidden /\ EvidenceKept /\ ListedIsThere /\ LeftoversListed
      /\ Locked /\ Current /\ Fresh /\ BytesFirst /\ LiveSeen)'
  BY DEF Safe, HeldIsHidden, EvidenceKept, ListedIsThere, LeftoversListed,
     Locked, Current, Fresh, BytesFirst, LiveSeen, Busy, SetPolicy, Changing
<1> QED
  BY <1>1, <1>2, <1>3 DEF Safe

LEMMA StartDrainSafe ==
  ASSUME Safe, StartDrain
  PROVE  Safe'
<1>1. TypeOK'
  BY DEF Safe, TypeOK, StartDrain
<1>2. Locked'
  BY SentinelAssumption DEF Safe, Locked, Busy, Actor, StartDrain
<1>3. Fresh'
  BY DEF Safe, Fresh, StartDrain
<1>4. LiveSeen'
  BY DEF Safe, LiveSeen, StartDrain
<1>5. (HeldIsHidden /\ EvidenceKept /\ ListedIsThere /\ LeftoversListed
      /\ Current /\ Lawful /\ BytesFirst)'
  BY DEF Safe, HeldIsHidden, EvidenceKept, ListedIsThere, LeftoversListed,
     Current, Lawful, BytesFirst, Unlicensed, Decision, Action, HashFires,
     StartDrain
<1> QED
  BY <1>1, <1>2, <1>3, <1>4, <1>5 DEF Safe

LEMMA DrainOneSafe ==
  ASSUME Safe, NEW f \in File, DrainOne(f)
  PROVE  Safe'
<1>1. TypeOK'
  BY DEF Safe, TypeOK, DrainOne, UnlinkDead
<1>2. ListedIsThere'
  BY DEF Safe, ListedIsThere, LiveSeen, TypeOK, DrainOne, UnlinkDead
<1>3. Locked'
  BY DEF Safe, Locked, TypeOK, Busy, Actor, DrainOne, UnlinkDead
<1>4. Fresh'
  BY DEF Safe, Fresh, DrainOne, UnlinkDead
<1>5. BytesFirst'
  BY DEF Safe, BytesFirst, Fresh, Locked, Actor, DrainOne, UnlinkDead
<1>6. LiveSeen'
  BY DEF Safe, LiveSeen, DrainOne, UnlinkDead
<1>7. (HeldIsHidden /\ EvidenceKept /\ LeftoversListed /\ Current /\ Lawful)'
  BY DEF Safe, HeldIsHidden, EvidenceKept, LeftoversListed, Current, Lawful,
     Unlicensed, Decision, Action, HashFires, DrainOne, UnlinkDead
<1> QED
  BY <1>1, <1>2, <1>3, <1>4, <1>5, <1>6, <1>7 DEF Safe

LEMMA CrashSafe ==
  ASSUME Safe, Crash
  PROVE  Safe'
<1>1. TypeOK'
  BY BoundsAssumption DEF Safe, TypeOK, Crash, NoSweep, NoDrain, NoJob
<1>2. Locked'
  BY DEF Safe, Locked, Busy, Crash, NoSweep, NoDrain, NoJob
<1>3. Current'
  BY DEF Safe, Current, Crash, NoSweep, NoDrain, NoJob
<1>4. Lawful'
  BY DEF Safe, Lawful, Busy, Actor, Crash, NoSweep, NoDrain, NoJob
<1>5. Fresh'
  BY DEF Safe, Fresh, Crash, NoSweep, NoDrain, NoJob
<1>6. BytesFirst'
  BY DEF Safe, BytesFirst, Crash, NoSweep, NoDrain, NoJob
<1>7. LiveSeen'
  BY DEF Safe, LiveSeen, Crash, NoSweep, NoDrain, NoJob
<1>8. (HeldIsHidden /\ EvidenceKept /\ ListedIsThere /\ LeftoversListed)'
  BY DEF Safe, HeldIsHidden, EvidenceKept, ListedIsThere, LeftoversListed,
     Crash, NoSweep, NoDrain, NoJob
<1> QED
  BY <1>1, <1>2, <1>3, <1>4, <1>5, <1>6, <1>7, <1>8 DEF Safe

-----------------------------------------------------------------------------
(* The worker takes a file up, and the reviewer.                            *)
LEMMA PickSafe ==
  ASSUME Safe, NEW f \in File, Pick(f)
  PROVE  Safe'
<1>1. "worker" \in Actor /\ "pending" \in Status
  BY DEF Actor, Status, Held
<1>2. job' = [job EXCEPT !["worker"] = [at |-> "picked", file |-> f, from |-> "pending",
                                        to |-> "pending", result |-> "unknown"]]
  BY DEF Pick
<1>3. /\ JobTypes' /\ job'["worker"].at = "picked" /\ job'["worker"].from = "pending"
      /\ \A b \in Actor : b # "worker" => job'[b] = job[b]
  <2> DEFINE j == [at |-> "picked", file |-> f, from |-> "pending", to |-> "pending",
                   result |-> "unknown"]
  <2>1. j \in Jobs
    BY <1>1 DEF Jobs, Result
  <2> QED
    BY <1>1, <1>2, <2>1, Employ DEF Safe, TypeOK, JobTypes
<1>4. TypeOK'
  BY <1>3 DEF Safe, TypeOK, JobTypes, Pick
<1>5. (Locked /\ Current /\ BytesFirst)'
  BY <1>3 DEF Safe, Locked, Current, BytesFirst, Busy, Pick
<1>6. Lawful'
  BY <1>3 DEF Lawful
<1>7. (HeldIsHidden /\ EvidenceKept /\ ListedIsThere /\ LeftoversListed /\ Fresh /\ LiveSeen)'
  BY DEF Safe, HeldIsHidden, EvidenceKept, ListedIsThere, LeftoversListed, Fresh, LiveSeen, Pick
<1> QED
  BY <1>4, <1>5, <1>6, <1>7 DEF Safe

LEMMA ExpireSafe ==
  ASSUME Safe, NEW f \in File, Expire(f)
  PROVE  Safe'
<1>1. "worker" \in Actor /\ status[f] \in Held /\ status[f] \in Status
      /\ "removed" \in Status /\ "published" \notin Held
  BY DEF Expire, Actor, Status, Held, Terminal
<1>2. /\ JobTypes' /\ job'["worker"].at = "write" /\ job'["worker"].file = f
      /\ job'["worker"].from = status[f] /\ job'["worker"].to = "removed"
      /\ \A b \in Actor : b # "worker" => job'[b] = job[b]
  BY <1>1, Begun DEF Safe, Expire
<1>3. \A a \in Actor : ~Busy(a)
  BY SentinelAssumption DEF Safe, Locked, Expire, Actor
<1>4. TypeOK'
  BY <1>2, <1>1 DEF Safe, TypeOK, JobTypes, Expire
<1>5. Locked'
  BY <1>2, <1>3 DEF Safe, Locked, Busy, Expire
<1>6. (Current /\ Lawful /\ BytesFirst)'
  BY <1>1, <1>2 DEF Safe, Current, Lawful, BytesFirst, Expire
<1>7. (HeldIsHidden /\ EvidenceKept /\ ListedIsThere /\ LeftoversListed /\ Fresh /\ LiveSeen)'
  BY DEF Safe, HeldIsHidden, EvidenceKept, ListedIsThere, LeftoversListed, Fresh, LiveSeen,
         Expire
<1> QED
  BY <1>4, <1>5, <1>6, <1>7 DEF Safe

LEMMA ReviewSafe ==
  ASSUME Safe, NEW f \in File, NEW next \in Status, Review(f, next)
  PROVE  Safe'
<1>1. "reviewer" \in Actor /\ status[f] \in Held \cup {"published"} /\ status[f] \in Status
      /\ "published" \notin Held
  BY DEF Review, Reviewable, Actor, Status, Held, Terminal
<1>2. /\ JobTypes' /\ job'["reviewer"].at = "write" /\ job'["reviewer"].file = f
      /\ job'["reviewer"].from = status[f] /\ job'["reviewer"].to = next
      /\ \A b \in Actor : b # "reviewer" => job'[b] = job[b]
  BY <1>1, Begun DEF Safe, Review
<1>3. \A a \in Actor : ~Busy(a)
  BY SentinelAssumption DEF Safe, Locked, Review, Actor
<1>4. private \subseteq private' /\ (status[f] = "published" => f \in private')
      /\ private' \subseteq private \cup {f}
  BY DEF Review, CopyBack
<1>5. TypeOK'
  BY <1>1, <1>2, <1>4, BoundsAssumption DEF Safe, TypeOK, JobTypes, Review
<1>6. Locked'
  BY <1>2, <1>3 DEF Safe, Locked, Busy, Review
<1>7. Current'
  BY <1>1, <1>2 DEF Safe, Current, Review
<1>8. Lawful'
  BY <1>2, <1>3 DEF Safe, Lawful, Busy, Review, Actor
<1>9. BytesFirst'
  BY <1>2, <1>4 DEF Safe, BytesFirst, Review
<1>10. EvidenceKept'
  BY <1>4 DEF Safe, EvidenceKept, Review
<1>11. LeftoversListed'
  BY DEF Safe, LeftoversListed, Review, CopyBack
<1>12. (HeldIsHidden /\ ListedIsThere /\ Fresh /\ LiveSeen)'
  BY DEF Safe, HeldIsHidden, ListedIsThere, Fresh, LiveSeen, Review
<1> QED
  BY <1>5, <1>6, <1>7, <1>8, <1>9, <1>10, <1>11, <1>12 DEF Safe

-----------------------------------------------------------------------------
(* The worker's claim and its scan.                                         *)
LEMMA ClaimSafe ==
  ASSUME Safe, Claim
  PROVE  Safe'
<1>1. "worker" \in Actor /\ job["worker"].at = "picked" /\ processing = Free
      /\ job["worker"].from = "pending"
  BY DEF Safe, Current, Claim, Actor
<1>2. \A a \in Actor : ~Busy(a)
  BY <1>1, SentinelAssumption DEF Safe, Locked, Actor
<1>3. (HeldIsHidden /\ EvidenceKept /\ ListedIsThere /\ LeftoversListed /\ Fresh /\ LiveSeen)'
  BY DEF Safe, HeldIsHidden, EvidenceKept, ListedIsThere, LeftoversListed, Fresh, LiveSeen,
         Claim
<1>4. JobTypes' /\ processing' \in {processing, "worker"}
  BY ClaimMoves DEF Safe, Moves, Becomes
<1>5. TypeOK'
  BY <1>1, <1>4 DEF Safe, TypeOK, JobTypes, Claim
<1>6. /\ \A a \in Actor \ {"worker"} : job'[a] = job[a]
      /\ \/ job'["worker"].at \in {"idle", "scanning"} /\ processing' = Free
            /\ (job'["worker"].at = "scanning" => job'["worker"].from = "pending")
         \/ /\ job'["worker"].at = "write" /\ processing' = "worker"
            /\ job'["worker"].from = "pending" /\ status[job'["worker"].file] = "pending"
            /\ (job'["worker"].to = "published" =>
                  /\ ~Unlicensed(job'["worker"].file)
                  /\ Decision(job'["worker"].file, job'["worker"].result) = "published")
  BY <1>1, ClaimMoves DEF Safe, Moves, Becomes, NoJob
<1>7. Locked'
  BY <1>2, <1>6 DEF Safe, Locked, Busy, Claim
<1>8. Current'
  BY <1>1, <1>6 DEF Safe, Current, Claim, Held
<1>9. Lawful'
  BY <1>6 DEF Lawful, Unlicensed, Decision, Action, HashFires, Claim
<1>10. BytesFirst'
  BY <1>6 DEF Safe, BytesFirst, Claim
<1> QED
  BY <1>3, <1>5, <1>7, <1>8, <1>9, <1>10 DEF Safe

LEMMA ScanMoves ==
  ASSUME TypeOK, NEW result \in {"clean", "match"}, Scan(result)
  PROVE  /\ JobTypes' /\ job'["worker"].at = "picked" /\ job'["worker"].from = job["worker"].from
         /\ \A b \in Actor : b # "worker" => job'[b] = job[b]
<1>1. "worker" \in Actor /\ job["worker"] \in Jobs
  BY JobOf DEF Scan, Actor
<1>2. PICK j \in Jobs : /\ j = [job["worker"] EXCEPT !.at = "picked", !.result = result]
                        /\ j.at = "picked" /\ j.from = job["worker"].from
  <2>1. \A j \in Jobs : LET k == [j EXCEPT !.at = "picked", !.result = result]
                       IN k \in Jobs /\ k.at = "picked" /\ k.from = j.from
    BY DEF Jobs, Result
  <2> QED
    BY <1>1, <2>1
<1>3. job' = [job EXCEPT !["worker"] = j]
  BY <1>2 DEF Scan
<1> QED
  BY <1>1, <1>2, <1>3, Employ DEF TypeOK, JobTypes

LEMMA ScanSafe ==
  ASSUME Safe, NEW result \in {"clean", "match"}, Scan(result)
  PROVE  Safe'
<1>1. /\ JobTypes' /\ job'["worker"].at = "picked" /\ job'["worker"].from = job["worker"].from
      /\ \A b \in Actor : b # "worker" => job'[b] = job[b]
  BY ScanMoves DEF Safe
<1>2. "worker" \in Actor /\ job["worker"].at = "scanning"
  BY DEF Scan, Actor
<1>3. TypeOK'
  BY <1>1 DEF Safe, TypeOK, JobTypes, Scan
<1>4. (Locked /\ Current /\ BytesFirst)'
  BY <1>1, <1>2 DEF Safe, Locked, Current, BytesFirst, Busy, Scan
<1>5. Lawful'
  BY <1>1 DEF Lawful
<1>6. (HeldIsHidden /\ EvidenceKept /\ ListedIsThere /\ LeftoversListed /\ Fresh /\ LiveSeen)'
  BY DEF Safe, HeldIsHidden, EvidenceKept, ListedIsThere, LeftoversListed, Fresh, LiveSeen, Scan
<1> QED
  BY <1>3, <1>4, <1>5, <1>6 DEF Safe

LEMMA ScanFailsSafe ==
  ASSUME Safe, ScanFails
  PROVE  Safe'
<1>1. "worker" \in Actor
  BY DEF Actor
<1>2. Becomes("worker", NoJob) /\ job'["worker"].at = "idle"
  BY <1>1, Dropped DEF Safe, ScanFails
<1>3. TypeOK'
  BY <1>2 DEF Safe, TypeOK, JobTypes, Becomes, ScanFails
<1>4. (Locked /\ Current /\ BytesFirst)'
  BY <1>2 DEF Safe, Locked, Current, BytesFirst, Busy, Becomes, ScanFails
<1>5. Lawful'
  BY <1>2 DEF Lawful
<1>6. (HeldIsHidden /\ EvidenceKept /\ ListedIsThere /\ LeftoversListed /\ Fresh /\ LiveSeen)'
  BY DEF Safe, HeldIsHidden, EvidenceKept, ListedIsThere, LeftoversListed, Fresh, LiveSeen,
         ScanFails
<1> QED
  BY <1>3, <1>4, <1>5, <1>6 DEF Safe
-----------------------------------------------------------------------------
(* Whoever decides: the public file, the transaction, the private file.     *)
LEMMA FinishWriteSafe ==
  ASSUME Safe, NEW a \in Actor, FinishWrite(a)
  PROVE  Safe'
<1>1. PICK to \in Status :
        /\ Moves(a, "commit", to)
        /\ \/ to = "published" /\ job[a].to = "published" /\ WritePublic(job[a].file)
           \/ to # "published" /\ UNCHANGED <<public, aged, excused>>
  BY FinishWriteMoves DEF Safe
<1>2. job[a].at = "write" /\ publication = Free /\ job[a].file \in File
  BY JobOf DEF Safe, FinishWrite
<1>3. TypeOK'
  BY <1>1, <1>2 DEF Safe, TypeOK, JobTypes, Moves, FinishWrite, WritePublic
<1>4. Locked'
  BY <1>1, <1>2, SentinelAssumption DEF Safe, Locked, Busy, Moves, FinishWrite, Actor
<1>5. Current'
  BY <1>1, <1>2 DEF Safe, Current, Moves, FinishWrite
<1>6. Lawful'
  BY <1>1, <1>2 DEF Safe, Lawful, Moves, FinishWrite, Unlicensed, Decision, Action, HashFires,
                    Actor
<1>7. BytesFirst'
  BY <1>1, <1>2 DEF Safe, BytesFirst, Moves, FinishWrite, WritePublic
<1>8. ListedIsThere'
  BY <1>1 DEF Safe, ListedIsThere, FinishWrite, WritePublic
<1>9. (HeldIsHidden /\ EvidenceKept /\ LeftoversListed /\ Fresh /\ LiveSeen)'
  BY DEF Safe, HeldIsHidden, EvidenceKept, LeftoversListed, Fresh, LiveSeen, FinishWrite
<1> QED
  BY <1>3, <1>4, <1>5, <1>6, <1>7, <1>8, <1>9 DEF Safe

LEMMA FinishUnlinkSafe ==
  ASSUME Safe, NEW a \in Actor, FinishUnlink(a)
  PROVE  Safe'
<1>1. Becomes(a, NoJob) /\ job'[a].at = "idle"
  BY Dropped DEF Safe, FinishUnlink, Drop
<1>2. /\ job[a].at = "unlink" /\ processing = a /\ publication = a
      /\ status[job[a].file] = job[a].to /\ job[a].file \in File
  BY JobOf DEF Safe, FinishUnlink, Locked, Busy, Current
<1>3. \A b \in Actor : b # a => ~Busy(b)
  BY <1>2 DEF Safe, Locked
<1>4. /\ private' \subseteq private
      /\ \A f \in private \ private' : f = job[a].file /\ status[f] \in Terminal
  BY <1>2 DEF FinishUnlink
<1>5. TypeOK'
  BY <1>1, <1>4 DEF Safe, TypeOK, JobTypes, Becomes, FinishUnlink, Drop
<1>6. Locked'
  BY <1>1, <1>2, <1>3, SentinelAssumption
     DEF Safe, Locked, Busy, Becomes, FinishUnlink, Drop, Actor
<1>7. Current'
  BY <1>1 DEF Safe, Current, Becomes, FinishUnlink
<1>8. Lawful'
  BY <1>1, <1>3 DEF Safe, Lawful, Busy, Becomes, Actor
<1>9. EvidenceKept'
  BY <1>4 DEF Safe, EvidenceKept, FinishUnlink, Held, Terminal
<1>10. BytesFirst'
  BY <1>1, <1>3, <1>4 DEF Safe, BytesFirst, Busy, Fresh, Becomes, FinishUnlink, Terminal
<1>11. LeftoversListed'
  BY <1>4 DEF Safe, LeftoversListed, FinishUnlink
<1>12. (HeldIsHidden /\ ListedIsThere /\ Fresh /\ LiveSeen)'
  BY DEF Safe, HeldIsHidden, ListedIsThere, Fresh, LiveSeen, FinishUnlink
<1> QED
  BY <1>5, <1>6, <1>7, <1>8, <1>9, <1>10, <1>11, <1>12 DEF Safe

\* The transaction that finds its file as it was.
LEMMA DecideSafe ==
  ASSUME Safe, NEW a \in Actor, FinishCommit(a), Decide(a, job[a].file),
         job' = [job EXCEPT ![a] = Step(job[a], "unlink", job[a].to)],
         UNCHANGED <<publication, processing>>,
         job[a].to = "published" => job[a].file \in message
  PROVE  Safe'
<1> DEFINE f == job[a].file
           to == job[a].to
<1>1. /\ job[a].at = "commit" /\ f \in File /\ to \in Status /\ job[a].at # "idle"
      /\ processing = a /\ publication = a
      /\ status[f] = job[a].from /\ job[a].from \in Held \cup {"published"}
  BY JobOf DEF Safe, FinishCommit, Locked, Busy, Current
<1>2. Moves(a, "unlink", to)
  BY <1>1, Moved DEF Safe, Stage
<1>3. \A b \in Actor : b # a => ~Busy(b)
  BY <1>1 DEF Safe, Locked
<1> HIDE DEF f, to
<1>4. /\ status' = [status EXCEPT ![f] = to] /\ status' \in [File -> Status \cup {"none"}]
      /\ \A g \in File : g # f => status'[g] = status[g]
      /\ status'[f] = to
  BY <1>1 DEF Safe, TypeOK, Decide, f, to
<1>5. /\ f \in rows' <=> to = "published"
      /\ \A g : g # f => (g \in rows' <=> g \in rows)
      /\ queue' = queue \cup (rows \ rows')
  BY <1>1 DEF Safe, Decide, WithdrawnRows, HeldIsHidden, Held, f, to
<1>6. TypeOK'
  <2>1. TypeOK /\ JobTypes'
    BY <1>2 DEF Safe, Moves
  <2>2. rows' \subseteq message' /\ queue' \subseteq File
    BY <1>1, <1>5, <2>1 DEF TypeOK, FinishCommit, f, to
  <2>3. /\ cleared' \subseteq File /\ expired' \subseteq File
        /\ reheld' \subseteq File /\ copied' \subseteq File
    BY <1>1, <2>1 DEF TypeOK, Decide, Uncleared, f
  <2> QED
    BY <1>4, <2>1, <2>2, <2>3 DEF TypeOK, JobTypes, FinishCommit
<1>7. HeldIsHidden'
  BY <1>4, <1>5, <1>6 DEF Safe, HeldIsHidden, TypeOK
<1>8. EvidenceKept'
  BY <1>1, <1>4 DEF Safe, EvidenceKept, BytesFirst, FinishCommit, f
<1>9. ListedIsThere'
  BY <1>1, <1>5 DEF Safe, ListedIsThere, BytesFirst, FinishCommit, f, to
<1>10. LeftoversListed'
  BY <1>4 DEF Safe, LeftoversListed, FinishCommit, Decide, Uncleared, TypeOK, f
<1>11. Locked'
  BY <1>1, <1>2 DEF Safe, Locked, Busy, Moves, FinishCommit
<1>12. Current'
  BY <1>1, <1>2, <1>3, <1>4, JobOf DEF Safe, Current, Busy, Moves, f, to
<1>13. Lawful'
  BY <1>2, <1>3 DEF Safe, Lawful, Busy, Moves, Actor
<1>14. Fresh'
  BY <1>1, <1>4, <1>5, <1>6 DEF Safe, Fresh, TypeOK, FinishCommit, Decide, Uncleared, Held,
                                Status, Terminal, f
<1>15. BytesFirst'
  BY <1>2, <1>3 DEF Safe, BytesFirst, Busy, Moves, FinishCommit
<1>16. LiveSeen'
  BY <1>1, <1>5, SentinelAssumption DEF Safe, LiveSeen, Locked, FinishCommit, Actor
<1> QED
  BY <1>6, <1>7, <1>8, <1>9, <1>10, <1>11, <1>12, <1>13, <1>14, <1>15, <1>16 DEF Safe

LEMMA FinishCommitSafe ==
  ASSUME Safe, NEW a \in Actor, FinishCommit(a)
  PROVE  Safe'
<1>1. CASE /\ Decide(a, job[a].file)
           /\ job' = [job EXCEPT ![a] = Step(job[a], "unlink", job[a].to)]
           /\ job[a].to = "published" => job[a].file \in message
           /\ UNCHANGED <<publication, processing>>
  BY <1>1, DecideSafe
<1>2. CASE /\ Drop(a) /\ publication' = Free
           /\ UNCHANGED <<status, cleared, rows, queue, expired, reheld, copied>>
  <2>1. Becomes(a, NoJob) /\ job'[a].at = "idle"
    BY <1>2, Dropped DEF Safe, Drop
  <2>2. job[a].at = "commit" /\ processing = a /\ publication = a
    BY DEF Safe, FinishCommit, Locked, Busy
  <2>3. TypeOK'
    BY <1>2, <2>1 DEF Safe, TypeOK, JobTypes, Becomes, FinishCommit, Drop
  <2>4. Locked'
    BY <1>2, <2>1, <2>2, SentinelAssumption
       DEF Safe, Locked, Busy, Becomes, FinishCommit, Drop, Actor
  <2>5. (Current /\ BytesFirst)'
    BY <1>2, <2>1 DEF Safe, Current, BytesFirst, Becomes, FinishCommit
  <2>6. Lawful'
    BY <2>1, <2>2 DEF Safe, Lawful, Locked, Busy, Becomes, Actor
  <2>7. (HeldIsHidden /\ EvidenceKept /\ ListedIsThere /\ LeftoversListed /\ Fresh /\ LiveSeen)'
    BY <1>2 DEF Safe, HeldIsHidden, EvidenceKept, ListedIsThere, LeftoversListed, Fresh,
                LiveSeen, FinishCommit
  <2> QED
    BY <2>3, <2>4, <2>5, <2>6, <2>7 DEF Safe
<1> QED
  BY <1>1, <1>2 DEF FinishCommit

-----------------------------------------------------------------------------
(* The places of the queue.                                                 *)
Counted == HeldFiles \ reheld
Entering == {f \in File : upload[f] \in {"write", "commit"}}

LEMMA FewerCounted ==
  ASSUME NEW S \in SUBSET File, NEW T \in SUBSET S
  PROVE  Cardinality(T) <= Cardinality(S) /\ Cardinality(S) \in Nat /\ Cardinality(T) \in Nat
<1>1. IsFiniteSet(S) /\ IsFiniteSet(T)
  BY FilesAssumption, FS_Subset
<1> QED
  BY <1>1, FS_Subset, FS_CardinalityType

\* Nothing enters, and nothing more is counted.
LEMMA PlacesLeft ==
  ASSUME PlaceKept, HeldBudget, Counted' \subseteq Counted, Entering' \subseteq Entering
  PROVE  (PlaceKept /\ HeldBudget)'
<1>1. Counted \subseteq File
  BY DEF Counted, HeldFiles
<1>2. HeldBudget'
  BY <1>1, FewerCounted, FilesAssumption DEF HeldBudget, Counted
<1>3. ASSUME NEW f \in File, f \in Entering'
      PROVE  Cardinality(Counted' \cup {f}) <= MaxHeld
  <2>1. Cardinality(Counted \cup {f}) <= MaxHeld
    BY <1>3 DEF PlaceKept, Entering, Counted
  <2>2. Cardinality(Counted' \cup {f}) <= Cardinality(Counted \cup {f})
        /\ Cardinality(Counted' \cup {f}) \in Nat /\ Cardinality(Counted \cup {f}) \in Nat
    BY <1>1, FewerCounted
  <2> QED
    BY <2>1, <2>2, FilesAssumption
<1> QED
  BY <1>2, <1>3 DEF PlaceKept, Entering, Counted

LEMMA AdmitPlaces ==
  ASSUME Safe, PlaceKept, HeldBudget, NEW f \in File, NEW exempt \in BOOLEAN, Admit(f, exempt)
  PROVE  (PlaceKept /\ HeldBudget)'
<1>1. Counted' = Counted /\ HeldFiles \subseteq File
  BY DEF Admit, Counted, HeldFiles
<1>2. HeldBudget'
  BY <1>1 DEF HeldBudget, Counted
<1>3. Entering = {}
  BY SentinelAssumption DEF Safe, Locked, Admit, Entering
<1>4. Entering' \subseteq {f} /\ (Entering' # {} => Fits)
  BY <1>3 DEF Safe, TypeOK, Admit, Passes, Entering
<1>5. Fits => Cardinality(Counted \cup {f}) <= MaxHeld
  <2>1. IsFiniteSet(HeldFiles) /\ Cardinality(HeldFiles) \in Nat
    BY <1>1, FilesAssumption, FS_Subset, FS_CardinalityType
  <2>2. Cardinality(HeldFiles \cup {f}) <= Cardinality(HeldFiles) + 1
    <3>1. Cardinality(HeldFiles \cup {f}) \in {Cardinality(HeldFiles), Cardinality(HeldFiles) + 1}
      BY <2>1, FS_AddElement, Zenon
    <3> QED
      BY <2>1, <3>1
  <2>3. Cardinality(Counted \cup {f}) <= Cardinality(HeldFiles \cup {f})
        /\ Cardinality(Counted \cup {f}) \in Nat /\ Cardinality(HeldFiles \cup {f}) \in Nat
    BY <1>1, FewerCounted DEF Counted
  <2> QED
    BY <2>1, <2>2, <2>3, FilesAssumption DEF Fits
<1> QED
  BY <1>1, <1>2, <1>4, <1>5 DEF PlaceKept, Entering, Counted

LEMMA CommitRowPlaces ==
  ASSUME Safe, PlaceKept, HeldBudget, NEW f \in File, CommitRow(f)
  PROVE  (PlaceKept /\ HeldBudget)'
<1>1. Counted' \subseteq Counted \cup {f} /\ Counted \cup {f} \subseteq File
  BY DEF Safe, TypeOK, CommitRow, Counted, HeldFiles
<1>2. Cardinality(Counted \cup {f}) <= MaxHeld
  BY DEF PlaceKept, CommitRow, Counted
<1>3. HeldBudget'
  BY <1>1, <1>2, FewerCounted, FilesAssumption DEF HeldBudget, Counted
<1>4. Entering' = {}
  BY DEF Safe, Locked, TypeOK, CommitRow, Entering
<1> QED
  BY <1>3, <1>4 DEF PlaceKept, Entering

LEMMA FinishCommitPlaces ==
  ASSUME Safe, NEW a \in Actor, FinishCommit(a)
  PROVE  Counted' \subseteq Counted /\ Entering' = Entering
<1>1. Entering' = Entering
  BY DEF FinishCommit, Entering
<1>2. CASE UNCHANGED <<status, reheld>>
  BY <1>1, <1>2 DEF Counted, HeldFiles
<1>3. CASE Decide(a, job[a].file)
  <2>1. status[job[a].file] = job[a].from /\ job[a].from \in Held \cup {"published"}
    BY DEF Safe, Current, FinishCommit
  <2> QED
    BY <1>1, <1>3, <2>1 DEF Safe, TypeOK, Decide, Counted, HeldFiles
<1> QED
  BY <1>2, <1>3 DEF FinishCommit

\* Three steps aside, no step changes a status or lets a file enter.
Quiet == UNCHANGED <<status, reheld>> /\ Entering' \subseteq Entering

LEMMA OthersAreQuiet ==
  ASSUME Safe, Next
  PROVE  \/ \E f \in File, exempt \in BOOLEAN : Admit(f, exempt)
         \/ \E f \in File : CommitRow(f)
         \/ \E a \in Actor : FinishCommit(a)
         \/ Quiet
<1>1. CASE \E f \in File : \/ WritePrivate(f) \/ EnqueueFails(f) \/ SaveAttachment(f)
                           \/ InsertAttachment(f)
  BY <1>1 DEF Safe, TypeOK, Quiet, Entering, WritePrivate, EnqueueFails, SaveAttachment,
              InsertAttachment
<1>2. CASE Crash
  BY <1>2 DEF Quiet, Entering, Crash
<1>3. CASE UNCHANGED <<status, reheld, upload>>
  BY <1>3 DEF Quiet, Entering
<1>4. CASE \E f \in File : \/ Pick(f) \/ Expire(f) \/ ClearOriginal(f) \/ ReconcileOrphans(f)
                           \/ \E next \in Status : Review(f, next)
  BY <1>3, <1>4 DEF Pick, Expire, ClearOriginal, ReconcileOrphans, Review
<1>5. CASE \E f \in File : Block(f) \/ Unblock(f) \/ LoseStanding(f)
  BY <1>3, <1>5 DEF Block, Unblock, LoseStanding
<1>6. CASE \E f \in File : UnlinkAttachments(f) \/ DeleteMessage(f) \/ BulkDelete(f)
  BY <1>3, <1>6 DEF UnlinkAttachments, DeleteMessage, BulkDelete
<1>7. CASE \E f \in File : Look(f) \/ FindRow \/ Sweep \/ PassRetention(f) \/ PassHour(f)
  BY <1>3, <1>7 DEF Look, FindRow, Sweep, PassRetention, PassHour
<1>8. CASE Claim \/ ScanFails \/ \E result \in {"clean", "match"} : Scan(result)
  BY <1>3, <1>8 DEF Claim, ScanFails, Scan
<1>9. CASE \E a \in Actor : FinishWrite(a) \/ FinishUnlink(a)
  BY <1>3, <1>9 DEF FinishWrite, FinishUnlink
<1>10. CASE (\E p \in Policies : SetPolicy(p)) \/ Drains
  BY <1>3, <1>10 DEF SetPolicy, Drains, StartDrain, DrainOne
<1> QED
  BY <1>1, <1>2, <1>4, <1>5, <1>6, <1>7, <1>8, <1>9, <1>10
     DEF Next, Uploads, Finish, Drains, Sweeps

LEMMA NextPlaces ==
  ASSUME Safe, PlaceKept, HeldBudget, Next
  PROVE  (PlaceKept /\ HeldBudget)'
<1>1. CASE \E f \in File, exempt \in BOOLEAN : Admit(f, exempt)
  BY <1>1, AdmitPlaces
<1>2. CASE \E f \in File : CommitRow(f)
  BY <1>2, CommitRowPlaces
<1>3. CASE \E a \in Actor : FinishCommit(a)
  BY <1>3, FinishCommitPlaces, PlacesLeft
<1>4. CASE Quiet
  <2>1. Counted' = Counted
    BY <1>4 DEF Quiet, Counted, HeldFiles
  <2> QED
    BY <1>4, <2>1, PlacesLeft DEF Quiet
<1> QED
  BY <1>1, <1>2, <1>3, <1>4, OthersAreQuiet
-----------------------------------------------------------------------------
(* The theorems.                                                            *)
LEMMA NextSafe ==
  ASSUME Safe, Next
  PROVE  Safe'
<1>1. CASE \E f \in File : \/ \E exempt \in BOOLEAN : Admit(f, exempt)
                           \/ Uploads(f) \/ EnqueueFails(f)
  BY <1>1, AdmitSafe, WritePrivateSafe, CommitRowSafe, EnqueueFailsSafe, SaveAttachmentSafe,
     InsertAttachmentSafe DEF Uploads
<1>2. CASE \E f \in File : Pick(f) \/ Expire(f) \/ ClearOriginal(f) \/ ReconcileOrphans(f)
  BY <1>2, PickSafe, ExpireSafe, ClearOriginalSafe, ReconcileOrphansSafe
<1>3. CASE \E f \in File : \/ \E next \in Status : Review(f, next)
                           \/ Block(f) \/ Unblock(f) \/ LoseStanding(f)
  BY <1>3, ReviewSafe, BlockSafe, UnblockSafe, LoseStandingSafe
<1>4. CASE \E f \in File : \/ UnlinkAttachments(f) \/ DeleteMessage(f) \/ BulkDelete(f)
                           \/ Sweeps(f) \/ PassRetention(f) \/ PassHour(f)
  BY <1>4, UnlinkAttachmentsSafe, DeleteMessageSafe, BulkDeleteSafe, LookSafe, FindRowSafe,
     SweepSafe, PassRetentionSafe, PassHourSafe DEF Sweeps
<1>5. CASE Claim \/ ScanFails \/ \E result \in {"clean", "match"} : Scan(result)
  BY <1>5, ClaimSafe, ScanFailsSafe, ScanSafe
<1>6. CASE \E a \in Actor : Finish(a)
  BY <1>6, FinishWriteSafe, FinishCommitSafe, FinishUnlinkSafe DEF Finish
<1>7. CASE \E p \in Policies : SetPolicy(p)
  BY <1>7, SetPolicySafe
<1>8. CASE Drains \/ Crash
  BY <1>8, StartDrainSafe, DrainOneSafe, CrashSafe DEF Drains
<1> QED
  BY <1>1, <1>2, <1>3, <1>4, <1>5, <1>6, <1>7, <1>8 DEF Next

\* The inductive invariant.
IInv == Safe /\ PlaceKept /\ HeldBudget

LEMMA InitHolds == Init => IInv
<1> SUFFICES ASSUME Init PROVE IInv
  OBVIOUS
<1>1. TypeOK
  BY BoundsAssumption DEF Init, TypeOK, NoJob, NoDrain, NoSweep
<1>2. HeldIsHidden /\ EvidenceKept /\ ListedIsThere /\ LeftoversListed /\ Fresh /\ LiveSeen
  BY DEF Init, HeldIsHidden, EvidenceKept, ListedIsThere, LeftoversListed, Fresh, LiveSeen,
         Held, NoDrain
<1>3. Locked /\ Current /\ Lawful /\ BytesFirst
  BY DEF Init, Locked, Busy, Current, Lawful, BytesFirst, NoJob, NoDrain, Actor
<1>4. HeldFiles = {}
  BY DEF Init, HeldFiles, Held
<1>5. PlaceKept /\ HeldBudget
  BY <1>4, FilesAssumption, FS_EmptySet DEF Init, PlaceKept, HeldBudget
<1> QED
  BY <1>1, <1>2, <1>3, <1>5 DEF IInv, Safe

LEMMA NextHolds == IInv /\ [Next]_vars => IInv'
<1> SUFFICES ASSUME IInv, [Next]_vars PROVE IInv'
  OBVIOUS
<1>1. CASE Next
  BY <1>1, NextSafe, NextPlaces DEF IInv
<1>2. CASE UNCHANGED vars
  <2>1. (TypeOK /\ HeldIsHidden /\ EvidenceKept /\ ListedIsThere /\ LeftoversListed)'
    BY <1>2 DEF IInv, Safe, vars, TypeOK, HeldIsHidden, EvidenceKept, ListedIsThere,
                LeftoversListed
  <2>2. (Locked /\ Current /\ Fresh /\ BytesFirst /\ LiveSeen)'
    BY <1>2 DEF IInv, Safe, vars, Locked, Busy, Current, Fresh, BytesFirst, LiveSeen
  <2>3. Lawful'
    BY <1>2 DEF IInv, Safe, vars, Lawful, Unlicensed, Decision, Action, HashFires
  <2>4. (PlaceKept /\ HeldBudget)'
    BY <1>2 DEF IInv, vars, PlaceKept, HeldBudget, HeldFiles
  <2> QED
    BY <2>1, <2>2, <2>3, <2>4 DEF IInv, Safe
<1> QED
  BY <1>1, <1>2

\* The locks are held, what was read under them is true and the bytes are there
\* in every state (finish, mod.rs:534, review, routes.rs:187).
THEOREM Invariance == Spec => []IInv
<1> QED
  BY InitHolds, NextHolds, PTL DEF Spec

\* The tables, the queue and the two stores agree for any files, policies and
\* bounds: uploads, decisions, drains and sweeps in any order, and crashes
\* between any two of their steps (finish, mod.rs:534, drain_attachment_deletions).
THEOREM FilesAgree == Spec => []FilesHold
<1>1. IInv => FilesHold
  BY DEF IInv, Safe, FilesHold
<1> QED
  BY <1>1, Invariance, PTL

\* What the worker publishes passes the policy and the blocks in force when it
\* commits, whatever was changed while it scanned (process_one, mod.rs:376).
THEOREM NothingSlipsThrough == Spec => ReviewWins
<1> DEFINE Wins == \A f \in File :
       (job["worker"].at = "commit" /\ job["worker"].file = f
          /\ status[f] # "published" /\ status'[f] = "published")
       => status[f] = "pending" /\ ~Unlicensed(f) /\ Decision(f, job["worker"].result) = "published"
<1>1. IInv /\ [Next]_vars => [Wins]_vars
  <2> SUFFICES ASSUME IInv, Next, NEW f \in File,
                      job["worker"].at = "commit", job["worker"].file = f,
                      status[f] # "published", status'[f] = "published"
               PROVE  status[f] = "pending" /\ ~Unlicensed(f)
                      /\ Decision(f, job["worker"].result) = "published"
    BY DEF vars
  <2>1. "worker" \in Actor /\ processing = "worker" /\ Safe
    BY DEF IInv, Safe, Locked, Busy, Actor
  <2>2. CASE \E g \in File, exempt \in BOOLEAN : Admit(g, exempt)
    BY <2>2 DEF Admit
  <2>3. CASE \E g \in File : CommitRow(g)
    BY <2>1, <2>3 DEF Safe, TypeOK, CommitRow
  <2>4. CASE \E a \in Actor : FinishCommit(a)
    <3>1. FinishCommit("worker")
      BY <2>1, <2>4 DEF Safe, Locked, Busy, FinishCommit
    <3>2. Decide("worker", f) /\ status[f] = job["worker"].from
      BY <3>1 DEF FinishCommit
    <3>3. job["worker"].to = "published"
      BY <2>1, <3>2 DEF Safe, TypeOK, Decide
    <3> QED
      BY <2>1, <3>2, <3>3 DEF Safe, Lawful
  <2>5. CASE Quiet
    BY <2>5 DEF Quiet
  <2> QED
    BY <2>1, <2>2, <2>3, <2>4, <2>5, OthersAreQuiet
<1> QED
  BY <1>1, Invariance, PTL DEF Spec, ReviewWins
-----------------------------------------------------------------------------
(* Snowflake: the ids one thread takes.  While the thread is alone, the     *)
(* mutex is its own from the look at the clock to the new state, and the   *)
(* clock does not go back: each id is above the one before it.             *)

LEMMA TimesKeepsOrder ==
  ASSUME NEW a \in Nat, NEW b \in Nat, NEW c \in Nat, a < b
  PROVE  a * c + c <= b * c
<1>1. PICK d \in Nat : b = a + 1 + d
  <2>1. b - a - 1 \in Nat /\ b = a + 1 + (b - a - 1)
    OBVIOUS
  <2> QED BY <2>1
<1>2. b * c = a * c + c + d * c
  BY <1>1
<1>3. d * c \in Nat /\ a * c \in Nat
  OBVIOUS
<1> QED BY <1>2, <1>3

LEMMA QuotientUnique ==
  ASSUME NEW s \in Nat \ {0}, NEW p \in Nat, NEW q \in Nat, NEW r \in 0..(s - 1), NEW u \in 0..(s - 1),
         p * s + r = q * s + u
  PROVE  r = u
<1>1. CASE p < q
  <2>1. p * s + s <= q * s
    BY <1>1, TimesKeepsOrder
  <2>2. p * s \in Nat /\ q * s \in Nat
    OBVIOUS
  <2> QED BY <2>1, <2>2
<1>2. CASE q < p
  <2>1. q * s + s <= p * s
    BY <1>2, TimesKeepsOrder
  <2>2. p * s \in Nat /\ q * s \in Nat
    OBVIOUS
  <2> QED BY <2>1, <2>2
<1>3. CASE p = q
  <2>1. p * s \in Nat
    OBVIOUS
  <2> QED BY <1>3, <2>1
<1> QED BY <1>1, <1>2, <1>3

LEMMA QuotientAndRest ==
  ASSUME NEW s \in Nat \ {0}, NEW n \in Nat
  PROVE  /\ n \div s \in Nat /\ n % s \in 0..(s - 1)
         /\ n = (n \div s) * s + (n % s)
  OBVIOUS

LEMMA NextRest ==
  ASSUME NEW s \in Nat \ {0}, NEW n \in Nat
  PROVE  (n + 1) % s \in {0, (n % s) + 1}
<1>1. /\ n \div s \in Nat /\ n % s \in 0..(s - 1) /\ n = (n \div s) * s + (n % s)
  BY QuotientAndRest
<1> DEFINE k == n + 1
<1>a. k \in Nat
  OBVIOUS
<1> HIDE DEF k
<1>b. /\ k \div s \in Nat /\ k % s \in 0..(s - 1)
      /\ k = (k \div s) * s + (k % s)
  BY <1>a, QuotientAndRest
<1>2. /\ (n + 1) \div s \in Nat /\ (n + 1) % s \in 0..(s - 1)
      /\ n + 1 = ((n + 1) \div s) * s + ((n + 1) % s)
  BY <1>b DEF k
<1>3. CASE (n % s) + 1 = s
  <2>1. (n \div s + 1) * s + 0 = ((n + 1) \div s) * s + ((n + 1) % s)
    BY <1>1, <1>2, <1>3
  <2>2. (n \div s + 1) \in Nat /\ 0 \in 0..(s - 1)
    BY <1>1
  <2> QED BY ONLY <2>1, <2>2, <1>2, s \in Nat \ {0}, QuotientUnique
<1>4. CASE (n % s) + 1 # s
  <2>1. (n \div s) * s + ((n % s) + 1) = ((n + 1) \div s) * s + ((n + 1) % s)
    BY <1>1, <1>2
  <2>2. (n % s) + 1 \in 0..(s - 1)
    BY <1>1, <1>4
  <2> QED BY ONLY <2>1, <2>2, <1>1, <1>2, s \in Nat \ {0}, QuotientUnique
<1> QED BY <1>3, <1>4
UpTo(x) == \A n \in 1..Len(ids) : ids[n] < x
Settled == {"start", "load", "add"}
Waits(t) == pc[t] \in {"spin", "keep"}
IdsInv(t) ==
  /\ I!TypeOK
  /\ last <= timestamp[t] /\ timestamp[t] <= clock
  /\ I!Increasing
  /\ UpTo(last * SeqSize + SeqSize)
  /\ (pc[t] \in Settled /\ sequence % SeqSize # 0) => UpTo(last * SeqSize + (sequence % SeqSize))
  /\ (pc[t] \in {"add", "spin"}) => timestamp[t] = last /\ seen[t] = last
  /\ pc[t] = "spin" => seq[t] = 0
  /\ (pc[t] = "keep" /\ seq[t] = 0) => last < timestamp[t]
  /\ (pc[t] = "keep" /\ seq[t] # 0) => timestamp[t] = last /\ UpTo(last * SeqSize + seq[t])
  /\ Waits(t) => sequence % SeqSize \in {0, seq[t] + 1}
  /\ pc[t] = "renew" => last < timestamp[t]
  /\ pc[t] = "reset" => timestamp[t] = last /\ UpTo(last * SeqSize)

LEMMA AppendIncreases ==
  ASSUME NEW x \in Nat, ids \in Seq(Nat), ids' = Append(ids, x), I!Increasing, UpTo(x)
  PROVE  /\ ids' \in Seq(Nat) /\ I!Increasing'
         /\ \A y \in Nat : (x < y) => UpTo(y)'
<1>1. /\ ids' \in Seq(Nat) /\ Len(ids') = Len(ids) + 1 /\ Len(ids) \in Nat
      /\ \A n \in 1..Len(ids) : ids'[n] = ids[n] /\ ids[n] \in Nat
      /\ ids'[Len(ids) + 1] = x
  OBVIOUS
<1>2. I!Increasing'
  <2> SUFFICES ASSUME NEW i \in 1..(Len(ids) + 1), NEW j \in 1..(Len(ids) + 1), i < j
               PROVE  ids'[i] < ids'[j]
    BY <1>1 DEF I!Increasing
  <2>1. CASE j \in 1..Len(ids)
    BY <2>1, <1>1 DEF I!Increasing
  <2>2. CASE j = Len(ids) + 1
    BY <2>2, <1>1 DEF UpTo
  <2> QED BY <2>1, <2>2, <1>1
<1>3. ASSUME NEW y \in Nat, x < y
      PROVE  UpTo(y)'
  BY <1>1, <1>3 DEF UpTo
<1> QED BY <1>1, <1>2, <1>3

LEMMA SnowflakeNext ==
  ASSUME NEW t, Thread = {t}, Setback = 0, IdsInv(t), I!Next
  PROVE  IdsInv(t)'
<1> USE LimitsAssumption DEF Settled, Waits
<1>t. /\ clock \in 1..MaxClock /\ last \in 0..MaxClock /\ sequence \in Nat
      /\ pc \in [{t} -> {"start", "load", "add", "spin", "keep", "renew", "reset"}]
      /\ timestamp \in [{t} -> 0..MaxClock] /\ seen \in [{t} -> 0..MaxClock]
      /\ seq \in [{t} -> 0..(SeqSize - 1)]
      /\ ids \in Seq(Nat)
  BY DEF IdsInv, I!TypeOK
<1>p. last * SeqSize \in Nat /\ timestamp[t] * SeqSize \in Nat /\ SeqSize \in Nat \ {0}
  BY <1>t
<1>m. sequence % SeqSize \in 0..(SeqSize - 1)
  BY <1>t, <1>p, QuotientAndRest
<1>1. CASE I!ReadClock(t)
  <2> USE <1>1 DEF I!ReadClock, I!Goto
  <2>1. I!TypeOK'
    BY <1>t DEF I!TypeOK
  <2> QED BY <2>1, <1>t DEF IdsInv, I!Increasing, UpTo
<1>2. CASE I!Load(t)
  <2> USE <1>2 DEF I!Load, I!Goto
  <2>1. I!TypeOK'
    BY <1>t DEF I!TypeOK
  <2> QED BY <2>1, <1>t DEF IdsInv, I!Increasing, UpTo
<1>3. CASE I!Add(t)
  <2> USE <1>3 DEF I!Add, I!Goto
  <2>1. I!TypeOK'
    BY <1>t, <1>m DEF I!TypeOK
  <2>2. (sequence + 1) % SeqSize \in {0, (sequence % SeqSize) + 1}
    BY <1>t, <1>p, NextRest
  <2>3. seq'[t] = sequence % SeqSize /\ pc'[t] = IF seq'[t] = 0 THEN "spin" ELSE "keep"
    BY <1>t
  <2> QED BY <2>1, <2>2, <2>3, <1>t, <1>m DEF IdsInv, I!Increasing, UpTo
<1>4. CASE I!Spin(t)
  <2> USE <1>4 DEF I!Spin, I!Goto
  <2>1. I!TypeOK'
    BY <1>t DEF I!TypeOK
  <2> QED BY <2>1, <1>t DEF IdsInv, I!Increasing, UpTo
<1>5. CASE I!Keep(t)
  <2> DEFINE x == timestamp[t] * SeqSize + seq[t]
  <2>1. x \in Nat /\ ids' = Append(ids, x) /\ last' = timestamp[t] /\ pc'[t] = "start"
        /\ timestamp' = timestamp /\ sequence' = sequence /\ seq' = seq /\ clock' = clock /\ seen' = seen
    BY <1>5, <1>t, <1>p DEF I!Keep, I!Return, I!Id, I!Goto, I!locals
  <2>2. UpTo(x)
    <3>1. CASE seq[t] = 0
      <4>1. last * SeqSize + SeqSize <= timestamp[t] * SeqSize
        <5>1. last < timestamp[t] /\ last \in Nat /\ timestamp[t] \in Nat
          BY <3>1, <1>5, <1>t DEF I!Keep, IdsInv
        <5> QED BY ONLY <5>1, <1>p, TimesKeepsOrder
      <4> QED BY <3>1, <4>1, <1>t, <1>p DEF UpTo, IdsInv
    <3>2. CASE seq[t] # 0
      BY <3>2, <1>5, <1>t DEF I!Keep, IdsInv
    <3> QED BY <3>1, <3>2
  <2>a. last' * SeqSize = timestamp[t] * SeqSize /\ seq[t] \in 0..(SeqSize - 1)
    BY <2>1, <1>t
  <2>3. x < last' * SeqSize + SeqSize /\ x < last' * SeqSize + (seq[t] + 1)
    BY <2>a, <1>p
  <2>4. /\ last' * SeqSize + SeqSize \in Nat /\ last' * SeqSize + (seq[t] + 1) \in Nat
    BY <2>a, <1>p
  <2> HIDE DEF x
  <2>5. ids' \in Seq(Nat) /\ I!Increasing' /\ UpTo(last * SeqSize + SeqSize)'
        /\ UpTo(last * SeqSize + (seq[t] + 1))'
    <3>1. I!Increasing
      BY DEF IdsInv
    <3>2. ids' \in Seq(Nat) /\ I!Increasing' /\ \A y \in Nat : (x < y) => UpTo(y)'
      BY ONLY <1>t, <2>1, <2>2, <3>1, AppendIncreases
    <3> QED BY <3>2, <2>3, <2>4, <2>1
  <2>6. I!TypeOK'
    BY <1>5, <1>t, <2>1, <2>5 DEF I!TypeOK, I!Keep, I!Return, I!Goto
  <2>7. sequence % SeqSize \in {0, seq[t] + 1}
    BY <1>5 DEF I!Keep, IdsInv
  <2>8. sequence % SeqSize # 0 => UpTo(last * SeqSize + (sequence % SeqSize))'
    <3>1. sequence % SeqSize # 0 => sequence % SeqSize = seq[t] + 1
      BY <2>7
    <3>2. sequence' % SeqSize = sequence % SeqSize /\ seq' = seq
      BY <2>1
    <3> QED BY <3>1, <3>2, <2>5 DEF UpTo
  <2>9. last' <= timestamp'[t] /\ timestamp'[t] <= clock' /\ pc'[t] = "start"
    BY <2>1, <1>t DEF IdsInv
  <2> HIDE <1>5
  <2> QED BY <2>1, <2>5, <2>6, <2>7, <2>8, <2>9 DEF IdsInv, Waits
<1>6. CASE I!Renew(t)
  <2> USE <1>6 DEF I!Renew, I!Goto, I!locals
  <2>1. I!TypeOK'
    BY <1>t DEF I!TypeOK
  <2>2. last * SeqSize + SeqSize <= timestamp[t] * SeqSize
    <3>1. last < timestamp[t] /\ last \in Nat /\ timestamp[t] \in Nat
      BY <1>t DEF IdsInv
    <3> QED BY ONLY <3>1, <1>p, TimesKeepsOrder
  <2>a. last' * SeqSize = timestamp[t] * SeqSize /\ UpTo(last * SeqSize + SeqSize)
    BY <1>t DEF IdsInv
  <2>3. UpTo(last' * SeqSize) /\ UpTo(last' * SeqSize + SeqSize)
    <3>1. \A n \in 1..Len(ids) : ids[n] \in Nat
      BY <1>t
    <3> QED BY ONLY <2>2, <2>a, <3>1, <1>p DEF UpTo
  <2>4. pc'[t] = "reset" /\ last' = timestamp[t]
    BY <1>t
  <2> QED BY <2>1, <2>3, <2>4, <1>t DEF IdsInv, I!Increasing, UpTo
<1>7. CASE I!Reset(t)
  <2> DEFINE x == timestamp[t] * SeqSize + 0
  <2>1. x \in Nat /\ ids' = Append(ids, x) /\ x = last * SeqSize /\ UpTo(x) /\ last' = last
        /\ sequence' = 1 /\ pc'[t] = "start" /\ UNCHANGED <<timestamp, seen, seq, clock>>
    BY <1>7, <1>t, <1>p DEF I!Reset, I!Return, I!Id, I!Goto, I!locals, IdsInv
  <2>2. x < last * SeqSize + SeqSize /\ x < last * SeqSize + 1
        /\ last * SeqSize + SeqSize \in Nat /\ last * SeqSize + 1 \in Nat
    BY <2>1, <1>t, <1>p
  <2> HIDE DEF x
  <2>3. ids' \in Seq(Nat) /\ I!Increasing' /\ UpTo(last * SeqSize + SeqSize)'
        /\ UpTo(last * SeqSize + 1)'
    <3>1. I!Increasing
      BY DEF IdsInv
    <3>2. ids' \in Seq(Nat) /\ I!Increasing' /\ \A y \in Nat : (x < y) => UpTo(y)'
      BY ONLY <1>t, <2>1, <3>1, AppendIncreases
    <3> QED BY <3>2, <2>2, <2>1
  <2>4. I!TypeOK'
    BY <1>7, <1>t, <2>1, <2>3 DEF I!TypeOK, I!Reset, I!Return, I!Goto
  <2>5. 1 % SeqSize \in 0..(SeqSize - 1)
    BY <1>p, QuotientAndRest
  <2>6. 1 % SeqSize # 0 => UpTo(last * SeqSize + (1 % SeqSize))'
    <3>1. \A n \in 1..Len(ids') : ids'[n] \in Nat
      BY <2>3
    <3>2. SUFFICES ASSUME 1 % SeqSize # 0, NEW n \in 1..Len(ids')
                   PROVE  ids'[n] < last * SeqSize + (1 % SeqSize)
      BY <2>1 DEF UpTo
    <3>3. ids'[n] < last * SeqSize + 1
      BY <2>3, <2>1 DEF UpTo
    <3> QED BY ONLY <3>1, <3>2, <3>3, <2>5, <1>p
  <2> QED BY <2>1, <2>3, <2>4, <2>6, <1>t, <1>7 DEF IdsInv, I!Reset
<1>8. CASE I!SetClock
  <2> USE <1>8 DEF I!SetClock, I!locals
  <2>1. I!TypeOK' /\ clock < clock'
    BY <1>t DEF I!TypeOK
  <2> QED BY <2>1, <1>t DEF IdsInv, I!Increasing, UpTo
<1> QED BY <1>1, <1>2, <1>3, <1>4, <1>5, <1>6, <1>7, <1>8 DEF I!Next

LEMMA SnowflakeInit ==
  ASSUME NEW t, Thread = {t}, I!Init
  PROVE  IdsInv(t)
  BY LimitsAssumption DEF I!Init, IdsInv, I!TypeOK, I!Increasing, UpTo, Settled, Waits

\* Id(time, n) orders the ids by their milliseconds, then by their numbers: the ids
\* that one thread of snowflake::generate returns increase for ever, however many
\* milliseconds are used up, while the clock is not set back.
THEOREM IdsOfOneThreadIncrease ==
  ASSUME NEW CONSTANT t, Thread = {t}, Setback = 0
  PROVE  MCSpec => []IdsIncrease
<1>1. MCInit => IdsInv(t)
  BY SnowflakeInit DEF MCInit
<1>2. IdsInv(t) /\ [MCNext]_<<taking, sending, reading, caching, pinning, focus>> => IdsInv(t)'
  <2> SUFFICES ASSUME IdsInv(t), [MCNext]_<<taking, sending, reading, caching, pinning, focus>>
               PROVE  IdsInv(t)'
    OBVIOUS
  <2>1. CASE I!Next
    BY <2>1, SnowflakeNext
  <2>2. CASE UNCHANGED taking
    BY <2>2 DEF taking, IdsInv, I!TypeOK, I!Increasing, UpTo, Settled, Waits
  <2> QED BY <2>1, <2>2 DEF MCNext, Sends, Shows
<1>3. IdsInv(t) => IdsIncrease
  BY DEF IdsInv, IdsIncrease
<1> QED BY <1>1, <1>2, <1>3, PTL DEF MCSpec
-----------------------------------------------------------------------------
(* Messages: sending and reading.  The invariant says where each number in *)
(* a request in progress comes from: its id was taken and is in no other   *)
(* request before its row, the time it is written with is the one of the   *)
(* row in the member's last message, and the newest id of the channel is   *)
(* that of its last row.                                                   *)

Before(q) == M!At(q, "clock") \/ M!At(q, "admit")
Writing(q) == Before(q) \/ M!At(q, "count")
Telling(q, u) == M!At(q, "tell") /\ requests[q].by = u
IdsTaken ==
  /\ \A q \in Request : Writing(q) => requests[q].message.id \in 1..issued
  /\ \A q \in Request : M!At(q, "admit") => requests[q].message.at \in 1..MaxTime
  /\ \A q, r \in Request : q # r /\ Before(q) /\ Before(r) =>
       requests[q].message.id # requests[r].message.id
  /\ \A q \in Request : Before(q) =>
       \A n \in DOMAIN log : log[n].id # requests[q].message.id
  /\ \A n \in DOMAIN log : log[n].id <= issued
  /\ \A i, j \in DOMAIN log : i # j => log[i].id # log[j].id
LastBy(u, k) == log[k].by = u /\ \A n \in DOMAIN log : k < n => log[n].by # u
LastSaid == \A u \in Member :
  IF lastSent[u] = 0 THEN \A n \in DOMAIN log : log[n].by # u
  ELSE \E k \in DOMAIN log : LastBy(u, k) /\ log[k].at = lastSent[u]
PointsAtLast ==
  IF pointer = 0 THEN \A n \in DOMAIN log : log[n].reply
  ELSE \E k \in DOMAIN log : /\ ~log[k].reply /\ log[k].id = pointer
                             /\ \A n \in DOMAIN log : k < n => log[n].reply
BadgeBounded == \A u \in Member : badge[u] <= Cardinality(counted[u])
ToldInOrder == \A u \in Member \ outrun, q \in Request : Telling(q, u) =>
  /\ requests[q].upTo = read[u]
  /\ \A r \in Request : Telling(r, u) => r = q
ChanInv ==
  /\ M!TypeOK /\ IdsTaken /\ LastSaid /\ PointsAtLast /\ BadgeBounded /\ ToldInOrder
  /\ M!SlowmodeHolds /\ M!BadgeKept /\ M!ReadShown

MessageRecord ==
  [id : M!Ids, by : Member, at : 0..MaxTime, wait : {0, Cooldown}, reply : BOOLEAN,
   pings : SUBSET Member]
LEMMA LogGrows ==
  ASSUME NEW S, NEW m \in S, log \in Seq(S), log' = Append(log, m)
  PROVE  /\ log' \in Seq(S) /\ DOMAIN log = 1..Len(log) /\ DOMAIN log' = 1..(Len(log) + 1)
         /\ Len(log) \in Nat /\ log'[Len(log) + 1] = m
         /\ \A n \in DOMAIN log : log'[n] = log[n] /\ log[n] \in S
  OBVIOUS

LEMMA CountsAreFinite ==
  ASSUME M!TypeOK, NEW u \in Member
  PROVE  /\ IsFiniteSet(counted[u]) /\ Cardinality(counted[u]) \in 0..MaxSent
<1>1. counted[u] \subseteq 1..MaxSent /\ MaxSent \in Nat
  BY LimitsAssumption DEF M!TypeOK, M!Ids
<1>2. IsFiniteSet(1..MaxSent) /\ Cardinality(1..MaxSent) = MaxSent
  BY <1>1, FS_Interval
<1>3. IsFiniteSet(counted[u]) /\ Cardinality(counted[u]) <= MaxSent
  BY <1>1, <1>2, FS_Subset
<1> QED BY <1>3, <1>1, FS_CardinalityType

LEMMA RequestType ==
  ASSUME M!TypeOK, NEW q \in Request, M!Busy(q)
  PROVE  /\ requests[q] \in M!RequestRecord
         /\ Writing(q) => requests[q].message \in
              [id : M!Ids, by : Member, at : 0..MaxTime, wait : {0, Cooldown}, reply : BOOLEAN,
               pings : SUBSET Member]
         /\ M!At(q, "tell") => requests[q].by \in Member /\ requests[q].upTo \in M!Ids
         /\ Writing(q) \/ M!At(q, "tell")
<1>1. requests[q] \in M!RequestRecord
  BY DEF M!TypeOK, M!Busy
<1> QED BY <1>1 DEF M!RequestRecord, Writing, Before, M!At, M!Busy

LEMMA MessageType ==
  ASSUME M!TypeOK, IdsTaken, NEW q \in Request, M!At(q, "admit")
  PROVE  requests[q].message \in M!Sent
<1>1. requests[q].message \in
        [id : M!Ids, by : Member, at : 0..MaxTime, wait : {0, Cooldown}, reply : BOOLEAN,
         pings : SUBSET Member]
  BY RequestType DEF M!At, Writing, Before
<1>2. requests[q].message.at \in 1..MaxTime
  BY DEF IdsTaken
<1> QED BY <1>1, <1>2 DEF M!Sent

LEMMA AdmitStep ==
  ASSUME M!TypeOK, IdsTaken, NEW q \in Request, M!Admit(q)
  PROVE  /\ M!At(q, "admit") /\ requests[q].message \in M!Sent /\ M!InTime(requests[q].message)
         /\ log' = Append(log, requests[q].message) /\ log' \in Seq(M!Sent)
         /\ DOMAIN log = 1..Len(log) /\ DOMAIN log' = 1..(Len(log) + 1) /\ Len(log) \in Nat
         /\ log'[Len(log) + 1] = requests[q].message
         /\ \A n \in DOMAIN log : log'[n] = log[n] /\ log[n] \in M!Sent
         /\ lastSent' = [lastSent EXCEPT ![requests[q].message.by] = requests[q].message.at]
         /\ pointer' = IF ~requests[q].message.reply THEN requests[q].message.id ELSE pointer
         /\ requests' = [requests EXCEPT ![q].stage = "count"]
         /\ stored' = stored \cup {requests[q].message.id}
         /\ UNCHANGED <<time, slow, issued, read, badge, shown, counted, waived, outrun>>
<1>1. M!At(q, "admit") /\ requests[q].message \in M!Sent
  BY MessageType DEF M!Admit
<1>2. log \in Seq(M!Sent) /\ log' = Append(log, requests[q].message)
  BY DEF M!TypeOK, M!Admit, M!Write
<1> QED BY <1>1, <1>2, LogGrows DEF M!Admit, M!Write, M!reading

\* Of the steps of the channel, only admission adds to the log.
LEMMA LogStep ==
  ASSUME M!Next
  PROVE  \/ \E q \in Request : M!Admit(q)
         \/ UNCHANGED <<log, lastSent, pointer>>
  BY DEF M!Next, M!CreateMessage, M!ReadClock, M!Refuse, M!EnqueueFails, M!Count, M!Created,
    M!DeleteMessage, M!AckChannel, M!Acked, M!TellRead, M!Tick, M!UpdateChannel, M!channel

LEMMA LastSaidNext ==
  ASSUME M!TypeOK, IdsTaken, LastSaid, M!SlowmodeHolds, M!Next
  PROVE  LastSaid' /\ M!SlowmodeHolds'
<1>1. CASE UNCHANGED <<log, lastSent, pointer>>
  BY <1>1 DEF LastSaid, M!SlowmodeHolds, LastBy
<1>2. ASSUME NEW q \in Request, M!Admit(q)
      PROVE  LastSaid' /\ M!SlowmodeHolds'
  <2> DEFINE m == requests[q].message
  <2>1. /\ m \in M!Sent /\ M!InTime(m)
        /\ DOMAIN log = 1..Len(log) /\ DOMAIN log' = 1..(Len(log) + 1) /\ Len(log) \in Nat
        /\ log'[Len(log) + 1] = m
        /\ \A n \in DOMAIN log : log'[n] = log[n] /\ log[n] \in M!Sent
        /\ lastSent' = [lastSent EXCEPT ![m.by] = m.at]
    BY <1>2, AdmitStep
  <2>2. /\ m.by \in Member /\ m.at \in 1..MaxTime /\ m.wait \in {0, Cooldown}
        /\ \A n \in DOMAIN log : log[n].at \in 1..MaxTime /\ log[n].by \in Member
        /\ Cooldown \in Nat /\ MaxTime \in Nat
    BY <2>1, LimitsAssumption DEF M!Sent
  <2>3. lastSent \in [Member -> 0..MaxTime]
    BY DEF M!TypeOK
  <2>t. m.wait = 0 \/ lastSent[m.by] = 0 \/ lastSent[m.by] + m.wait <= m.at
    BY <2>1 DEF M!InTime
  <2> HIDE DEF m
  <2>4. LastSaid'
    <3> SUFFICES ASSUME NEW u \in Member
                 PROVE  IF lastSent'[u] = 0 THEN \A n \in DOMAIN log' : log'[n].by # u
                        ELSE \E k \in DOMAIN log' : LastBy(u, k)' /\ log'[k].at = lastSent'[u]
      BY DEF LastSaid
    <3>1. CASE u = m.by
      <4>1. lastSent'[u] = m.at /\ lastSent'[u] # 0
        BY <2>1, <2>2, <2>3, <3>1
      <4>2. PICK k \in Nat : k = Len(log) + 1
        BY <2>1
      <4>3. LastBy(u, k)' /\ k \in DOMAIN log' /\ log'[k].at = lastSent'[u]
        BY <2>1, <3>1, <4>1, <4>2 DEF LastBy
      <4> QED BY <4>1, <4>3
    <3>2. CASE u # m.by
      <4>1. lastSent'[u] = lastSent[u]
        BY <2>1, <2>3, <3>2
      <4>2. CASE lastSent[u] = 0
        BY <4>1, <4>2, <3>2, <2>1 DEF LastSaid
      <4>3. CASE lastSent[u] # 0
        <5>1. PICK k \in DOMAIN log : LastBy(u, k) /\ log[k].at = lastSent[u]
          BY <4>3 DEF LastSaid
        <5>2. LastBy(u, k)' /\ log'[k].at = lastSent'[u] /\ k \in DOMAIN log'
          BY <5>1, <2>1, <3>2, <4>1 DEF LastBy
        <5> QED BY <5>2, <4>1, <4>3
      <4> QED BY <4>2, <4>3
    <3> QED BY <3>1, <3>2
  <2>5. M!SlowmodeHolds'
    <3> SUFFICES ASSUME NEW j \in DOMAIN log', NEW i \in DOMAIN log', i < j,
                        log'[i].by = log'[j].by,
                        \A k \in i..j : log'[k].by = log'[j].by => log'[k].wait > 0
                 PROVE  log'[i].at + Cooldown <= log'[j].at
      BY DEF M!SlowmodeHolds
    <3>1. CASE j \in DOMAIN log
      <4>1. i \in DOMAIN log /\ \A k \in i..j : k \in DOMAIN log
        BY <3>1, <2>1
      <4>2. log[i].by = log[j].by /\ \A k \in i..j : log[k].by = log[j].by => log[k].wait > 0
        BY <4>1, <3>1, <2>1
      <4> QED BY <4>1, <4>2, <3>1, <2>1 DEF M!SlowmodeHolds
    <3>2. CASE j = Len(log) + 1
      <4>1. i \in DOMAIN log /\ log'[j] = m /\ log'[i] = log[i] /\ log[i].by = m.by
        BY <3>2, <2>1
      <4>2. m.wait > 0
        BY <4>1, <2>1, <3>2
      <4>3. m.wait = Cooldown
        BY <4>2, <2>2
      <4>4. PICK k \in DOMAIN log : LastBy(m.by, k) /\ log[k].at = lastSent[m.by] /\ lastSent[m.by] # 0
        BY <4>1, <2>2 DEF LastSaid
      <4>5. log[k].at + Cooldown <= m.at
        BY <4>2, <4>3, <4>4, <2>t
      <4>6. CASE i = k
        BY <4>6, <4>5, <4>1
      <4>7. CASE i # k
        <5>1. i < k /\ k < j
          BY <4>7, <4>4, <4>1, <2>1, <3>2 DEF LastBy
        <5>2. log[i].by = log[k].by
          BY <4>1, <4>4 DEF LastBy
        <5>3. ASSUME NEW n \in i..k, log[n].by = log[k].by
              PROVE  log[n].wait > 0
          <6>1. n \in i..j /\ n \in DOMAIN log
            BY <5>1, <3>2, <2>1, <4>1
          <6>2. log'[n].by = log'[j].by
            BY <6>1, <5>3, <4>4, <4>1, <2>1 DEF LastBy
          <6> QED BY <6>1, <6>2, <2>1
        <5>4. log[i].at + Cooldown <= log[k].at
          BY <5>1, <5>2, <5>3, <4>1 DEF M!SlowmodeHolds
        <5> QED BY <5>4, <4>5, <4>1, <2>2
      <4> QED BY <4>6, <4>7
    <3> QED BY <3>1, <3>2, <2>1
  <2> QED BY <2>4, <2>5
<1> QED BY <1>1, <1>2, LogStep

LEMMA ChannelTypeNext ==
  ASSUME M!TypeOK, IdsTaken, BadgeBounded, M!Next
  PROVE  M!TypeOK'
<1> USE LimitsAssumption
<1>t. /\ time \in 1..MaxTime /\ slow \in BOOLEAN /\ issued \in 0..MaxSent
      /\ log \in Seq(M!Sent) /\ stored \subseteq 1..MaxSent
      /\ pointer \in 0..MaxSent
      /\ lastSent \in [Member -> 0..MaxTime]
      /\ read \in [Member -> 0..MaxSent] /\ shown \in [Member -> 0..MaxSent]
      /\ badge \in [Member -> 0..MaxSent]
      /\ counted \in [Member -> SUBSET (1..MaxSent)] /\ waived \in [Member -> SUBSET (1..MaxSent)]
      /\ outrun \subseteq Member
      /\ requests \in [Request -> M!RequestRecord \cup {NoRequest}]
  BY DEF M!TypeOK, M!Ids
<1>1. ASSUME NEW q \in Request, NEW u \in Member, NEW exempt \in BOOLEAN, NEW reply \in BOOLEAN,
             NEW pings \in SUBSET Member, M!CreateMessage(q, u, exempt, reply, pings)
      PROVE  M!TypeOK'
  <2>1. issued + 1 \in 1..MaxSent /\ issued' = issued + 1
    BY <1>1, <1>t DEF M!CreateMessage
  <2>2. (IF slow /\ ~exempt THEN Cooldown ELSE 0) \in {0, Cooldown} /\ 0 \in 0..MaxTime
        /\ pings \ {u} \in SUBSET Member
    OBVIOUS
  <2>3. requests' \in [Request -> M!RequestRecord \cup {NoRequest}]
    BY <1>1, <1>t, <2>1, <2>2 DEF M!CreateMessage, M!Begin, M!RequestRecord, M!Ids
  <2> QED BY <1>1, <1>t, <2>1, <2>3 DEF M!CreateMessage, M!TypeOK, M!Ids, M!channel, M!reading
<1>2. ASSUME NEW q \in Request, NEW u \in Member, M!Count(q, u)
      PROVE  M!TypeOK'
  <2>1. u \in requests[q].message.pings /\ requests[q].message.id \notin counted[u]
        /\ requests[q].message.id \in 1..MaxSent
    BY <1>2, <1>t DEF M!Count, M!Uncounted, IdsTaken, Writing
  <2>a. MaxSent \in Nat
    OBVIOUS
  <2>b. IsFiniteSet(1..MaxSent) /\ Cardinality(1..MaxSent) = MaxSent
    BY <2>a, FS_Interval
  <2>2. counted[u] \cup {requests[q].message.id} \subseteq 1..MaxSent /\ IsFiniteSet(1..MaxSent)
        /\ Cardinality(1..MaxSent) = MaxSent
    BY <1>t, <2>1, <2>b
  <2>3. Cardinality(counted[u] \cup {requests[q].message.id}) <= MaxSent
    BY <2>2, FS_Subset
  <2>4. IsFiniteSet(counted[u]) /\ Cardinality(counted[u]) \in 0..MaxSent
    BY CountsAreFinite
  <2>5. Cardinality(counted[u] \cup {requests[q].message.id}) = Cardinality(counted[u]) + 1
    BY <2>4, <2>1, FS_AddElement
  <2>6. badge[u] + 1 \in 0..MaxSent
    BY <2>3, <2>4, <2>5, <1>t DEF BadgeBounded
  <2>7. badge' \in [Member -> 0..MaxSent] /\ counted' \in [Member -> SUBSET (1..MaxSent)]
    BY <1>2, <1>t, <2>6, <2>2 DEF M!Count
  <2> QED BY <1>2, <1>t, <2>7 DEF M!Count, M!TypeOK, M!Ids, M!channel
<1>3. ASSUME NEW q \in Request, NEW u \in Member, NEW m \in M!Ids, M!AckChannel(q, u, m)
      PROVE  M!TypeOK'
  <2>1. M!Larger(read[u], m) \in 0..MaxSent /\ m \in 1..MaxSent
    BY <1>t DEF M!Larger, M!Ids
  <2>2. requests' \in [Request -> M!RequestRecord \cup {NoRequest}]
    BY <1>3, <1>t, <2>1 DEF M!AckChannel, M!Acked, M!Begin, M!RequestRecord, M!Ids
  <2>3. read' \in [Member -> 0..MaxSent] /\ badge' \in [Member -> 0..MaxSent]
        /\ waived' \in [Member -> SUBSET (1..MaxSent)] /\ outrun' \subseteq Member
    BY <1>3, <1>t, <2>1 DEF M!AckChannel, M!Acked
  <2> QED BY <1>3, <1>t, <2>2, <2>3 DEF M!AckChannel, M!Acked, M!TypeOK, M!Ids, M!channel
<1>4. ASSUME NEW q \in Request, M!ReadClock(q)
      PROVE  M!TypeOK'
  <2>1. requests[q] \in M!RequestRecord /\ requests[q].stage = "clock"
    BY <1>4, RequestType DEF M!ReadClock, M!At
  <2>a. requests[q].message \in MessageRecord
    BY <1>4, RequestType DEF M!ReadClock, M!At, Writing, Before, MessageRecord
  <2>b. [requests[q].message EXCEPT !.at = time] \in MessageRecord
    <3>1. time \in 0..MaxTime
      BY <1>t
    <3> QED BY ONLY <2>a, <3>1 DEF MessageRecord
  <2>c. requests[q] \in [stage : {"clock", "admit", "count"}, message : MessageRecord]
    BY <2>1 DEF M!RequestRecord, MessageRecord
  <2>d. [requests[q] EXCEPT !.stage = "admit", !.message.at = time]
          \in [stage : {"clock", "admit", "count"}, message : MessageRecord]
    BY <2>c, <2>b
  <2>e. [requests[q] EXCEPT !.stage = "admit", !.message.at = time] \in M!RequestRecord
    BY <2>d DEF M!RequestRecord, MessageRecord
  <2>2. requests' \in [Request -> M!RequestRecord \cup {NoRequest}]
    BY <1>4, <1>t, <2>e DEF M!ReadClock
  <2> QED BY <1>4, <1>t, <2>2 DEF M!ReadClock, M!TypeOK, M!Ids, M!channel, M!reading
<1>5. ASSUME NEW q \in Request, M!Admit(q)
      PROVE  M!TypeOK'
  <2>1. requests[q] \in M!RequestRecord /\ requests[q].stage = "admit"
        /\ requests[q].message \in M!Sent
    BY <1>5, RequestType, MessageType DEF M!Admit, M!At
  <2>c. requests[q] \in [stage : {"clock", "admit", "count"}, message : MessageRecord]
    BY <2>1 DEF M!RequestRecord, MessageRecord
  <2>d. [requests[q] EXCEPT !.stage = "count"]
          \in [stage : {"clock", "admit", "count"}, message : MessageRecord]
    BY <2>c
  <2>e. [requests[q] EXCEPT !.stage = "count"] \in M!RequestRecord
    BY <2>d DEF M!RequestRecord, MessageRecord
  <2>2. requests' \in [Request -> M!RequestRecord \cup {NoRequest}]
    BY <1>5, <1>t, <2>e, AdmitStep
  <2>3. requests[q].message.id \in 1..MaxSent /\ requests[q].message.at \in 1..MaxTime
    BY <2>1 DEF M!Sent, M!Ids
  <2>f. /\ lastSent' = [lastSent EXCEPT ![requests[q].message.by] = requests[q].message.at]
        /\ pointer' \in {requests[q].message.id, pointer}
        /\ stored' = stored \cup {requests[q].message.id}
        /\ log' \in Seq(M!Sent)
    BY <1>5, AdmitStep
  <2>4. lastSent' \in [Member -> 0..MaxTime] /\ pointer' \in 0..MaxSent
        /\ stored' \subseteq 1..MaxSent /\ log' \in Seq(M!Sent)
    <3>1. requests[q].message.at \in 0..MaxTime /\ requests[q].message.id \in 0..MaxSent
      BY <2>3
    <3>2. lastSent' \in [Member -> 0..MaxTime]
      BY ONLY <3>1, <2>f, <1>t
    <3>3. pointer' \in 0..MaxSent
      BY ONLY <3>1, <2>f, <1>t
    <3>4. stored' \subseteq 1..MaxSent
      BY ONLY <2>3, <2>f, <1>t
    <3> QED BY <3>2, <3>3, <3>4, <2>f
  <2> QED BY <1>5, <1>t, <2>2, <2>4, AdmitStep DEF M!TypeOK, M!Ids
<1>6. ASSUME NEW q \in Request, M!Refuse(q) \/ M!EnqueueFails(q) \/ M!Created(q)
      PROVE  M!TypeOK'
  BY <1>6, <1>t DEF M!Refuse, M!EnqueueFails, M!Created, M!End, M!TypeOK, M!Ids, M!channel, M!reading
<1>7. ASSUME NEW q \in Request, M!TellRead(q)
      PROVE  M!TypeOK'
  <2>1. requests[q].by \in Member /\ requests[q].upTo \in 0..MaxSent
    BY <1>7, <1>t, RequestType DEF M!TellRead, M!At, M!Ids
  <2> QED BY <1>7, <1>t, <2>1 DEF M!TellRead, M!End, M!TypeOK, M!Ids, M!channel
<1>8. CASE M!Tick \/ M!UpdateChannel \/ \E m \in M!Ids : M!DeleteMessage(m)
  <2>1. CASE M!Tick
    BY <2>1, <1>t DEF M!Tick, M!TypeOK, M!Ids, M!channel, M!reading
  <2>2. CASE M!UpdateChannel
    BY <2>2, <1>t DEF M!UpdateChannel, M!TypeOK, M!Ids, M!reading
  <2>3. ASSUME NEW m \in M!Ids, M!DeleteMessage(m)
        PROVE  M!TypeOK'
    BY <2>3, <1>t DEF M!DeleteMessage, M!TypeOK, M!Ids, M!reading
  <2> QED BY <1>8, <2>1, <2>2, <2>3
<1> QED BY <1>1, <1>2, <1>3, <1>4, <1>5, <1>6, <1>7, <1>8 DEF M!Next

\* What a step makes of the requests: one begins with the next id, one goes on
\* with the id it has, or all stand where they stood or have ended.
LEMMA RequestStep ==
  ASSUME M!TypeOK, IdsTaken, M!Next
  PROVE  \/ \E q \in Request :
              /\ ~M!Busy(q) /\ issued' = issued + 1 /\ log' = log
              /\ M!At(q, "clock")' /\ requests'[q].message.id = issued + 1
              /\ \A r \in Request \ {q} : requests'[r] = requests[r]
         \/ /\ issued' = issued /\ log' = log
            /\ \A q \in Request :
                 /\ Before(q)' => Before(q) /\ requests'[q].message.id = requests[q].message.id
                 /\ Writing(q)' => Writing(q) /\ requests'[q].message.id = requests[q].message.id
                 /\ M!At(q, "admit")' => requests'[q].message.at \in 1..MaxTime
         \/ \E q \in Request :
              /\ M!Admit(q) /\ ~Before(q)' /\ requests'[q].message.id = requests[q].message.id
              /\ \A r \in Request \ {q} : requests'[r] = requests[r]
<1>t. /\ requests \in [Request -> M!RequestRecord \cup {NoRequest}] /\ time \in 1..MaxTime
      /\ issued \in Nat
  BY DEF M!TypeOK
<1> USE <1>t, AbsenceAssumption DEF Before, Writing, M!At, M!Busy
<1>1. ASSUME NEW q \in Request, NEW u \in Member, NEW exempt \in BOOLEAN, NEW reply \in BOOLEAN,
             NEW pings \in SUBSET Member, M!CreateMessage(q, u, exempt, reply, pings)
      PROVE  /\ ~M!Busy(q) /\ issued' = issued + 1 /\ log' = log
             /\ M!At(q, "clock")' /\ requests'[q].message.id = issued + 1
             /\ \A r \in Request \ {q} : requests'[r] = requests[r]
  <2> DEFINE m == [id |-> issued + 1, by |-> u, at |-> 0, reply |-> reply,
                 wait |-> IF slow /\ ~exempt THEN Cooldown ELSE 0, pings |-> pings \ {u}]
  <2>1. issued + 1 \in M!Ids /\ m \in MessageRecord
    BY <1>1, LimitsAssumption DEF M!CreateMessage, M!Ids, MessageRecord, M!TypeOK
  <2>2. requests' = [requests EXCEPT ![q] = [stage |-> "clock", message |-> m]] /\ m.id = issued + 1
    BY <1>1 DEF M!CreateMessage, M!Begin
  <2> HIDE DEF m
  <2>3. [stage |-> "clock", message |-> m] \in M!RequestRecord
    BY <2>1 DEF M!RequestRecord, MessageRecord
  <2> QED BY <1>1, <2>2, <2>3 DEF M!CreateMessage, M!Begin, M!channel
<1>2. ASSUME NEW q \in Request, M!ReadClock(q)
      PROVE  /\ issued' = issued /\ log' = log
            /\ \A r \in Request :
                 /\ Before(r)' => Before(r) /\ requests'[r].message.id = requests[r].message.id
                 /\ Writing(r)' => Writing(r) /\ requests'[r].message.id = requests[r].message.id
                 /\ M!At(r, "admit")' => requests'[r].message.at \in 1..MaxTime
  <2>1. requests[q].message \in MessageRecord /\ requests[q].stage = "clock"
        /\ requests[q] \in [stage : {"clock", "admit", "count"}, message : MessageRecord]
    BY <1>2, RequestType DEF M!ReadClock, MessageRecord, M!RequestRecord
  <2>2. requests'[q].message = [requests[q].message EXCEPT !.at = time]
    BY <1>2, <2>1 DEF M!ReadClock
  <2>3. requests'[q].message.id = requests[q].message.id /\ requests'[q].message.at = time
    BY <2>1, <2>2 DEF MessageRecord
  <2> QED BY <1>2, <2>1, <2>3 DEF M!ReadClock, M!channel, IdsTaken
<1>3. ASSUME NEW q \in Request, M!Admit(q)
      PROVE  /\ ~Before(q)' /\ requests'[q].message.id = requests[q].message.id
             /\ \A r \in Request \ {q} : requests'[r] = requests[r]
  <2>1. requests[q] \in [stage : {"clock", "admit", "count"}, message : MessageRecord]
    BY <1>3, RequestType DEF M!Admit, MessageRecord, M!RequestRecord
  <2> QED BY <2>1, <1>3, AdmitStep
<1>4. ASSUME NEW q \in Request, NEW u \in Member, NEW m \in M!Ids, M!AckChannel(q, u, m)
      PROVE  /\ issued' = issued /\ log' = log
            /\ \A r \in Request :
                 /\ Before(r)' => Before(r) /\ requests'[r].message.id = requests[r].message.id
                 /\ Writing(r)' => Writing(r) /\ requests'[r].message.id = requests[r].message.id
                 /\ M!At(r, "admit")' => requests'[r].message.at \in 1..MaxTime
  BY <1>4 DEF M!AckChannel, M!Acked, M!Begin, M!channel, IdsTaken
<1>5. ASSUME NEW q \in Request, M!Refuse(q) \/ M!EnqueueFails(q) \/ M!Created(q) \/ M!TellRead(q)
      PROVE  /\ issued' = issued /\ log' = log
            /\ \A r \in Request :
                 /\ Before(r)' => Before(r) /\ requests'[r].message.id = requests[r].message.id
                 /\ Writing(r)' => Writing(r) /\ requests'[r].message.id = requests[r].message.id
                 /\ M!At(r, "admit")' => requests'[r].message.at \in 1..MaxTime
  BY <1>5 DEF M!Refuse, M!EnqueueFails, M!Created, M!TellRead, M!End, M!channel, IdsTaken
<1>6. CASE UNCHANGED <<issued, log, requests>>
  BY <1>6 DEF IdsTaken
<1>7. ASSUME NEW q \in Request, NEW u \in Member, M!Count(q, u)
      PROVE  UNCHANGED <<issued, log, requests>>
  BY <1>7 DEF M!Count, M!channel
<1>8. ASSUME M!Tick \/ M!UpdateChannel \/ \E m \in M!Ids : M!DeleteMessage(m)
      PROVE  UNCHANGED <<issued, log, requests>>
  BY <1>8 DEF M!Tick, M!UpdateChannel, M!DeleteMessage, M!channel
<1>9. CASE \E q \in Request, u \in Member, exempt \in BOOLEAN, reply \in BOOLEAN, pings \in SUBSET Member :
             M!CreateMessage(q, u, exempt, reply, pings)
  BY <1>9, <1>1
<1>10. CASE \E q \in Request : M!Admit(q)
  BY <1>10, <1>3
<1> QED BY <1>9, <1>2, <1>10, <1>4, <1>5, <1>6, <1>7, <1>8 DEF M!Next

LEMMA IdsTakenNext ==
  ASSUME M!TypeOK, IdsTaken, M!Next
  PROVE  IdsTaken'
<1>t. /\ requests \in [Request -> M!RequestRecord \cup {NoRequest}]
      /\ issued \in Nat /\ \A n \in DOMAIN log : log[n] \in M!Sent
  BY DEF M!TypeOK
<1>n. \A n \in DOMAIN log : log[n].id \in Nat
  BY <1>t DEF M!Sent, M!Ids
<1>1. ASSUME NEW q \in Request,
              ~M!Busy(q), issued' = issued + 1, log' = log,
              M!At(q, "clock")', requests'[q].message.id = issued + 1,
              \A r \in Request \ {q} : requests'[r] = requests[r]
      PROVE  IdsTaken'
  <2>1. \A r \in Request : r # q /\ Before(r)' => Before(r) /\ requests'[r] = requests[r]
    BY <1>1 DEF Before, M!At, M!Busy
  <2>2. \A r \in Request : r # q /\ Writing(r)' => Writing(r) /\ requests'[r] = requests[r]
    BY <1>1 DEF Before, Writing, M!At, M!Busy
  <2>3. \A r \in Request : Before(r) => Writing(r)
    BY DEF Writing
  <2>4. \A r \in Request : Writing(r) => requests[r].message.id \in 1..issued
    BY DEF IdsTaken
  <2>5. \A r \in Request : M!At(r, "admit")' => requests'[r].message.at \in 1..MaxTime
    BY <1>1 DEF M!At, M!Busy, IdsTaken
  <2>6. \A r \in Request : Writing(r)' => requests'[r].message.id \in 1..issued'
    BY <1>1, <2>2, <2>4, <1>t
  <2>7. \A p, r \in Request : p # r /\ Before(p)' /\ Before(r)' =>
          requests'[p].message.id # requests'[r].message.id
    BY <1>1, <2>1, <2>3, <2>4, <1>t DEF IdsTaken
  <2>8. \A r \in Request : Before(r)' => \A n \in DOMAIN log : log[n].id # requests'[r].message.id
    BY <1>1, <2>1, <1>t, <1>n DEF IdsTaken
  <2> QED BY <1>1, <2>5, <2>6, <2>7, <2>8, <1>t, <1>n DEF IdsTaken
<1>2. ASSUME issued' = issued, log' = log,
             \A q \in Request :
                 /\ Before(q)' => Before(q) /\ requests'[q].message.id = requests[q].message.id
                 /\ Writing(q)' => Writing(q) /\ requests'[q].message.id = requests[q].message.id
                 /\ M!At(q, "admit")' => requests'[q].message.at \in 1..MaxTime
      PROVE  IdsTaken'
  BY <1>2 DEF IdsTaken
<1>3. ASSUME NEW q \in Request, M!Admit(q), ~Before(q)',
             requests'[q].message.id = requests[q].message.id,
             \A r \in Request \ {q} : requests'[r] = requests[r]
      PROVE  IdsTaken'
  <2>1. \A r \in Request : Before(r)' => r # q /\ Before(r) /\ requests'[r] = requests[r]
    BY <1>3 DEF Before, M!At, M!Busy
  <2>2. \A r \in Request : Writing(r)' => Writing(r) /\ requests'[r].message.id = requests[r].message.id
    BY <1>3 DEF Before, Writing, M!At, M!Busy, M!Admit
  <2>3. Before(q) /\ Writing(q) /\ issued' = issued
        /\ DOMAIN log' = 1..(Len(log) + 1) /\ DOMAIN log = 1..Len(log) /\ Len(log) \in Nat
        /\ log'[Len(log) + 1] = requests[q].message
        /\ \A n \in DOMAIN log : log'[n] = log[n]
    BY <1>3, AdmitStep DEF Before, Writing
  <2>4. \A r \in Request : M!At(r, "admit")' => requests'[r].message.at \in 1..MaxTime
    BY <1>3, <2>1 DEF M!At, M!Busy, IdsTaken, Before
  <2>5. \A n \in DOMAIN log : log[n].id # requests[q].message.id
    BY <2>3 DEF IdsTaken
  <2>6. \A i, j \in DOMAIN log' : i # j => log'[i].id # log'[j].id
    BY <2>3, <2>5 DEF IdsTaken
  <2>7. requests[q].message.id \in 1..issued
    BY <2>3 DEF IdsTaken
  <2>8. \A n \in DOMAIN log' : log'[n].id <= issued'
    BY <2>3, <2>7, <1>t DEF IdsTaken
  <2>9. \A r \in Request : Before(r)' => \A n \in DOMAIN log' : log'[n].id # requests'[r].message.id
    BY <2>1, <2>3 DEF IdsTaken
  <2>10. \A p, r \in Request : p # r /\ Before(p)' /\ Before(r)' =>
           requests'[p].message.id # requests'[r].message.id
    BY <2>1 DEF IdsTaken
  <2>11. \A r \in Request : Writing(r)' => requests'[r].message.id \in 1..issued'
    BY <2>2, <2>3 DEF IdsTaken
  <2> QED BY <2>4, <2>6, <2>8, <2>9, <2>10, <2>11 DEF IdsTaken
<1> QED BY <1>1, <1>2, <1>3, RequestStep

LEMMA PointsAtLastNext ==
  ASSUME M!TypeOK, IdsTaken, PointsAtLast, M!Next
  PROVE  PointsAtLast'
<1>1. CASE UNCHANGED <<log, lastSent, pointer>>
  BY <1>1 DEF PointsAtLast
<1>2. ASSUME NEW q \in Request, M!Admit(q)
      PROVE  PointsAtLast'
  <2> DEFINE m == requests[q].message
  <2>1. /\ m \in M!Sent
        /\ DOMAIN log = 1..Len(log) /\ DOMAIN log' = 1..(Len(log) + 1) /\ Len(log) \in Nat
        /\ log'[Len(log) + 1] = m
        /\ \A n \in DOMAIN log : log'[n] = log[n] /\ log[n] \in M!Sent
        /\ pointer' = IF ~m.reply THEN m.id ELSE pointer
    BY <1>2, AdmitStep
  <2>2. m.id # 0
    BY <2>1, LimitsAssumption DEF M!Sent, M!Ids
  <2> HIDE DEF m
  <2>3. CASE m.reply
    <3>1. CASE pointer = 0
      BY <2>1, <2>3, <3>1 DEF PointsAtLast
    <3>2. CASE pointer # 0
      <4>1. PICK k \in DOMAIN log : /\ ~log[k].reply /\ log[k].id = pointer
                                    /\ \A n \in DOMAIN log : k < n => log[n].reply
        BY <3>2 DEF PointsAtLast
      <4>2. k \in DOMAIN log' /\ ~log'[k].reply /\ log'[k].id = pointer'
            /\ \A n \in DOMAIN log' : k < n => log'[n].reply
        BY <4>1, <2>1, <2>3
      <4> QED BY <4>2, <2>1, <2>3, <3>2 DEF PointsAtLast
    <3> QED BY <3>1, <3>2
  <2>4. CASE ~m.reply
    <3>1. PICK k \in Nat : k = Len(log) + 1
      BY <2>1
    <3>2. k \in DOMAIN log' /\ ~log'[k].reply /\ log'[k].id = pointer'
          /\ \A n \in DOMAIN log' : k < n => log'[n].reply
      BY <3>1, <2>1, <2>4
    <3> QED BY <3>2, <2>1, <2>2, <2>4 DEF PointsAtLast
  <2> QED BY <2>3, <2>4
<1> QED BY <1>1, <1>2, LogStep

\* The pointer is the last message's that is no reply: when such messages were written
\* in the order of their ids, it is the largest id of them.
LEMMA PointerTells ==
  ASSUME M!TypeOK, IdsTaken, PointsAtLast
  PROVE  M!UnreadExact
<1> DEFINE top == {e \in M!Entries : ~e.reply}
<1> SUFFICES ASSUME M!InOrder(top), NEW u \in Member
             PROVE  M!Unread(u) <=> \E e \in top : e.id > read[u]
  BY DEF M!UnreadExact
<1>t. /\ read[u] \in Nat /\ pointer \in Nat
      /\ \A n \in DOMAIN log : log[n] \in M!Sent /\ log[n].id \in Nat
      /\ DOMAIN log \subseteq Nat
  <2>1. log \in Seq(M!Sent) /\ read \in [Member -> 0..MaxSent] /\ pointer \in 0..MaxSent
    BY DEF M!TypeOK
  <2>2. \A n \in DOMAIN log : log[n] \in M!Sent /\ n \in Nat
    BY <2>1
  <2>3. \A m \in M!Sent : m.id \in Nat
    BY LimitsAssumption DEF M!Sent, M!Ids
  <2> QED BY <2>1, <2>2, <2>3, LimitsAssumption
<1>1. \A e \in top : \E n \in DOMAIN log : e = log[n] /\ ~log[n].reply
  BY DEF M!Entries
<1>2. \A n \in DOMAIN log : ~log[n].reply => log[n] \in top
  BY DEF M!Entries
<1>3. CASE pointer = 0
  BY <1>3, <1>1 DEF PointsAtLast, M!Unread
<1>4. CASE pointer # 0
  <2>1. PICK k \in DOMAIN log : /\ ~log[k].reply /\ log[k].id = pointer
                                /\ \A n \in DOMAIN log : k < n => log[n].reply
    BY <1>4 DEF PointsAtLast
  <2>2. \A e \in top : e.id <= pointer
    <3> SUFFICES ASSUME NEW e \in top, pointer < e.id
                 PROVE  FALSE
      BY <1>1, <1>t
    <3>1. PICK i \in DOMAIN log, j \in DOMAIN log : i < j /\ log[i] = log[k] /\ log[j] = e
      BY <2>1, <1>2 DEF M!InOrder
    <3>2. i = k
      BY <3>1, <2>1 DEF IdsTaken
    <3> QED BY <3>1, <3>2, <2>1, <1>1
  <2>3. M!Unread(u) <=> pointer > read[u]
    BY <1>4, <1>t DEF M!Unread
  <2>4. log[k] \in top /\ log[k].id = pointer
    BY <2>1, <1>2
  <2> HIDE DEF top
  <2> QED BY <2>2, <2>3, <2>4, <1>1, <1>t
<1> QED BY <1>3, <1>4

LEMMA BadgeCounts == \A S : M!Cardinality(S) = Cardinality(S)
  BY DEF M!Cardinality, Cardinality

Owed(u) == {i \in counted[u] : i > read[u]} \ waived[u]
BadgeStill == UNCHANGED <<read, badge, counted, waived>>
LEMMA BadgeNext ==
  ASSUME M!TypeOK, IdsTaken, BadgeBounded, M!BadgeKept, M!Next
  PROVE  BadgeBounded' /\ M!BadgeKept'
<1>t. /\ read \in [Member -> 0..MaxSent] /\ badge \in [Member -> 0..MaxSent]
      /\ counted \in [Member -> SUBSET (1..MaxSent)] /\ waived \in [Member -> SUBSET (1..MaxSent)]
  BY DEF M!TypeOK, M!Ids
<1>k. M!BadgeKept <=> \A u \in Member : badge[u] >= Cardinality(Owed(u))
  BY BadgeCounts DEF M!BadgeKept, Owed
<1>l. M!BadgeKept' <=> \A u \in Member : badge'[u] >= Cardinality(Owed(u)')
  BY BadgeCounts DEF M!BadgeKept, Owed
<1>1. ASSUME NEW q \in Request, NEW u \in Member, M!Count(q, u)
      PROVE  BadgeBounded' /\ M!BadgeKept'
  <2>1. PICK i : i = requests[q].message.id
    OBVIOUS
  <2>2. i \notin counted[u] /\ badge' = [badge EXCEPT ![u] = @ + 1]
        /\ counted' = [counted EXCEPT ![u] = @ \cup {i}] /\ read' = read /\ waived' = waived
    BY <1>1, <2>1 DEF M!Count, M!Uncounted
  <2>3. IsFiniteSet(counted[u]) /\ Cardinality(counted[u]) \in Nat
    BY CountsAreFinite, LimitsAssumption
  <2>4. Cardinality(counted[u] \cup {i}) = Cardinality(counted[u]) + 1
    BY <2>2, <2>3, FS_AddElement
  <2>5. BadgeBounded'
    BY <2>2, <2>3, <2>4, <1>t DEF BadgeBounded
  <2>6. PICK K : K = Owed(u)
    OBVIOUS
  <2>7. PICK L : L = Owed(u)'
    OBVIOUS
  <2>8. L \subseteq K \cup {i} /\ K \subseteq counted[u]
    BY <2>6, <2>7, <2>2, <1>t DEF Owed
  <2>9. IsFiniteSet(K) /\ Cardinality(K) \in Nat /\ badge[u] >= Cardinality(K)
    <3>1. IsFiniteSet(K) /\ Cardinality(K) \in Nat
      BY <2>8, <2>3, FS_Subset, FS_CardinalityType
    <3> QED BY <3>1, <2>6, <1>k
  <2>10. IsFiniteSet(K \cup {i}) /\ Cardinality(K \cup {i}) \in {Cardinality(K), Cardinality(K) + 1}
    BY <2>9, FS_AddElement
  <2>11. Cardinality(L) <= Cardinality(K \cup {i}) /\ Cardinality(L) \in Nat
    BY <2>8, <2>10, FS_Subset, FS_CardinalityType
  <2>12. badge'[u] >= Cardinality(L)
    BY <2>2, <2>9, <2>10, <2>11, <1>t
  <2>13. ASSUME NEW v \in Member, v # u
         PROVE  badge'[v] = badge[v] /\ counted'[v] = counted[v]
    BY <2>2, <2>13, <1>t
  <2>14. M!BadgeKept'
    <3> SUFFICES ASSUME NEW v \in Member
                 PROVE  badge'[v] >= Cardinality(Owed(v)')
      BY <1>l
    <3>1. CASE v = u
      BY <3>1, <2>12, <2>7, <2>2
    <3>2. CASE v # u
      <4>1. Owed(v)' = Owed(v)
        BY <3>2, <2>13, <2>2 DEF Owed
      <4> QED BY <4>1, <3>2, <2>13, <1>k
    <3> QED BY <3>1, <3>2
  <2> QED BY <2>5, <2>14
<1>2. ASSUME NEW q \in Request, NEW u \in Member, NEW m \in M!Ids, M!AckChannel(q, u, m)
      PROVE  BadgeBounded' /\ M!BadgeKept'
  <2>1. /\ read' = [read EXCEPT ![u] = M!Larger(read[u], m)] /\ badge' = [badge EXCEPT ![u] = 0]
        /\ waived' = [waived EXCEPT ![u] = {i \in counted[u] : i > read'[u]}] /\ counted' = counted
    BY <1>2 DEF M!AckChannel, M!Acked
  <2>2. badge'[u] = 0 /\ Owed(u)' = {}
    BY <2>1, <1>t DEF Owed
  <2>3. \A v \in Member : v # u => badge'[v] = badge[v] /\ read'[v] = read[v] /\ waived'[v] = waived[v]
    BY <2>1, <1>t
  <2>4. Cardinality({}) = 0
    BY FS_EmptySet
  <2>5. BadgeBounded'
    <3> SUFFICES ASSUME NEW v \in Member
                 PROVE  badge'[v] <= Cardinality(counted[v])
      BY <2>1 DEF BadgeBounded
    <3>1. Cardinality(counted[v]) \in 0..MaxSent
      BY CountsAreFinite
    <3> QED BY <3>1, <2>2, <2>3 DEF BadgeBounded
  <2>6. M!BadgeKept'
    <3> SUFFICES ASSUME NEW v \in Member
                 PROVE  badge'[v] >= Cardinality(Owed(v)')
      BY <1>l
    <3>1. CASE v = u
      BY <3>1, <2>2, <2>4
    <3>2. CASE v # u
      <4>1. Owed(v)' = Owed(v)
        BY <3>2, <2>1, <2>3 DEF Owed
      <4> QED BY <4>1, <3>2, <2>3, <1>k
    <3> QED BY <3>1, <3>2
  <2> QED BY <2>5, <2>6
<1>3. CASE BadgeStill
  BY <1>3 DEF BadgeStill, BadgeBounded, M!BadgeKept
<1>4. M!Next => \/ BadgeStill
                \/ \E q \in Request, u \in Member : M!Count(q, u) \/ \E m \in M!Ids : M!AckChannel(q, u, m)
  BY DEF M!Next, M!CreateMessage, M!ReadClock, M!Admit, M!Write, M!Refuse, M!EnqueueFails, M!Created,
    M!DeleteMessage, M!TellRead, M!Tick, M!UpdateChannel, M!reading, BadgeStill
<1> QED BY <1>1, <1>2, <1>3, <1>4

LEMMA ToldNext ==
  ASSUME M!TypeOK, ToldInOrder, M!ReadShown, M!Next
  PROVE  ToldInOrder' /\ M!ReadShown'
<1>t. /\ read \in [Member -> 0..MaxSent] /\ shown \in [Member -> 0..MaxSent]
      /\ requests \in [Request -> M!RequestRecord \cup {NoRequest}]
      /\ outrun \subseteq Member
  BY DEF M!TypeOK
<1> DEFINE Same == /\ UNCHANGED <<read, shown, outrun>>
                   /\ \A q \in Request, u \in Member : Telling(q, u)' <=> Telling(q, u)
                   /\ \A q \in Request, u \in Member : Telling(q, u) => requests'[q].upTo = requests[q].upTo
<1>1. CASE Same
  BY <1>1 DEF ToldInOrder, M!ReadShown, Telling
<1>2. ASSUME NEW q \in Request, NEW u \in Member, NEW m \in M!Ids, M!AckChannel(q, u, m)
      PROVE  ToldInOrder' /\ M!ReadShown'
  <2>1. /\ read' = [read EXCEPT ![u] = M!Larger(read[u], m)] /\ shown' = shown
        /\ outrun' = IF m < read[u] \/ \E o \in Request : Telling(o, u)
                     THEN outrun \cup {u} ELSE outrun \ {u}
        /\ ~M!Busy(q) /\ requests' = [requests EXCEPT ![q] = [stage |-> "tell", by |-> u, upTo |-> m]]
    BY <1>2 DEF M!AckChannel, M!Acked, M!Begin, Telling
  <2>2. [stage |-> "tell", by |-> u, upTo |-> m] \in M!RequestRecord
    BY DEF M!RequestRecord
  <2>3. Telling(q, u)' /\ requests'[q].upTo = m /\ \A v \in Member : v # u => ~Telling(q, v)'
    BY <2>1, <2>2, <1>t, AbsenceAssumption DEF Telling, M!At, M!Busy
  <2>4. \A r \in Request \ {q} : requests'[r] = requests[r]
        /\ \A v \in Member : Telling(r, v)' <=> Telling(r, v)
    BY <2>1, <1>t DEF Telling, M!At, M!Busy
  <2>5. \A v \in Member : ~Telling(q, v)
    BY <2>1 DEF Telling, M!At
  <2>6. \A v \in Member : v # u => read'[v] = read[v] /\ (v \in outrun' <=> v \in outrun)
    BY <2>1, <1>t
  <2>7. ~(m < read[u]) => read'[u] = m
    BY <2>1, <1>t, LimitsAssumption DEF M!Larger, M!Ids
  <2>8. ToldInOrder'
    <3> SUFFICES ASSUME NEW v \in Member, v \notin outrun', NEW r \in Request, Telling(r, v)'
                 PROVE  /\ requests'[r].upTo = read'[v]
                        /\ \A o \in Request : Telling(o, v)' => o = r
      BY DEF ToldInOrder
    <3>1. CASE v = u
      <4>1. ~(m < read[u]) /\ \A o \in Request : ~Telling(o, u)
        BY <3>1, <2>1
      <4> QED BY <4>1, <2>3, <2>4, <2>7, <3>1
    <3>2. CASE v # u
      BY <3>2, <2>3, <2>4, <2>5, <2>6 DEF ToldInOrder
    <3> QED BY <3>1, <3>2
  <2>9. M!ReadShown'
    BY <2>1, <2>3, <2>4, <2>5, <2>6 DEF M!ReadShown, Telling
  <2> QED BY <2>8, <2>9
<1>3. ASSUME NEW q \in Request, M!TellRead(q)
      PROVE  ToldInOrder' /\ M!ReadShown'
  <2>1. PICK u \in Member : u = requests[q].by
    BY <1>3, RequestType DEF M!TellRead, M!At
  <2>2. /\ Telling(q, u) /\ shown' = [shown EXCEPT ![u] = requests[q].upTo]
        /\ requests' = [requests EXCEPT ![q] = NoRequest] /\ read' = read /\ outrun' = outrun
    BY <1>3, <2>1 DEF M!TellRead, M!End, Telling
  <2>3. \A v \in Member : ~Telling(q, v)'
    BY <2>2, <1>t DEF Telling, M!At, M!Busy
  <2>4. \A r \in Request \ {q} : requests'[r] = requests[r]
        /\ \A v \in Member : Telling(r, v)' <=> Telling(r, v)
    BY <2>2, <1>t DEF Telling, M!At, M!Busy
  <2>5. ToldInOrder'
    BY <2>2, <2>3, <2>4 DEF ToldInOrder
  <2>6. u \notin outrun => shown'[u] = read'[u]
    BY <2>2, <1>t DEF ToldInOrder
  <2>7. \A v \in Member : v # u => shown'[v] = shown[v] /\ ~Telling(q, v)
    BY <2>2, <1>t DEF Telling
  <2>8. M!ReadShown'
    BY <2>2, <2>4, <2>6, <2>7 DEF M!ReadShown, Telling
  <2> QED BY <2>5, <2>8
<1>4. Same \/ \E q \in Request : M!TellRead(q) \/ \E u \in Member, m \in M!Ids : M!AckChannel(q, u, m)
  <2> USE <1>t DEF Telling, M!At, M!Busy
  <2>1. ASSUME NEW q \in Request, NEW u \in Member, NEW exempt \in BOOLEAN, NEW reply \in BOOLEAN,
               NEW pings \in SUBSET Member, M!CreateMessage(q, u, exempt, reply, pings)
        PROVE  Same
    BY <2>1 DEF M!CreateMessage, M!Begin, M!reading
  <2>7. ASSUME NEW q \in Request, M!ReadClock(q)
        PROVE  Same
    <3>1. requests[q].stage = "clock" /\ requests'[q].stage = "admit"
          /\ \A r \in Request \ {q} : requests'[r] = requests[r]
      <4>1. requests[q] \in [stage : {"clock", "admit", "count"}, message : MessageRecord]
        BY <2>7, RequestType DEF M!ReadClock, MessageRecord, M!RequestRecord
      <4> QED BY <4>1, <2>7 DEF M!ReadClock
    <3> QED BY <3>1, <2>7 DEF M!ReadClock, M!reading
  <2>2. ASSUME NEW q \in Request, M!Refuse(q) \/ M!EnqueueFails(q) \/ M!Created(q)
        PROVE  Same
    BY <2>2 DEF M!Refuse, M!EnqueueFails, M!Created, M!End, M!reading
  <2>3. ASSUME NEW q \in Request, M!Admit(q)
        PROVE  Same
    BY <2>3 DEF M!Admit, M!Write, M!reading
  <2>4. ASSUME NEW q \in Request, NEW u \in Member, M!Count(q, u)
        PROVE  Same
    BY <2>4 DEF M!Count
  <2>5. ASSUME M!Tick \/ M!UpdateChannel \/ \E m \in M!Ids : M!DeleteMessage(m)
        PROVE  Same
    BY <2>5 DEF M!Tick, M!UpdateChannel, M!DeleteMessage, M!reading
  <2> HIDE DEF Same
  <2>6. CASE \E q \in Request, u \in Member, exempt \in BOOLEAN, reply \in BOOLEAN, pings \in SUBSET Member :
             M!CreateMessage(q, u, exempt, reply, pings)
    BY <2>6, <2>1
  <2> QED BY <2>2, <2>3, <2>4, <2>5, <2>6, <2>7 DEF M!Next
<1> HIDE DEF Same
<1> QED BY <1>1, <1>2, <1>3, <1>4

LEMMA ChannelInit ==
  ASSUME M!Init
  PROVE  ChanInv
<1>1. /\ time = 1 /\ slow \in BOOLEAN /\ issued = 0 /\ log = <<>> /\ stored = {} /\ pointer = 0
      /\ lastSent = [u \in Member |-> 0] /\ read = [u \in Member |-> 0] /\ shown = read /\ badge = read
      /\ counted = [u \in Member |-> {}] /\ waived = counted /\ outrun = {}
      /\ requests = [q \in Request |-> NoRequest]
  BY DEF M!Init
<1>2. log \in Seq(M!Sent) /\ DOMAIN log = {}
  BY <1>1
<1>3. M!TypeOK
  BY <1>1, <1>2, LimitsAssumption DEF M!TypeOK
<1>4. \A q \in Request : ~M!Busy(q)
  BY <1>1 DEF M!Busy
<1>5. /\ \A q \in Request : ~Before(q) /\ ~Writing(q) /\ ~M!At(q, "admit")
      /\ \A q \in Request, u \in Member : ~Telling(q, u)
  BY <1>4 DEF Before, Writing, Telling, M!At
<1>i. IdsTaken
  BY <1>2, <1>5 DEF IdsTaken
<1>o. ToldInOrder
  BY <1>5 DEF ToldInOrder
<1>6. LastSaid /\ PointsAtLast /\ M!SlowmodeHolds /\ M!ReadShown
  BY <1>1, <1>2 DEF LastSaid, PointsAtLast, M!SlowmodeHolds, M!ReadShown
<1>7. Cardinality({}) = 0
  BY FS_EmptySet
<1>8. \A u \in Member : counted[u] = {} /\ badge[u] = 0 /\ Owed(u) = {}
  BY <1>1 DEF Owed
<1>9. BadgeBounded
  BY <1>7, <1>8 DEF BadgeBounded
<1>10. M!BadgeKept <=> \A u \in Member : badge[u] >= Cardinality(Owed(u))
  BY BadgeCounts DEF M!BadgeKept, Owed
<1>11. M!BadgeKept
  BY <1>7, <1>8, <1>10
<1> QED BY <1>3, <1>i, <1>o, <1>6, <1>9, <1>11 DEF ChanInv

LEMMA ChannelNext ==
  ASSUME ChanInv, M!Next
  PROVE  ChanInv'
<1> USE DEF ChanInv
<1>1. M!TypeOK'
  BY ChannelTypeNext
<1>2. IdsTaken' /\ PointsAtLast'
  BY IdsTakenNext, PointsAtLastNext
<1>3. LastSaid' /\ M!SlowmodeHolds'
  BY LastSaidNext
<1>4. BadgeBounded' /\ M!BadgeKept'
  BY BadgeNext
<1>5. ToldInOrder' /\ M!ReadShown'
  BY ToldNext
<1> QED BY <1>1, <1>2, <1>3, <1>4, <1>5

LEMMA ChannelStays ==
  ASSUME ChanInv, UNCHANGED <<sending, reading>>
  PROVE  ChanInv'
<1> USE DEF sending, reading
<1>1. M!TypeOK' /\ M!SlowmodeHolds' /\ M!BadgeKept' /\ M!ReadShown'
  BY DEF ChanInv, M!TypeOK, M!SlowmodeHolds, M!BadgeKept, M!ReadShown, M!At, M!Busy
<1>2. IdsTaken' /\ LastSaid' /\ PointsAtLast' /\ BadgeBounded' /\ ToldInOrder'
  BY DEF ChanInv, IdsTaken, LastSaid, LastBy, PointsAtLast, BadgeBounded, ToldInOrder,
     Before, Writing, Telling, M!At, M!Busy
<1> QED BY <1>1, <1>2 DEF ChanInv

LEMMA ChannelFollows ==
  ASSUME ChanInv
  PROVE  ChannelHolds
  BY PointerTells DEF ChanInv, ChannelHolds

\* create_message and ack_channel, whatever the members, requests, cooldown and ids:
\* slow mode lets one message through per cooldown however the requests of a member
\* meet, the unread mark and the badge say what is to be read, and devices show the
\* position stored.
THEOREM ChannelOfManyHolds == M!Spec => []ChannelHolds
<1>1. ChanInv /\ UNCHANGED M!mvars => ChanInv'
  BY ChannelStays DEF M!mvars, sending, reading
<1>2. ChanInv /\ [M!Next]_(M!mvars) => ChanInv'
  BY <1>1, ChannelNext
<1> QED BY ChannelInit, <1>2, ChannelFollows, PTL DEF M!Spec

\* The same of the behaviours that the run of this instance looks at.
THEOREM ChannelKept == MCSpec => []ChannelHolds
<1>1. MCInit => ChanInv
  BY ChannelInit DEF MCInit
<1>2. ChanInv /\ [MCNext]_<<taking, sending, reading, caching, pinning, focus>> => ChanInv'
  <2> SUFFICES ASSUME ChanInv, [MCNext]_<<taking, sending, reading, caching, pinning, focus>>
               PROVE  ChanInv'
    OBVIOUS
  <2>1. CASE M!Next
    BY <2>1, ChannelNext
  <2>2. CASE UNCHANGED <<sending, reading>>
    BY <2>2, ChannelStays
  <2> QED BY <2>1, <2>2 DEF MCNext, Sends, Shows
<1> QED BY <1>1, <1>2, ChannelFollows, PTL DEF MCSpec
-----------------------------------------------------------------------------
(* MessageViews: the copies of a client.  Of each message the invariant     *)
(* says who handles it, what is still to be told of it, and that the       *)
(* client, told all of that, comes to have what the row has (Leads).       *)

\* What is in progress for a message, and what is told of it.
Handling(k, m) == ~V!Free(k) /\ tasks[k].of = m
Open(k, m) == Handling(k, m) /\ tasks[k].stage \in {"read", "tell"}
TellsOf(n, m) == n \in DOMAIN told /\ told[n].of = m
LastOf(n, m) == TellsOf(n, m) /\ \A j \in DOMAIN told : n < j => ~TellsOf(j, m)
Unopened(m) == \A k \in Task : ~Open(k, m)
Untellable(m) == \A n \in DOMAIN told : ~TellsOf(n, m)
OpenCreation(m) == \E k \in Task : Open(k, m) /\ tasks[k].op = "create"
Creating(m) == OpenCreation(m) \/ \E n \in DOMAIN told : TellsOf(n, m) /\ told[n].kind = "create"
EndsCreating(m) == \/ OpenCreation(m)
                   \/ Unopened(m) /\ \E n \in DOMAIN told : LastOf(n, m) /\ told[n].kind = "create"

\* What each kind of handler does at each stage, and what it tells is a message.
StagesMatch == \A k \in Task : ~V!Free(k) =>
  \/ tasks[k].stage = "fetch" /\ tasks[k].op = "unfurl"
  \/ tasks[k].stage = "read" /\ tasks[k].op \in {"edit", "unfurl"}
  \/ tasks[k].stage = "tell" /\ tasks[k].op \in {"create", "edit", "unfurl", "delete"}
  \/ tasks[k].stage = "flag" /\ tasks[k].op \in {"pin", "unpin"}
Filled ==
  /\ \A k \in Task : ~V!Free(k) /\ tasks[k].stage = "tell" /\ tasks[k].op # "delete" =>
       tasks[k].copy # Gone
  /\ \A n \in DOMAIN told : told[n].kind # "delete" => told[n].copy # Gone
\* A message is created once and, once deleted, gone for good.
Once(m) ==
  /\ m \in fresh => copies[m] = Gone /\ Untellable(m) /\ \A k \in Task : ~Handling(k, m)
  /\ \A n \in DOMAIN told : TellsOf(n, m) /\ told[n].kind = "delete" => copies[m] = Gone
  /\ \A k \in Task : Handling(k, m) /\ tasks[k].op = "delete" => copies[m] = Gone
\* Neither writes that met, nor a bulk deletion: of such a message, one handler at a
\* time has something to tell, and what is told last is what the row holds.
Calm(m) == m \notin crossed \cup silent
CreatedFirst(m) ==
  /\ \A n \in DOMAIN told : TellsOf(n, m) /\ told[n].kind = "create" =>
       \A j \in DOMAIN told : j < n => ~TellsOf(j, m)
  /\ OpenCreation(m) => Untellable(m)
Says(kind, copy, m) == IF kind = "delete" THEN copies[m] = Gone
                       ELSE copies[m] = copy /\ copy # Gone
TaskSays(k, m) == IF tasks[k].stage = "read" THEN copies[m] # Gone
                  ELSE Says(V!Kind(tasks[k].op), tasks[k].copy, m)
EventSays(n, m) == Says(told[n].kind, told[n].copy, m)
OneWriter(m) ==
  /\ \A k, j \in Task : Open(k, m) /\ Open(j, m) => k = j
  /\ \A k \in Task : Open(k, m) => TaskSays(k, m)
  /\ Unopened(m) => \A n \in DOMAIN told : LastOf(n, m) => EventSays(n, m)
\* What a client that has c of a message comes to have, told all that is pending.
Leads(c, m) ==
  IF Unopened(m) /\ Untellable(m) THEN c = copies[m]
  ELSE copies[m] = Gone \/ /\ c # Gone \/ Creating(m)
                           /\ EndsCreating(m) => c \in {Gone, copies[m]}
Followed(m) ==
  /\ load = "sent" => Leads(list[m], m)
  /\ load = "done" => Leads(cache[m], m)
MsgInv(m) == Once(m) /\ (Calm(m) => CreatedFirst(m) /\ OneWriter(m) /\ Followed(m))

\* The row of pinned_messages is as the last of the pinning handlers left it.
Pinning(k, m) == Handling(k, m) /\ tasks[k].op \in {"pin", "unpin"}
PinsFollow(m) ==
  /\ copies[m] = Gone => m \notin pins
  /\ m \notin tangled =>
       /\ \A k, j \in Task : Pinning(k, m) /\ Pinning(j, m) => k = j
       /\ \A k \in Task : Pinning(k, m) =>
            (m \in pins <=> tasks[k].op = "pin" /\ copies[m] # Gone)
LEMMA TaskPut ==
  ASSUME V!TypeOK, NEW k \in Task, NEW r \in V!TaskRecord, tasks' = [tasks EXCEPT ![k] = r]
  PROVE  /\ tasks'[k] = r /\ r # NoTask /\ \A j \in Task \ {k} : tasks'[j] = tasks[j]
         /\ tasks' \in [Task -> V!TaskRecord \cup {NoTask}]
  BY AbsenceAssumption DEF V!TypeOK

LEMMA TaskEnded ==
  ASSUME V!TypeOK, NEW k \in Task, V!End(k)
  PROVE  /\ tasks'[k] = NoTask /\ \A j \in Task \ {k} : tasks'[j] = tasks[j]
         /\ tasks' \in [Task -> V!TaskRecord \cup {NoTask}]
  BY DEF V!TypeOK, V!End

LEMMA TaskType ==
  ASSUME V!TypeOK, NEW k \in Task, ~V!Free(k)
  PROVE  tasks[k] \in V!TaskRecord /\ tasks[k].of \in Msg /\ tasks[k].copy \in V!Copy \cup {Gone}
         /\ tasks[k].op \in {"create", "edit", "unfurl", "delete", "pin", "unpin"}
  BY DEF V!TypeOK, V!Free, V!TaskRecord

LEMMA ToldType ==
  ASSUME V!TypeOK
  PROVE  /\ told \in Seq(V!Event) /\ Len(told) \in Nat /\ DOMAIN told = 1..Len(told)
         /\ \A n \in DOMAIN told : told[n] \in V!Event /\ told[n].of \in Msg /\ n \in Nat \ {0}
<1>1. told \in Seq(V!Event)
  BY DEF V!TypeOK
<1>2. Len(told) \in Nat /\ DOMAIN told = 1..Len(told)
      /\ \A n \in DOMAIN told : told[n] \in V!Event /\ n \in Nat \ {0}
  BY <1>1
<1>3. \A e \in V!Event : e.of \in Msg
  BY DEF V!Event
<1> QED BY <1>1, <1>2, <1>3

LEMMA ToldGrows ==
  ASSUME V!TypeOK, NEW e \in V!Event, told' = Append(told, e)
  PROVE  /\ Len(told) \in Nat /\ DOMAIN told = 1..Len(told)
         /\ DOMAIN told' = 1..(Len(told) + 1) /\ told'[Len(told) + 1] = e
         /\ \A n \in 1..Len(told) : told'[n] = told[n]
         /\ told' \in Seq(V!Event)
<1>1. \A S : \A s \in Seq(S), x \in S :
        /\ Len(s) \in Nat /\ DOMAIN s = 1..Len(s)
        /\ DOMAIN Append(s, x) = 1..(Len(s) + 1) /\ Append(s, x)[Len(s) + 1] = x
        /\ \A n \in 1..Len(s) : Append(s, x)[n] = s[n]
        /\ Append(s, x) \in Seq(S)
  OBVIOUS
<1>2. told \in Seq(V!Event)
  BY DEF V!TypeOK
<1> QED BY <1>1, <1>2

LEMMA UntoldAreOpen == \A m : V!Untold(m) = {k \in Task : Open(k, m)}
  BY DEF V!Untold, Open, Handling

\* What is the same of a message when a step is about another: its events keep their
\* order, be it that one before them was taken.
Aside(m, d) ==
  /\ copies'[m] = copies[m] /\ cache'[m] = cache[m] /\ list'[m] = list[m]
  /\ (m \in fresh' <=> m \in fresh) /\ (Calm(m)' => Calm(m))
  /\ load' \in {load, "none", "asked"}
  /\ \A k \in Task : /\ Open(k, m)' <=> Open(k, m)
                     /\ Open(k, m) => tasks'[k] = tasks[k]
  /\ \A k \in Task : Handling(k, m)' =>
         (Handling(k, m) \/ m \notin fresh) /\ (tasks'[k].op = "delete" => Handling(k, m) /\ tasks[k].op = "delete")
  /\ DOMAIN told \subseteq Nat \ {0} /\ DOMAIN told' \subseteq Nat \ {0}
  /\ \A n \in Nat : TellsOf(n, m) => n > d
  /\ \A n \in Nat \ {0} : /\ TellsOf(n, m)' <=> TellsOf(n + d, m)
                          /\ TellsOf(n, m)' => told'[n] = told[n + d]

LEMMA AsideKeeps ==
  ASSUME NEW m \in Msg, MsgInv(m), NEW d \in {0, 1}, Aside(m, d)
  PROVE  MsgInv(m)'
<1>d. DOMAIN told \subseteq Nat \ {0} /\ DOMAIN told' \subseteq Nat \ {0}
  BY DEF Aside
<1>1. \A k \in Task : /\ Open(k, m)' <=> Open(k, m)
                      /\ Open(k, m) => tasks'[k] = tasks[k]
  BY DEF Aside
<1>2. \A n \in DOMAIN told' : TellsOf(n, m)' =>
         n + d \in DOMAIN told /\ TellsOf(n + d, m) /\ told'[n] = told[n + d]
  BY <1>d DEF Aside, TellsOf
<1>3. \A n \in DOMAIN told : TellsOf(n, m) =>
         n - d \in DOMAIN told' /\ TellsOf(n - d, m)' /\ told'[n - d] = told[n]
  <2> SUFFICES ASSUME NEW n \in DOMAIN told, TellsOf(n, m)
               PROVE  n - d \in DOMAIN told' /\ TellsOf(n - d, m)' /\ told'[n - d] = told[n]
    OBVIOUS
  <2>1. PICK j \in Nat \ {0} : j = n - d /\ n = j + d
    <3>1. n \in Nat /\ n > d
      BY <1>d DEF Aside
    <3>2. n - d \in Nat \ {0} /\ n = (n - d) + d
      BY <3>1
    <3> QED BY <3>2
  <2>2. TellsOf(j, m)' /\ told'[j] = told[n]
    BY <2>1 DEF Aside
  <2> QED BY <2>1, <2>2 DEF TellsOf
<1>4. Unopened(m)' <=> Unopened(m)
  BY <1>1 DEF Unopened
<1>5. Untellable(m)' <=> Untellable(m)
  BY <1>2, <1>3 DEF Untellable
<1>6. OpenCreation(m)' <=> OpenCreation(m)
  BY <1>1 DEF OpenCreation
<1>7. \A n \in DOMAIN told' : LastOf(n, m)' => LastOf(n + d, m) /\ told'[n] = told[n + d]
  <2> SUFFICES ASSUME NEW n \in DOMAIN told', LastOf(n, m)'
               PROVE  LastOf(n + d, m) /\ told'[n] = told[n + d]
    OBVIOUS
  <2>1. TellsOf(n + d, m) /\ told'[n] = told[n + d] /\ n \in Nat
    BY <1>2, <1>d DEF LastOf
  <2>2. ASSUME NEW j \in DOMAIN told, n + d < j, TellsOf(j, m)
        PROVE  FALSE
    <3>1. j - d \in DOMAIN told' /\ TellsOf(j - d, m)' /\ n < j - d
      BY <1>3, <1>d, <2>1, <2>2
    <3> QED BY <3>1 DEF LastOf
  <2> QED BY <2>1, <2>2 DEF LastOf
<1>8. \A n \in DOMAIN told : LastOf(n, m) => LastOf(n - d, m)' /\ told'[n - d] = told[n]
                                             /\ n - d \in DOMAIN told'
  <2> SUFFICES ASSUME NEW n \in DOMAIN told, LastOf(n, m)
               PROVE  LastOf(n - d, m)' /\ told'[n - d] = told[n] /\ n - d \in DOMAIN told'
    OBVIOUS
  <2>1. PICK i \in DOMAIN told' : i = n - d /\ TellsOf(i, m)' /\ told'[i] = told[n] /\ n \in Nat
    BY <1>3, <1>d DEF LastOf
  <2>2. ASSUME NEW j \in DOMAIN told', i < j, TellsOf(j, m)'
        PROVE  FALSE
    <3>1. j + d \in DOMAIN told /\ TellsOf(j + d, m) /\ n < j + d
      BY <1>2, <1>d, <2>1, <2>2
    <3> QED BY <3>1 DEF LastOf
  <2> QED BY <2>1, <2>2 DEF LastOf
<1>9. Creating(m)' <=> Creating(m)
  BY <1>2, <1>3, <1>6 DEF Creating
<1>10. EndsCreating(m)' <=> EndsCreating(m)
  BY <1>4, <1>6, <1>7, <1>8 DEF EndsCreating, LastOf, TellsOf
<1>11. copies'[m] = copies[m] /\ cache'[m] = cache[m] /\ list'[m] = list[m]
       /\ (m \in fresh' <=> m \in fresh) /\ (Calm(m)' => Calm(m)) /\ load' \in {load, "none", "asked"}
  BY DEF Aside
<1>12. \A c : Leads(c, m)' <=> Leads(c, m)
  BY <1>4, <1>5, <1>9, <1>10, <1>11 DEF Leads
<1>13. Once(m)'
  <2>1. \A k \in Task : Handling(k, m)' =>
         (Handling(k, m) \/ m \notin fresh) /\ (tasks'[k].op = "delete" => Handling(k, m) /\ tasks[k].op = "delete")
    BY DEF Aside
  <2>2. \A n \in DOMAIN told' : TellsOf(n, m)' /\ told'[n].kind = "delete" => copies'[m] = Gone
    BY <1>2, <1>11 DEF MsgInv, Once, TellsOf
  <2>3. \A k \in Task : Handling(k, m)' /\ tasks'[k].op = "delete" => copies'[m] = Gone
    BY <1>1, <2>1, <1>11 DEF MsgInv, Once, Open
  <2>4. m \in fresh' => copies'[m] = Gone /\ Untellable(m)' /\ \A k \in Task : ~Handling(k, m)'
    <3>1. m \in fresh => copies[m] = Gone /\ Untellable(m) /\ \A k \in Task : ~Handling(k, m)
      BY DEF MsgInv, Once
    <3>2. ASSUME m \in fresh', NEW k \in Task
          PROVE  ~Handling(k, m)'
      BY <3>1, <3>2, <2>1, <1>11
    <3> QED BY <3>1, <3>2, <1>5, <1>11
  <2> QED BY <2>2, <2>3, <2>4 DEF Once
<1>14. ASSUME Calm(m)'
       PROVE  CreatedFirst(m)'
  <2>1. ASSUME NEW n \in DOMAIN told', TellsOf(n, m)', told'[n].kind = "create",
               NEW j \in DOMAIN told', j < n, TellsOf(j, m)'
        PROVE  FALSE
    <3>1. /\ n + d \in DOMAIN told /\ TellsOf(n + d, m) /\ told[n + d].kind = "create"
          /\ j + d \in DOMAIN told /\ TellsOf(j + d, m) /\ j + d < n + d
      BY <2>1, <1>2, <1>d
    <3> QED BY <3>1, <1>14, <1>11 DEF MsgInv, CreatedFirst
  <2> QED BY <2>1, <1>5, <1>6, <1>14, <1>11 DEF MsgInv, CreatedFirst
<1>15. ASSUME Calm(m)'
       PROVE  OneWriter(m)'
  <2>1. OneWriter(m)
    BY <1>11, <1>15 DEF MsgInv
  <2>3. \A k \in Task : Open(k, m)' => TaskSays(k, m)'
    BY <1>1, <1>11, <2>1 DEF OneWriter, Says, V!Kind, TaskSays
  <2>4. Unopened(m)' => \A n \in DOMAIN told' : LastOf(n, m)' => EventSays(n, m)'
    <3> SUFFICES ASSUME Unopened(m)', NEW n \in DOMAIN told', LastOf(n, m)'
                 PROVE  EventSays(n, m)'
      OBVIOUS
    <3>1. LastOf(n + d, m) /\ told'[n] = told[n + d] /\ n + d \in DOMAIN told
      BY <1>7 DEF LastOf, TellsOf
    <3>2. EventSays(n + d, m)
      BY <3>1, <1>4, <2>1 DEF OneWriter
    <3> QED BY <3>1, <3>2, <1>11 DEF EventSays, Says
  <2> QED BY <1>1, <2>1, <2>3, <2>4 DEF OneWriter
<1>16. ASSUME Calm(m)'
       PROVE  Followed(m)'
  BY <1>11, <1>12, <1>16 DEF MsgInv, Followed
<1> QED BY <1>13, <1>14, <1>15, <1>16 DEF MsgInv

\* A handler k that has nothing to tell writes c to m, and has r to do.
Wrote(k, m, r, c) ==
  /\ tasks' = [tasks EXCEPT ![k] = r] /\ r \in V!TaskRecord /\ r.of = m
  /\ V!Free(k) \/ (Handling(k, m) /\ tasks[k].stage = "fetch")
  /\ copies' = [copies EXCEPT ![m] = c]
  /\ crossed' = IF V!Untold(m) \ {k} # {} THEN crossed \cup {m} ELSE crossed
  /\ fresh' = fresh \ {m}
  /\ UNCHANGED <<told, cache, list, load, silent>>
  /\ \/ r.op = "create" /\ m \in fresh /\ r.stage = "tell" /\ r.copy = c /\ c # Gone
     \/ r.op \in {"edit", "unfurl"} /\ copies[m] # Gone /\ r.stage = "read" /\ c # Gone
     \/ r.op = "delete" /\ copies[m] # Gone /\ r.stage = "tell" /\ c = Gone

LEMMA WroteTask ==
  ASSUME V!TypeOK, NEW k \in Task, NEW m \in Msg, NEW r, NEW c, Wrote(k, m, r, c)
  PROVE  /\ tasks'[k] = r /\ r # NoTask /\ \A j \in Task \ {k} : tasks'[j] = tasks[j]
         /\ copies'[m] = c /\ \A o \in Msg \ {m} : copies'[o] = copies[o]
         /\ Open(k, m)' /\ ~Open(k, m)
         /\ \A o : \A j \in Task \ {k} :
           (Handling(j, o)' <=> Handling(j, o)) /\ (Open(j, o)' <=> Open(j, o))
         /\ \A o \in Msg \ {m} : ~Handling(k, o)' /\ ~Open(k, o)
         /\ Calm(m)' => Calm(m) /\ \A j \in Task : Open(j, m)' <=> j = k
<1>1. tasks'[k] = r /\ r # NoTask /\ \A j \in Task \ {k} : tasks'[j] = tasks[j]
  BY TaskPut DEF Wrote
<1>2. copies'[m] = c /\ \A o \in Msg \ {m} : copies'[o] = copies[o]
  BY DEF Wrote, V!TypeOK, V!Lists
<1>3. Open(k, m)' /\ ~Open(k, m)
  BY <1>1 DEF Wrote, Open, Handling, V!Free
<1>4. \A o : \A j \in Task \ {k} :
           (Handling(j, o)' <=> Handling(j, o)) /\ (Open(j, o)' <=> Open(j, o))
  BY <1>1 DEF Open, Handling, V!Free
<1>5. \A o \in Msg \ {m} : ~Handling(k, o)' /\ ~Open(k, o)
  BY <1>1 DEF Wrote, Open, Handling, V!Free
<1>6. ASSUME Calm(m)'
      PROVE  Calm(m) /\ \A j \in Task : Open(j, m)' <=> j = k
  <2>1. V!Untold(m) \ {k} = {} /\ Calm(m)
    BY <1>6 DEF Wrote, Calm
  <2>2. \A j \in Task \ {k} : ~Open(j, m)
    BY <2>1, UntoldAreOpen
  <2> QED BY <2>1, <2>2, <1>3, <1>4
<1> QED BY <1>1, <1>2, <1>3, <1>4, <1>5, <1>6

LEMMA WroteAside ==
  ASSUME V!TypeOK, NEW k \in Task, NEW m \in Msg, NEW r, NEW c, Wrote(k, m, r, c),
         NEW o \in Msg \ {m}, MsgInv(o)
  PROVE  MsgInv(o)'
<1>1. Aside(o, 0)
  <2>1. told' = told /\ cache' = cache /\ list' = list /\ load' = load /\ silent' = silent
        /\ fresh' = fresh \ {m} /\ (o \in crossed' <=> o \in crossed)
    BY DEF Wrote
  <2>2. /\ copies'[o] = copies[o] /\ ~Handling(k, o)' /\ ~Open(k, o)
        /\ \A j \in Task \ {k} : tasks'[j] = tasks[j] /\ (Handling(j, o)' <=> Handling(j, o))
                                 /\ (Open(j, o)' <=> Open(j, o))
    BY WroteTask
  <2>3. ASSUME NEW j \in Task
        PROVE  (Open(j, o)' <=> Open(j, o)) /\ (Open(j, o) => tasks'[j] = tasks[j])
    <3>1. CASE j = k
      BY <3>1, <2>2 DEF Open
    <3>2. CASE j # k
      BY <3>2, <2>2
    <3> QED BY <3>1, <3>2
  <2>4. ASSUME NEW j \in Task, Handling(j, o)'
        PROVE  Handling(j, o) /\ tasks'[j] = tasks[j]
    <3>1. j # k
      BY <2>2, <2>4 DEF Handling, V!Free
    <3> QED BY <3>1, <2>2, <2>4
  <2>5. DOMAIN told \subseteq Nat \ {0} /\ \A n \in Nat : TellsOf(n, o) => n > 0
    BY ToldType DEF TellsOf
  <2>6. \A n \in Nat \ {0} : (TellsOf(n, o)' <=> TellsOf(n + 0, o)) /\ told'[n] = told[n + 0]
    BY <2>1 DEF TellsOf
  <2>7. \A j \in Task : Handling(j, o)' =>
         (Handling(j, o) \/ o \notin fresh) /\ (tasks'[j].op = "delete" => Handling(j, o) /\ tasks[j].op = "delete")
    BY <2>3, <2>4
  <2> QED BY <2>1, <2>2, <2>3, <2>7, <2>5, <2>6 DEF Aside, Calm
<1> QED BY <1>1, AsideKeeps

LEMMA WroteSelf ==
  ASSUME V!TypeOK, NEW k \in Task, NEW m \in Msg, NEW r, NEW c, Wrote(k, m, r, c), MsgInv(m)
  PROVE  MsgInv(m)'
<1>1. /\ tasks'[k] = r /\ copies'[m] = c /\ Open(k, m)' /\ Handling(k, m)'
      /\ \A j \in Task \ {k} : /\ Handling(j, m)' <=> Handling(j, m)
                               /\ tasks'[j] = tasks[j]
      /\ Calm(m)' => Calm(m) /\ \A j \in Task : Open(j, m)' <=> j = k
  BY WroteTask DEF Open
<1>2. \A j \in Task \ {k} : Open(j, m)' <=> Open(j, m)
  BY WroteTask
<1>3. ~Open(k, m)
  BY WroteTask
<1>4. told' = told /\ cache' = cache /\ list' = list /\ load' = load /\ fresh' = fresh \ {m}
  BY DEF Wrote
<1>5. \/ r.op = "create" /\ m \in fresh /\ r.stage = "tell" /\ r.copy = c /\ c # Gone
      \/ r.op \in {"edit", "unfurl"} /\ copies[m] # Gone /\ r.stage = "read" /\ c # Gone
      \/ r.op = "delete" /\ copies[m] # Gone /\ r.stage = "tell" /\ c = Gone
  BY DEF Wrote
<1>6. /\ m \in fresh => copies[m] = Gone /\ Untellable(m) /\ \A j \in Task : ~Handling(j, m)
      /\ \A n \in DOMAIN told : TellsOf(n, m) /\ told[n].kind = "delete" => copies[m] = Gone
      /\ \A j \in Task : Handling(j, m) /\ tasks[j].op = "delete" => copies[m] = Gone
  BY DEF MsgInv, Once
<1>7. \A n \in DOMAIN told : TellsOf(n, m)' <=> TellsOf(n, m)
  BY <1>4 DEF TellsOf
<1>8. Untellable(m)' <=> Untellable(m)
  BY <1>4, <1>7 DEF Untellable
<1>9. Once(m)'
  <2>1. \A n \in DOMAIN told' : TellsOf(n, m)' /\ told'[n].kind = "delete" => copies'[m] = Gone
    BY <1>1, <1>4, <1>5, <1>6, <1>7 DEF Untellable
  <2>2. ASSUME NEW j \in Task, Handling(j, m)', tasks'[j].op = "delete"
        PROVE  copies'[m] = Gone
    <3>1. CASE j = k
      BY <3>1, <2>2, <1>1, <1>5
    <3>2. CASE j # k
      <4>1. Handling(j, m) /\ tasks[j].op = "delete"
        BY <3>2, <2>2, <1>1
      <4> QED BY <4>1, <1>1, <1>5, <1>6
    <3> QED BY <3>1, <3>2
  <2> QED BY <1>4, <2>1, <2>2 DEF Once
<1>10. ASSUME Calm(m)'
       PROVE  CreatedFirst(m)' /\ OneWriter(m)' /\ Followed(m)'
  <2>1. CreatedFirst(m) /\ OneWriter(m) /\ Followed(m)
    BY <1>1, <1>10 DEF MsgInv
  <2>2. \A j \in Task : Open(j, m)' <=> j = k
    BY <1>1, <1>10
  <2>3. ~Unopened(m)'
    BY <1>1 DEF Unopened
  <2>4. Unopened(m)
    <3>1. \A j \in Task \ {k} : ~Open(j, m)
      BY <1>2, <2>2
    <3> QED BY <3>1, <1>3 DEF Unopened
  <2>5. OpenCreation(m)' <=> r.op = "create"
    <3>1. OpenCreation(m)' => r.op = "create"
      BY <1>1, <2>2 DEF OpenCreation
    <3> QED BY <1>1, <3>1 DEF OpenCreation
  <2>6. ~OpenCreation(m)
    BY <2>4 DEF OpenCreation, Unopened
  <2>7. CreatedFirst(m)'
    <3>1. \A n \in DOMAIN told' : TellsOf(n, m)' /\ told'[n].kind = "create" =>
            \A j \in DOMAIN told' : j < n => ~TellsOf(j, m)'
      BY <1>4, <1>7, <2>1 DEF CreatedFirst
    <3>2. OpenCreation(m)' => Untellable(m)'
      BY <2>5, <1>5, <1>6, <1>8
    <3> QED BY <3>1, <3>2 DEF CreatedFirst
  <2>8. OneWriter(m)'
    <3>1. \A i, j \in Task : Open(i, m)' /\ Open(j, m)' => i = j
      BY <2>2
    <3>2. TaskSays(k, m)'
      BY <1>1, <1>5 DEF TaskSays, Says, V!Kind
    <3>3. \A j \in Task : Open(j, m)' => TaskSays(j, m)'
      BY <2>2, <3>2, <1>1, <1>5 DEF TaskSays, Says, V!Kind
    <3> QED BY <3>1, <3>3, <2>3 DEF OneWriter
  <2>9. \A v : Leads(v, m) => Leads(v, m)'
    <3> SUFFICES ASSUME NEW v, Leads(v, m)
                 PROVE  Leads(v, m)'
      OBVIOUS
    <3>1. CASE r.op = "delete"
      BY <3>1, <1>1, <1>5, <2>3 DEF Leads
    <3>2. CASE r.op = "create"
      <4>1. v = Gone
        BY <3>2, <1>5, <1>6, <2>4 DEF Leads
      <4>2. Creating(m)'
        BY <3>2, <2>5 DEF Creating
      <4> QED BY <4>1, <4>2, <2>3 DEF Leads
    <3>3. CASE r.op \in {"edit", "unfurl"}
      <4>1. copies[m] # Gone /\ ~OpenCreation(m)'
        BY <3>3, <1>5, <2>5
      <4>2. ~EndsCreating(m)'
        BY <4>1, <2>3 DEF EndsCreating
      <4>3. v # Gone \/ Creating(m)
        BY <4>1, <2>4 DEF Leads
      <4>4. Creating(m) => Creating(m)'
        BY <2>6, <1>4, <1>7 DEF Creating
      <4> QED BY <4>2, <4>3, <4>4, <2>3 DEF Leads
    <3> QED BY <3>1, <3>2, <3>3, <1>5
  <2>10. Followed(m)'
    BY <1>4, <2>1, <2>9 DEF Followed
  <2> QED BY <2>7, <2>8, <2>10
<1> QED BY <1>9, <1>10 DEF MsgInv

LEMMA WriteStep ==
  ASSUME V!TypeOK, NEW k \in Task, NEW m \in Msg, NEW r, NEW c, Wrote(k, m, r, c),
         \A o \in Msg : MsgInv(o)
  PROVE  \A o \in Msg : MsgInv(o)'
<1> SUFFICES ASSUME NEW o \in Msg
             PROVE  MsgInv(o)'
  OBVIOUS
<1>0. MsgInv(o)
  OBVIOUS
<1>1. CASE o # m
  BY <1>0, <1>1, WroteAside
<1>2. MsgInv(m)'
  <2>1. MsgInv(m)
    OBVIOUS
  <2> QED BY <2>1, WroteSelf
<1>3. CASE o = m
  <2> DEFINE P(x) == MsgInv(x)'
  <2>1. P(m) BY <1>2
  <2> HIDE DEF P
  <2>2. P(o) BY <2>1, <1>3
  <2> QED BY <2>2 DEF P
<1> QED BY <1>1, <1>3

LEMMA CreateMessageStep ==
  ASSUME V!TypeOK, \A o \in Msg : MsgInv(o),
         NEW k \in Task, NEW m \in Msg, NEW text \in Texts, V!CreateMessage(k, m, text)
  PROVE  \A o \in Msg : MsgInv(o)'
<1>1. PICK c \in V!Copy : c = [text |-> text, preview |-> FALSE]
  BY DEF V!Copy
<1>2. c # Gone
  BY AbsenceAssumption
<1>3. copies' = [copies EXCEPT ![m] = c] /\ copies'[m] = c
  BY <1>1 DEF V!CreateMessage, V!Written, V!TypeOK, V!Lists
<1>4. PICK r \in V!TaskRecord : r = [op |-> "create", of |-> m, stage |-> "tell", copy |-> c]
  BY DEF V!TaskRecord
<1>5. tasks' = [tasks EXCEPT ![k] = r] /\ V!Free(k) /\ m \in fresh
  BY <1>3, <1>4 DEF V!CreateMessage, V!Goto
<1>6. UNCHANGED <<told, cache, list, load, silent>> /\ fresh' = fresh \ {m}
  BY DEF V!CreateMessage, V!client
<1>7. crossed' = IF V!Untold(m) \ {k} # {} THEN crossed \cup {m} ELSE crossed
  BY DEF V!CreateMessage, V!Written
<1>8. r.of = m /\ r.op = "create" /\ r.stage = "tell" /\ r.copy = c
  BY <1>4
<1>9. V!Free(k) \/ (Handling(k, m) /\ tasks[k].stage = "fetch")
  BY <1>5 DEF V!Free
<1>10. \/ r.op = "create" /\ m \in fresh /\ r.stage = "tell" /\ r.copy = c /\ c # Gone
       \/ r.op \in {"edit", "unfurl"} /\ copies[m] # Gone /\ r.stage = "read" /\ c # Gone
       \/ r.op = "delete" /\ copies[m] # Gone /\ r.stage = "tell" /\ c = Gone
  BY <1>2, <1>5, <1>8
<1>11. Wrote(k, m, r, c)
  BY <1>3, <1>5, <1>6, <1>7, <1>8, <1>9, <1>10 DEF Wrote
<1> QED BY <1>11, WriteStep

LEMMA UpdateMessageStep ==
  ASSUME V!TypeOK, \A o \in Msg : MsgInv(o),
         NEW k \in Task, NEW m \in Msg, NEW text \in Texts, V!UpdateMessage(k, m, text)
  PROVE  \A o \in Msg : MsgInv(o)'
<1>0. copies[m] # Gone /\ copies[m] \in V!Copy /\ V!Free(k)
  BY DEF V!TypeOK, V!Lists, V!UpdateMessage, V!There
<1>1. PICK c \in V!Copy : c = [copies[m] EXCEPT !.text = text]
  BY <1>0 DEF V!Copy
<1>2. c # Gone
  BY AbsenceAssumption
<1>3. copies' = [copies EXCEPT ![m] = c]
  BY <1>1 DEF V!UpdateMessage, V!Written
<1>4. PICK r \in V!TaskRecord : r = [op |-> "edit", of |-> m, stage |-> "read", copy |-> Gone]
  BY DEF V!TaskRecord
<1>5. tasks' = [tasks EXCEPT ![k] = r]
  BY <1>4 DEF V!UpdateMessage, V!Goto
<1>6. fresh' = fresh \ {m}
  BY <1>0 DEF V!UpdateMessage, MsgInv, Once
<1>7. UNCHANGED <<told, cache, list, load, silent>>
  BY DEF V!UpdateMessage, V!client
<1>8. crossed' = IF V!Untold(m) \ {k} # {} THEN crossed \cup {m} ELSE crossed
  BY DEF V!UpdateMessage, V!Written
<1>9. r.of = m /\ r.op = "edit" /\ r.stage = "read"
  BY <1>4
<1>10. V!Free(k) \/ (Handling(k, m) /\ tasks[k].stage = "fetch")
  BY <1>0 DEF V!Free
<1>11. \/ r.op = "create" /\ m \in fresh /\ r.stage = "tell" /\ r.copy = c /\ c # Gone
       \/ r.op \in {"edit", "unfurl"} /\ copies[m] # Gone /\ r.stage = "read" /\ c # Gone
       \/ r.op = "delete" /\ copies[m] # Gone /\ r.stage = "tell" /\ c = Gone
  BY <1>0, <1>2, <1>9
<1>12. Wrote(k, m, r, c)
  BY <1>3, <1>5, <1>6, <1>7, <1>8, <1>9, <1>10, <1>11 DEF Wrote
<1> QED BY <1>12, WriteStep

LEMMA DeleteMessageStep ==
  ASSUME V!TypeOK, \A o \in Msg : MsgInv(o),
         NEW k \in Task, NEW m \in Msg, V!DeleteMessage(k, m)
  PROVE  \A o \in Msg : MsgInv(o)'
<1>0. copies[m] # Gone /\ V!Free(k)
  BY DEF V!DeleteMessage, V!There
<1>4. PICK r \in V!TaskRecord : r = [op |-> "delete", of |-> m, stage |-> "tell", copy |-> Gone]
  BY DEF V!TaskRecord
<1>5. tasks' = [tasks EXCEPT ![k] = r]
  BY <1>4 DEF V!DeleteMessage, V!Goto
<1>6. fresh' = fresh \ {m}
  BY <1>0 DEF V!DeleteMessage, MsgInv, Once
<1>7. UNCHANGED <<told, cache, list, load, silent>>
  BY DEF V!DeleteMessage, V!client
<1>8. /\ copies' = [copies EXCEPT ![m] = Gone]
      /\ crossed' = IF V!Untold(m) \ {k} # {} THEN crossed \cup {m} ELSE crossed
  BY DEF V!DeleteMessage, V!Written
<1>9. r.of = m /\ r.op = "delete" /\ r.stage = "tell"
  BY <1>4
<1>10. V!Free(k) \/ (Handling(k, m) /\ tasks[k].stage = "fetch")
  BY <1>0 DEF V!Free
<1>11. \/ r.op = "create" /\ m \in fresh /\ r.stage = "tell" /\ r.copy = Gone /\ Gone # Gone
       \/ r.op \in {"edit", "unfurl"} /\ copies[m] # Gone /\ r.stage = "read" /\ Gone # Gone
       \/ r.op = "delete" /\ copies[m] # Gone /\ r.stage = "tell" /\ Gone = Gone
  BY <1>0, <1>9
<1>12. Wrote(k, m, r, Gone)
  BY <1>5, <1>6, <1>7, <1>8, <1>9, <1>10, <1>11 DEF Wrote
<1> QED BY <1>12, WriteStep

\* A step of a handler that wrote nothing and has nothing to tell.
Idles(k, r) ==
  /\ tasks' = [tasks EXCEPT ![k] = r]
  /\ \/ r = NoTask
     \/ /\ r \in V!TaskRecord /\ r.of \notin fresh
        /\ r.stage \in {"fetch", "flag"} /\ r.op # "delete"
  /\ V!Free(k) \/ tasks[k].stage \in {"fetch", "flag"}
  /\ UNCHANGED <<copies, told, cache, list, load, fresh, crossed, silent>>

LEMMA IdleStep ==
  ASSUME V!TypeOK, \A o \in Msg : MsgInv(o), NEW k \in Task, NEW r, Idles(k, r)
  PROVE  \A o \in Msg : MsgInv(o)'
<1> SUFFICES ASSUME NEW o \in Msg
             PROVE  MsgInv(o)'
  OBVIOUS
<1>1. tasks'[k] = r /\ \A j \in Task \ {k} : tasks'[j] = tasks[j]
  BY DEF Idles, V!TypeOK
<1>2. \A j \in Task : Open(j, o)' <=> Open(j, o)
  BY <1>1 DEF Idles, Open, Handling, V!Free
<1>3. \A j \in Task : Open(j, o) => tasks'[j] = tasks[j]
  BY <1>1 DEF Idles, Open, Handling, V!Free
<1>4. \A j \in Task : Handling(j, o)' =>
         (Handling(j, o) \/ o \notin fresh) /\
         (tasks'[j].op = "delete" => Handling(j, o) /\ tasks[j].op = "delete")
  BY <1>1 DEF Idles, Handling, V!Free
<1>5. DOMAIN told \subseteq Nat \ {0} /\ \A n \in Nat : TellsOf(n, o) => n > 0
  BY ToldType DEF TellsOf
<1>6. /\ told' = told /\ cache' = cache /\ list' = list /\ load' = load /\ silent' = silent
      /\ fresh' = fresh /\ crossed' = crossed /\ copies' = copies
  BY DEF Idles
<1>7. \A n \in Nat \ {0} : (TellsOf(n, o)' <=> TellsOf(n + 0, o)) /\ told'[n] = told[n + 0]
  BY <1>6 DEF TellsOf
<1>8. Aside(o, 0)
  BY <1>2, <1>3, <1>4, <1>5, <1>6, <1>7 DEF Aside, Calm
<1> QED BY <1>8, AsideKeeps

LEMMA NoPreviewStep ==
  ASSUME V!TypeOK, \A o \in Msg : MsgInv(o), NEW k \in Task, V!NoPreview(k)
  PROVE  \A o \in Msg : MsgInv(o)'
<1>1. Idles(k, NoTask)
  BY DEF Idles, V!NoPreview, V!At, V!End, V!client
<1> QED BY <1>1, IdleStep

LEMMA WritePreviewStep ==
  ASSUME V!TypeOK, \A o \in Msg : MsgInv(o), NEW k \in Task, V!WritePreview(k)
  PROVE  \A o \in Msg : MsgInv(o)'
<1>1. PICK m \in Msg : m = tasks[k].of /\ Handling(k, m) /\ tasks[k].stage = "fetch"
  BY TaskType DEF V!WritePreview, V!At, Handling
<1>2. CASE ~V!There(m)
  <2>1. Idles(k, NoTask)
    BY <1>1, <1>2 DEF Idles, V!WritePreview, V!End, V!client
  <2> QED BY <2>1, IdleStep
<1>3. CASE V!There(m)
  <2>0. copies[m] # Gone /\ copies[m] \in V!Copy
    BY <1>3 DEF V!TypeOK, V!Lists, V!There
  <2>1. PICK c \in V!Copy : c = [copies[m] EXCEPT !.preview = TRUE]
    BY <2>0 DEF V!Copy
  <2>2. c # Gone
    BY AbsenceAssumption
  <2>3. V!Written(k, m, c) /\ V!Goto(k, "unfurl", m, "read", Gone)
    BY <1>1, <1>3, <2>1 DEF V!WritePreview
  <2>4. PICK r \in V!TaskRecord : r = [op |-> "unfurl", of |-> m, stage |-> "read", copy |-> Gone]
    BY DEF V!TaskRecord
  <2>5. tasks' = [tasks EXCEPT ![k] = r]
    BY <2>3, <2>4 DEF V!Goto
  <2>6. fresh' = fresh \ {m}
    BY <2>0 DEF V!WritePreview, MsgInv, Once
  <2>7. UNCHANGED <<told, cache, list, load, silent>>
    BY DEF V!WritePreview, V!client
  <2>8. Wrote(k, m, r, c)
    BY <1>1, <2>0, <2>2, <2>3, <2>4, <2>5, <2>6, <2>7 DEF Wrote, V!Written
  <2> QED BY <2>8, WriteStep
<1> QED BY <1>2, <1>3

LEMMA PinStep ==
  ASSUME V!TypeOK, \A o \in Msg : MsgInv(o), NEW k \in Task, NEW m \in Msg,
         V!PinMessage(k, m) \/ V!UnpinMessage(k, m) \/ V!Flag(k)
  PROVE  \A o \in Msg : MsgInv(o)'
<1>1. CASE V!Flag(k)
  <2>1. Idles(k, NoTask)
    BY <1>1 DEF Idles, V!Flag, V!End, V!client
  <2> QED BY <2>1, IdleStep
<1>2. ASSUME NEW op \in {"pin", "unpin"}, V!Goto(k, op, m, "flag", Gone), V!Free(k), V!There(m),
             UNCHANGED <<copies, told, cache, list, load, fresh, crossed, silent>>
      PROVE  \A o \in Msg : MsgInv(o)'
  <2>1. PICK r \in V!TaskRecord : r = [op |-> op, of |-> m, stage |-> "flag", copy |-> Gone]
    BY DEF V!TaskRecord
  <2>2. m \notin fresh
    BY <1>2 DEF MsgInv, Once, V!There
  <2>3. Idles(k, r)
    BY <1>2, <2>1, <2>2 DEF Idles, V!Goto
  <2> QED BY <2>3, IdleStep
<1>3. CASE V!PinMessage(k, m)
  BY <1>2, <1>3 DEF V!PinMessage, V!client
<1>4. CASE V!UnpinMessage(k, m)
  BY <1>2, <1>4 DEF V!UnpinMessage, V!client
<1> QED BY <1>1, <1>3, <1>4

LEMMA ClientWaits ==
  ASSUME V!TypeOK, \A o \in Msg : MsgInv(o), load' \in {load, "none", "asked"},
         UNCHANGED <<copies, tasks, told, cache, list, fresh, crossed, silent>>
  PROVE  \A o \in Msg : MsgInv(o)'
<1> SUFFICES ASSUME NEW o \in Msg
             PROVE  MsgInv(o)'
  OBVIOUS
<1>1. /\ told' = told /\ cache' = cache /\ list' = list /\ silent' = silent
      /\ fresh' = fresh /\ crossed' = crossed /\ copies' = copies /\ tasks' = tasks
  OBVIOUS
<1>2. \A j \in Task : Handling(j, o)' <=> Handling(j, o)
  BY <1>1 DEF Handling, V!Free
<1>3. \A j \in Task : Open(j, o)' <=> Open(j, o)
  BY <1>1, <1>2 DEF Open
<1>4. DOMAIN told \subseteq Nat \ {0} /\ \A n \in Nat : TellsOf(n, o) => n > 0
  BY ToldType DEF TellsOf
<1>5. \A n \in Nat \ {0} : (TellsOf(n, o)' <=> TellsOf(n + 0, o)) /\ told'[n] = told[n + 0]
  BY <1>1 DEF TellsOf
<1>6. Aside(o, 0)
  BY <1>1, <1>2, <1>3, <1>4, <1>5 DEF Aside, Calm
<1> QED BY <1>6, AsideKeeps

LEMMA BulkDeleteStep ==
  ASSUME V!TypeOK, \A o \in Msg : MsgInv(o), NEW chosen \in SUBSET Msg, V!BulkDelete(chosen)
  PROVE  \A o \in Msg : MsgInv(o)'
<1> SUFFICES ASSUME NEW o \in Msg
             PROVE  MsgInv(o)'
  OBVIOUS
<1>1. /\ told' = told /\ cache' = cache /\ list' = list /\ load' = load
      /\ fresh' = fresh /\ crossed' = crossed /\ tasks' = tasks /\ silent' = silent \cup chosen
  BY DEF V!BulkDelete, V!client
<1>2. \A j \in Task : Handling(j, o)' <=> Handling(j, o)
  BY <1>1 DEF Handling, V!Free
<1>3. \A j \in Task : Open(j, o)' <=> Open(j, o)
  BY <1>1, <1>2 DEF Open
<1>4. DOMAIN told \subseteq Nat \ {0} /\ \A n \in Nat : TellsOf(n, o) => n > 0
  BY ToldType DEF TellsOf
<1>5. \A n \in Nat \ {0} : (TellsOf(n, o)' <=> TellsOf(n + 0, o)) /\ told'[n] = told[n + 0]
  BY <1>1 DEF TellsOf
<1>6. CASE o \in chosen
  <2>1. copies'[o] = Gone /\ ~Calm(o)'
    BY <1>1, <1>6 DEF V!BulkDelete, Calm
  <2>2. Untellable(o) => Untellable(o)'
    BY <1>1 DEF Untellable, TellsOf
  <2>3. Once(o)'
    BY <2>1, <2>2, <1>1, <1>2 DEF Once, MsgInv
  <2> QED BY <2>1, <2>3 DEF MsgInv
<1>7. CASE o \notin chosen
  <2>1. copies'[o] = copies[o]
    BY <1>7 DEF V!BulkDelete
  <2>2. Aside(o, 0)
    BY <1>1, <1>2, <1>3, <1>4, <1>5, <2>1 DEF Aside, Calm
  <2> QED BY <2>2, AsideKeeps
<1> QED BY <1>6, <1>7

LEMMA ReidentifyStep ==
  ASSUME V!TypeOK, \A o \in Msg : MsgInv(o), V!Reidentify
  PROVE  \A o \in Msg : MsgInv(o)'
<1> SUFFICES ASSUME NEW o \in Msg
             PROVE  MsgInv(o)'
  OBVIOUS
<1>1. /\ told' = <<>> /\ load' = "asked"
      /\ fresh' = fresh /\ crossed' = crossed /\ tasks' = tasks /\ silent' = silent
      /\ copies' = copies
  BY DEF V!Reidentify
<1>2. \A j \in Task : Handling(j, o)' <=> Handling(j, o)
  BY <1>1 DEF Handling, V!Free
<1>3. \A j \in Task : Open(j, o)' <=> Open(j, o)
  BY <1>1, <1>2 DEF Open
<1>4. DOMAIN told' = {}
  BY <1>1
<1>5. Untellable(o)'
  BY <1>4 DEF Untellable
<1>6. Once(o)'
  BY <1>1, <1>2, <1>4, <1>5 DEF Once, MsgInv
<1>7. CreatedFirst(o)'
  BY <1>4, <1>5 DEF CreatedFirst
<1>8. ASSUME Calm(o)'
      PROVE  OneWriter(o)'
  <2>1. OneWriter(o)
    BY <1>1, <1>8 DEF MsgInv, Calm
  <2>2. \A j \in Task : Open(j, o)' => TaskSays(j, o)'
    BY <1>1, <1>3, <2>1 DEF OneWriter, TaskSays, Says
  <2> QED BY <1>3, <1>4, <2>1, <2>2 DEF OneWriter
<1>9. Followed(o)'
  BY <1>1 DEF Followed
<1> QED BY <1>6, <1>7, <1>8, <1>9 DEF MsgInv

LEMMA ListMessagesStep ==
  ASSUME V!TypeOK, \A o \in Msg : MsgInv(o), V!ListMessages
  PROVE  \A o \in Msg : MsgInv(o)'
<1> SUFFICES ASSUME NEW o \in Msg
             PROVE  MsgInv(o)'
  OBVIOUS
<1>1. /\ told' = told /\ load' = "sent" /\ list' = copies
      /\ fresh' = fresh /\ tasks' = tasks /\ copies' = copies
      /\ crossed' = {m \in crossed : V!Coming(m)} /\ silent' = {m \in silent : V!Coming(m)}
  BY DEF V!ListMessages
<1>2. \A j \in Task : Handling(j, o)' <=> Handling(j, o)
  BY <1>1 DEF Handling, V!Free
<1>3. \A j \in Task : Open(j, o)' <=> Open(j, o)
  BY <1>1, <1>2 DEF Open
<1>4. \A n \in DOMAIN told : TellsOf(n, o)' <=> TellsOf(n, o)
  BY <1>1 DEF TellsOf
<1>5. Untellable(o)' <=> Untellable(o)
  BY <1>1, <1>4 DEF Untellable
<1>6. Unopened(o)' <=> Unopened(o)
  BY <1>3 DEF Unopened
<1>7. Once(o)'
  BY <1>1, <1>2, <1>4, <1>5 DEF Once, MsgInv
<1>8. Followed(o)'
  BY <1>1 DEF Followed, Leads
<1>9. CASE ~V!Coming(o)
  <2>1. V!Untold(o) = {} /\ ~\E n \in DOMAIN told : told[n].of = o
    BY <1>9 DEF V!Coming
  <2>2. Unopened(o)
    BY <2>1, UntoldAreOpen DEF Unopened
  <2>3. Untellable(o)
    BY <2>1 DEF Untellable, TellsOf
  <2>4. CreatedFirst(o)'
    BY <2>3, <1>1, <1>4, <1>5 DEF CreatedFirst, Untellable
  <2>5. OneWriter(o)'
    BY <2>2, <2>3, <1>1, <1>3, <1>4 DEF OneWriter, Untellable, Unopened, LastOf
  <2> QED BY <1>7, <1>8, <2>4, <2>5 DEF MsgInv
<1>10. CASE V!Coming(o)
  <2>1. Calm(o)' => Calm(o)
    BY <1>1, <1>10 DEF Calm
  <2>2. ASSUME Calm(o)'
        PROVE  CreatedFirst(o)' /\ OneWriter(o)'
    <3>1. CreatedFirst(o) /\ OneWriter(o)
      BY <2>1, <2>2 DEF MsgInv
    <3>2. OpenCreation(o)' => OpenCreation(o)
      BY <1>1, <1>3 DEF OpenCreation
    <3>3. CreatedFirst(o)'
      BY <3>1, <3>2, <1>1, <1>4, <1>5 DEF CreatedFirst
    <3>4. \A j \in Task : Open(j, o)' => TaskSays(j, o)'
      BY <1>1, <1>3, <3>1 DEF OneWriter, TaskSays, Says
    <3>5. Unopened(o)' => \A n \in DOMAIN told' : LastOf(n, o)' => EventSays(n, o)'
      BY <1>1, <1>4, <1>6, <3>1 DEF OneWriter, LastOf, EventSays, Says
    <3> QED BY <3>1, <3>3, <3>4, <3>5, <1>3 DEF OneWriter
  <2> QED BY <1>7, <1>8, <2>2 DEF MsgInv
<1> QED BY <1>9, <1>10

LEMMA ReceiveListStep ==
  ASSUME V!TypeOK, \A o \in Msg : MsgInv(o), V!ReceiveList
  PROVE  \A o \in Msg : MsgInv(o)'
<1> SUFFICES ASSUME NEW o \in Msg
             PROVE  MsgInv(o)'
  OBVIOUS
<1>1. /\ told' = told /\ load = "sent" /\ load' = "done" /\ cache' = list
      /\ fresh' = fresh /\ crossed' = crossed /\ tasks' = tasks /\ silent' = silent
      /\ copies' = copies
  BY DEF V!ReceiveList
<1>2. \A j \in Task : Handling(j, o)' <=> Handling(j, o)
  BY <1>1 DEF Handling, V!Free
<1>3. \A j \in Task : Open(j, o)' <=> Open(j, o)
  BY <1>1, <1>2 DEF Open
<1>4. \A n \in DOMAIN told : TellsOf(n, o)' <=> TellsOf(n, o)
  BY <1>1 DEF TellsOf
<1>5. Untellable(o)' <=> Untellable(o)
  BY <1>1, <1>4 DEF Untellable
<1>6. Unopened(o)' <=> Unopened(o)
  BY <1>3 DEF Unopened
<1>7. Once(o)'
  BY <1>1, <1>2, <1>4, <1>5 DEF Once, MsgInv
<1>8. ASSUME Calm(o)'
      PROVE  CreatedFirst(o)' /\ OneWriter(o)' /\ Followed(o)'
  <2>1. CreatedFirst(o) /\ OneWriter(o) /\ Followed(o)
    BY <1>1, <1>8 DEF MsgInv, Calm
  <2>2. OpenCreation(o)' <=> OpenCreation(o)
    BY <1>1, <1>3 DEF OpenCreation
  <2>3. CreatedFirst(o)'
    BY <2>1, <2>2, <1>1, <1>4, <1>5 DEF CreatedFirst
  <2>4. \A j \in Task : Open(j, o)' => TaskSays(j, o)'
    BY <1>1, <1>3, <2>1 DEF OneWriter, TaskSays, Says
  <2>5. \A n \in DOMAIN told : LastOf(n, o)' <=> LastOf(n, o)
    BY <1>1, <1>4 DEF LastOf
  <2>6. Unopened(o)' => \A n \in DOMAIN told' : LastOf(n, o)' => EventSays(n, o)'
    BY <1>1, <2>5, <1>6, <2>1 DEF OneWriter, EventSays, Says
  <2>7. OneWriter(o)'
    BY <2>1, <2>4, <2>6, <1>3 DEF OneWriter
  <2>8. Creating(o)' <=> Creating(o)
    BY <1>1, <1>4, <2>2 DEF Creating
  <2>9. EndsCreating(o)' <=> EndsCreating(o)
    BY <1>1, <2>5, <1>6, <2>2 DEF EndsCreating
  <2>10. PICK v : v = list[o] /\ Leads(v, o) /\ cache'[o] = v
    BY <1>1, <2>1 DEF Followed
  <2>11. Leads(v, o)'
    BY <2>8, <2>9, <2>10, <1>1, <1>5, <1>6 DEF Leads
  <2>12. Followed(o)'
    BY <2>10, <2>11, <1>1 DEF Followed, Leads
  <2> QED BY <2>3, <2>7, <2>12
<1> QED BY <1>7, <1>8 DEF MsgInv

\* A step of the handler k of m that another message does not notice.
LEMMA HandlerAside ==
  ASSUME V!TypeOK, NEW k \in Task, NEW m \in Msg, Handling(k, m), NEW r,
         tasks' = [tasks EXCEPT ![k] = r], r = NoTask \/ r.of = m,
         NEW o \in Msg \ {m}, MsgInv(o),
         UNCHANGED <<copies, cache, list, load, fresh, crossed, silent>>,
         \/ told' = told
         \/ \E e \in V!Event : e.of = m /\ told' = Append(told, e)
  PROVE  MsgInv(o)'
<1>1. tasks'[k] = r /\ \A j \in Task \ {k} : tasks'[j] = tasks[j]
  BY DEF V!TypeOK
<1>2. ~Handling(k, o) /\ ~Handling(k, o)'
  BY <1>1 DEF Handling, V!Free
<1>3. \A j \in Task : Handling(j, o)' <=> Handling(j, o)
  BY <1>1, <1>2 DEF Handling, V!Free
<1>4. \A j \in Task : Handling(j, o) => tasks'[j] = tasks[j]
  BY <1>1, <1>2 DEF Handling, V!Free
<1>5. \A j \in Task : Open(j, o)' <=> Open(j, o)
  BY <1>3, <1>4 DEF Open
<1>6. DOMAIN told \subseteq Nat \ {0} /\ \A n \in Nat : TellsOf(n, o) => n > 0
  BY ToldType DEF TellsOf
<1>7. /\ DOMAIN told' \subseteq Nat \ {0}
      /\ \A n \in Nat \ {0} : (TellsOf(n, o)' <=> TellsOf(n + 0, o))
                              /\ (TellsOf(n, o)' => told'[n] = told[n + 0])
  <2>1. CASE told' = told
    BY <2>1, <1>6 DEF TellsOf
  <2>2. ASSUME NEW e \in V!Event, e.of = m, told' = Append(told, e)
        PROVE  <1>7!:
    <3>1. /\ Len(told) \in Nat /\ DOMAIN told = 1..Len(told)
          /\ DOMAIN told' = 1..(Len(told) + 1)
          /\ told'[Len(told) + 1] = e /\ \A n \in 1..Len(told) : told'[n] = told[n]
      BY <2>2, ToldGrows
    <3>2. \A n \in Nat \ {0} : TellsOf(n, o)' => n \in DOMAIN told
      <4> SUFFICES ASSUME NEW n \in Nat \ {0}, TellsOf(n, o)'
                   PROVE  n \in DOMAIN told
        OBVIOUS
      <4>1. n \in DOMAIN told' /\ told'[n].of = o
        BY DEF TellsOf
      <4>2. n # Len(told) + 1
        BY <4>1, <3>1, <2>2
      <4> QED BY <4>1, <4>2, <3>1
    <3>3. \A n \in Nat \ {0} : n + 0 = n
      OBVIOUS
    <3>4. DOMAIN told' \subseteq Nat \ {0}
      BY <3>1
    <3>5. \A n \in DOMAIN told : n \in DOMAIN told' /\ told'[n] = told[n]
      BY <3>1
    <3> HIDE <3>1
    <3> QED BY <3>2, <3>3, <3>4, <3>5 DEF TellsOf
  <2> QED BY <2>1, <2>2
<1>8. Aside(o, 0)
  BY <1>3, <1>4, <1>5, <1>6, <1>7 DEF Aside, Calm, Open
<1> QED BY <1>8, AsideKeeps

LEMMA ReadBackStep ==
  ASSUME V!TypeOK, \A o \in Msg : MsgInv(o), NEW k \in Task, V!ReadBack(k)
  PROVE  \A o \in Msg : MsgInv(o)'
<1>0. ~V!Free(k) /\ tasks[k].stage = "read" /\ tasks[k].op \in {"edit", "unfurl"}
  BY DEF V!ReadBack, V!At
<1>1. PICK m \in Msg : m = tasks[k].of /\ Handling(k, m) /\ Open(k, m)
  BY <1>0, TaskType DEF Handling, Open
<1>2. PICK r : /\ tasks' = [tasks EXCEPT ![k] = r]
               /\ \/ ~V!There(m) /\ r = NoTask
                  \/ /\ V!There(m)
                     /\ r = [op |-> tasks[k].op, of |-> m, stage |-> "tell", copy |-> copies[m]]
  BY <1>1 DEF V!ReadBack, V!Goto, V!End
<1>3. UNCHANGED <<copies, told, cache, list, load, fresh, crossed, silent>>
  BY DEF V!ReadBack, V!client
<1>4. tasks'[k] = r /\ \A j \in Task \ {k} : tasks'[j] = tasks[j]
  BY <1>2 DEF V!TypeOK
<1>5. \A o \in Msg \ {m} : MsgInv(o)'
  <2>1. r = NoTask \/ r.of = m
    BY <1>2
  <2>2. UNCHANGED <<copies, cache, list, load, fresh, crossed, silent>> /\ told' = told
    BY <1>3
  <2> QED BY <2>1, <2>2, <1>1, <1>2, HandlerAside
<1>6. MsgInv(m)'
  <2>0. MsgInv(m)
    OBVIOUS
  <2>1. \A j \in Task : Handling(j, m)' => Handling(j, m) /\ tasks'[j].op = tasks[j].op
    BY <1>1, <1>2, <1>4 DEF Handling, V!Free
  <2>2. Untellable(m)' <=> Untellable(m)
    BY <1>3 DEF Untellable, TellsOf
  <2>3. \A n \in DOMAIN told : TellsOf(n, m)' <=> TellsOf(n, m)
    BY <1>3 DEF TellsOf
  <2>4. Once(m)'
    BY <2>0, <2>1, <2>2, <2>3, <1>3 DEF MsgInv, Once
  <2>5. ASSUME Calm(m)'
        PROVE  CreatedFirst(m)' /\ OneWriter(m)' /\ Followed(m)'
    <3>1. CreatedFirst(m) /\ OneWriter(m) /\ Followed(m)
      BY <2>0, <2>5, <1>3 DEF MsgInv, Calm
    <3>2. copies[m] # Gone
      BY <3>1, <1>0, <1>1 DEF OneWriter, TaskSays
    <3>3. r = [op |-> tasks[k].op, of |-> m, stage |-> "tell", copy |-> copies[m]]
          /\ r \in V!TaskRecord
      <4>1. copies[m] \in V!Copy \cup {Gone} /\ tasks[k].op \in {"edit", "unfurl"}
        BY <1>0 DEF V!TypeOK, V!Lists
      <4>2. [op |-> tasks[k].op, of |-> m, stage |-> "tell", copy |-> copies[m]] \in V!TaskRecord
        BY <4>1 DEF V!TaskRecord
      <4> QED BY <4>2, <3>2, <1>2 DEF V!There
    <3>4. Open(k, m)'
      BY <3>3, <1>4, AbsenceAssumption DEF Open, Handling, V!Free
    <3>5. \A j \in Task \ {k} : Open(j, m)' <=> Open(j, m)
      BY <1>4 DEF Open, Handling, V!Free
    <3>6. \A j \in Task : Open(j, m)' <=> Open(j, m)
      <4> SUFFICES ASSUME NEW j \in Task
                   PROVE  Open(j, m)' <=> Open(j, m)
        OBVIOUS
      <4>1. CASE j = k
        BY <4>1, <3>3, <1>4, <1>1, AbsenceAssumption DEF Open, Handling, V!Free
      <4>2. CASE j # k
        BY <4>2, <3>5
      <4> QED BY <4>1, <4>2
    <3>7. \A j \in Task : Open(j, m) <=> j = k
      BY <3>1, <1>1 DEF OneWriter
    <3>8. ~Unopened(m) /\ ~Unopened(m)'
      BY <3>4, <1>1 DEF Unopened
    <3>9. ~OpenCreation(m) /\ ~OpenCreation(m)'
      BY <3>6, <3>7, <3>3, <1>0, <1>4 DEF OpenCreation
    <3>10. CreatedFirst(m)'
      BY <3>1, <3>9, <2>3, <1>3 DEF CreatedFirst
    <3>11. \A j \in Task : Open(j, m)' => TaskSays(j, m)'
      BY <3>6, <3>7, <3>3, <3>2, <1>0, <1>3, <1>4 DEF TaskSays, Says, V!Kind
    <3>12. OneWriter(m)'
      BY <3>6, <3>7, <3>8, <3>11 DEF OneWriter
    <3>13. Creating(m)' <=> Creating(m)
      BY <3>9, <2>3, <1>3 DEF Creating
    <3>14. ~EndsCreating(m)'
      BY <3>8, <3>9 DEF EndsCreating
    <3>15. \A v : Leads(v, m) => Leads(v, m)'
      BY <3>8, <3>13, <3>14, <1>3 DEF Leads
    <3>16. Followed(m)'
      BY <3>1, <3>15, <1>3 DEF Followed
    <3> QED BY <3>10, <3>12, <3>16
  <2> QED BY <2>4, <2>5 DEF MsgInv
<1> QED BY <1>5, <1>6

LEMMA TellStep ==
  ASSUME V!TypeOK, StagesMatch, \A o \in Msg : MsgInv(o), NEW k \in Task, V!Tell(k)
  PROVE  \A o \in Msg : MsgInv(o)'
<1>0. ~V!Free(k) /\ tasks[k].stage = "tell"
      /\ tasks[k].op \in {"create", "edit", "unfurl", "delete"}
  BY DEF V!Tell, StagesMatch
<1>1. PICK m \in Msg : m = tasks[k].of /\ Handling(k, m) /\ Open(k, m)
  BY <1>0, TaskType DEF Handling, Open
<1>2. PICK r : /\ tasks' = [tasks EXCEPT ![k] = r]
               /\ \/ r = NoTask
                  \/ r = [op |-> "unfurl", of |-> m, stage |-> "fetch", copy |-> Gone]
  BY <1>1 DEF V!Tell, V!Goto, V!End
<1>3. UNCHANGED <<copies, cache, list, load, fresh, crossed, silent>>
  BY DEF V!Tell
<1>4. tasks'[k] = r /\ \A j \in Task \ {k} : tasks'[j] = tasks[j]
  BY <1>2 DEF V!TypeOK
<1>5. PICK e \in V!Event :
        /\ e.kind = V!Kind(tasks[k].op) /\ e.of = m /\ e.copy = tasks[k].copy
        /\ told' = Append(told, e)
  <2>1. V!Kind(tasks[k].op) \in {"create", "update", "delete"}
    BY <1>0 DEF V!Kind
  <2>2. PICK kind \in {"create", "update", "delete"} : kind = V!Kind(tasks[k].op)
    BY <2>1
  <2>3. tasks[k].copy \in V!Copy \cup {Gone}
    BY <1>0, TaskType
  <2>4. [kind |-> kind, of |-> m, copy |-> tasks[k].copy] \in V!Event
    BY <2>3 DEF V!Event
  <2>5. told' = Append(told, [kind |-> kind, of |-> m, copy |-> tasks[k].copy])
    BY <2>2, <1>1 DEF V!Tell
  <2> QED BY <2>2, <2>4, <2>5
<1>6. \A o \in Msg \ {m} : MsgInv(o)'
  BY <1>1, <1>2, <1>3, <1>5, HandlerAside
<1>7. MsgInv(m)'
  <2>0. MsgInv(m)
    OBVIOUS
  <2>L. PICK L \in Nat : L = Len(told) + 1
    BY ToldType
  <2>1. /\ Len(told) \in Nat /\ DOMAIN told = 1..Len(told) /\ DOMAIN told' = 1..L
        /\ told'[L] = e /\ \A n \in 1..Len(told) : told'[n] = told[n]
    BY <1>5, <2>L, ToldGrows
  <2>2. \A n \in DOMAIN told : TellsOf(n, m)' <=> TellsOf(n, m)
    BY <2>1, <2>L DEF TellsOf
  <2>3. L \in DOMAIN told' /\ TellsOf(L, m)' /\ L \notin DOMAIN told
        /\ \A n \in DOMAIN told' : n \in DOMAIN told \/ n = L
    BY <2>1, <2>L, <1>5 DEF TellsOf
  <2>4. \A j \in Task : Handling(j, m)' => Handling(j, m)
    BY <1>1, <1>2, <1>4 DEF Handling, V!Free
  <2>5. \A j \in Task : Handling(j, m)' /\ tasks'[j].op = "delete" => tasks[j].op = "delete"
    BY <1>1, <1>2, <1>4 DEF Handling, V!Free
  <2>6. m \notin fresh
    BY <2>0, <1>1 DEF MsgInv, Once
  <2>7. ASSUME NEW n \in DOMAIN told', TellsOf(n, m)', told'[n].kind = "delete"
        PROVE  copies'[m] = Gone
    <3>1. CASE n \in DOMAIN told
      BY <3>1, <2>0, <2>1, <2>2, <2>7, <1>3 DEF MsgInv, Once
    <3>2. CASE n = L
      <4>1. tasks[k].op = "delete"
        BY <3>2, <2>1, <2>7, <1>0, <1>5 DEF V!Kind
      <4> QED BY <4>1, <2>0, <1>1, <1>3 DEF MsgInv, Once
    <3> QED BY <3>1, <3>2, <2>3
  <2>8. Once(m)'
    BY <2>0, <2>4, <2>5, <2>6, <2>7, <1>3 DEF MsgInv, Once
  <2>9. ASSUME Calm(m)'
        PROVE  CreatedFirst(m)' /\ OneWriter(m)' /\ Followed(m)'
    <3>1. CreatedFirst(m) /\ OneWriter(m) /\ Followed(m)
      BY <2>0, <2>9, <1>3 DEF MsgInv, Calm
    <3>2. \A j \in Task : Open(j, m) <=> j = k
      BY <3>1, <1>1 DEF OneWriter
    <3>3. Unopened(m)' /\ ~OpenCreation(m)'
      <4>1. \A j \in Task : ~Open(j, m)'
        BY <3>2, <1>2, <1>4 DEF Open, Handling, V!Free
      <4> QED BY <4>1 DEF Unopened, OpenCreation
    <3>4. OpenCreation(m) <=> tasks[k].op = "create"
      BY <3>2 DEF OpenCreation
    <3>5. e.kind = "create" <=> tasks[k].op = "create"
      BY <1>0, <1>5 DEF V!Kind
    <3>6. ASSUME NEW n \in DOMAIN told', TellsOf(n, m)', told'[n].kind = "create",
                 NEW j \in DOMAIN told', j < n, TellsOf(j, m)'
          PROVE  FALSE
      <4>1. j \in DOMAIN told /\ TellsOf(j, m)
        <5>1. j \in DOMAIN told
          BY <2>1, <2>L, <3>6
        <5> QED BY <5>1, <2>2, <3>6
      <4>2. CASE n \in DOMAIN told
        BY <4>1, <4>2, <3>1, <3>6, <2>1, <2>2 DEF CreatedFirst
      <4>3. CASE n = L
        <5>1. Untellable(m)
          BY <4>3, <3>1, <3>4, <3>5, <3>6, <2>1 DEF CreatedFirst
        <5> QED BY <5>1, <4>1 DEF Untellable
      <4> QED BY <4>2, <4>3, <2>3
    <3>7. CreatedFirst(m)'
      BY <3>3, <3>6 DEF CreatedFirst
    <3>8. \A n \in DOMAIN told' : LastOf(n, m)' => n = L
      <4>1. \A n \in DOMAIN told' : n # L => n < L
        BY <2>1, <2>L
      <4> QED BY <4>1, <2>3 DEF LastOf
    <3>9. EventSays(L, m)'
      <4>1. Says(e.kind, e.copy, m)
        BY <3>1, <1>0, <1>1, <1>5 DEF OneWriter, TaskSays
      <4> QED BY <4>1, <2>1, <1>3 DEF EventSays, Says
    <3>10. OneWriter(m)'
      <4>1. \A j \in Task : ~Open(j, m)'
        BY <3>3 DEF Unopened
      <4>2. \A n \in DOMAIN told' : LastOf(n, m)' => EventSays(n, m)'
        BY <3>8, <3>9, <2>1, <1>3 DEF EventSays, Says
      <4> QED BY <4>1, <4>2 DEF OneWriter
    <3>11. ~Unopened(m) /\ ~Untellable(m)'
      BY <1>1, <2>3 DEF Unopened, Untellable
    <3>12. Creating(m) => Creating(m)'
      <4>1. CASE OpenCreation(m)
        BY <4>1, <3>4, <3>5, <2>1, <2>3 DEF Creating
      <4>2. CASE \E n \in DOMAIN told : TellsOf(n, m) /\ told[n].kind = "create"
        BY <4>2, <2>1, <2>L, <2>2 DEF Creating
      <4> QED BY <4>1, <4>2 DEF Creating
    <3>13. EndsCreating(m)' => EndsCreating(m)
      <4>1. EndsCreating(m)' => e.kind = "create"
        BY <3>3, <3>8, <2>1 DEF EndsCreating
      <4> QED BY <4>1, <3>4, <3>5 DEF EndsCreating
    <3>14. \A v : Leads(v, m) => Leads(v, m)'
      BY <3>11, <3>12, <3>13, <1>3 DEF Leads
    <3>15. Followed(m)'
      BY <3>1, <3>14, <1>3 DEF Followed
    <3> QED BY <3>7, <3>10, <3>15
  <2> QED BY <2>8, <2>9 DEF MsgInv
<1> QED BY <1>6, <1>7

LEMMA ApplyEventStep ==
  ASSUME V!TypeOK, Filled, \A o \in Msg : MsgInv(o), V!ApplyEvent
  PROVE  \A o \in Msg : MsgInv(o)'
<1>1. told \in Seq(V!Event) /\ told # <<>>
  BY DEF V!TypeOK, V!ApplyEvent
<1>2. /\ Len(told) \in Nat /\ Len(told) > 0 /\ DOMAIN told = 1..Len(told)
      /\ told' = Tail(told) /\ DOMAIN told' = 1..(Len(told) - 1)
      /\ \A n \in 1..(Len(told) - 1) : told'[n] = told[n + 1]
  BY <1>1 DEF V!ApplyEvent
<1>3. PICK e \in V!Event : e = told[1] /\ e = Head(told)
  BY <1>1
<1>4. PICK m \in Msg : m = e.of
  BY DEF V!Event
<1>5. /\ UNCHANGED <<copies, tasks, load, list, fresh, silent>>
      /\ crossed' = IF load \in {"asked", "sent"} THEN crossed \cup {m} ELSE crossed
      /\ cache' = [cache EXCEPT ![m] =
           CASE e.kind = "create" -> IF cache[m] = Gone THEN e.copy ELSE cache[m]
             [] e.kind = "update" -> IF cache[m] = Gone THEN Gone ELSE e.copy
             [] e.kind = "delete" -> Gone]
  BY <1>3, <1>4 DEF V!ApplyEvent, V!Added, V!Loading
<1>6. \A o : \A j \in Task : Handling(j, o)' <=> Handling(j, o)
  BY <1>5 DEF Handling, V!Free
<1>7. \A o : \A j \in Task : Open(j, o)' <=> Open(j, o)
  BY <1>5, <1>6 DEF Open
<1>8. \A o : \A n \in Nat \ {0} : /\ TellsOf(n, o)' <=> TellsOf(n + 1, o)
                                  /\ TellsOf(n, o)' => told'[n] = told[n + 1]
  BY <1>2 DEF TellsOf
<1>9. DOMAIN told \subseteq Nat \ {0} /\ DOMAIN told' \subseteq Nat \ {0}
  BY <1>2
<1>10. TellsOf(1, m) /\ 1 \in DOMAIN told /\ told[1] = e
  BY <1>2, <1>3, <1>4 DEF TellsOf
<1>11. ASSUME NEW o \in Msg \ {m}
       PROVE  MsgInv(o)'
  <2>1. \A n \in Nat : TellsOf(n, o) => n > 1
    BY <1>2, <1>3, <1>4 DEF TellsOf
  <2>2. cache'[o] = cache[o] /\ (o \in crossed' <=> o \in crossed)
    BY <1>5 DEF V!TypeOK, V!Lists
  <2>3. Aside(o, 1)
    BY <1>5, <1>6, <1>7, <1>8, <1>9, <2>1, <2>2 DEF Aside, Calm
  <2> QED BY <2>3, AsideKeeps
<1>12. MsgInv(m)'
  <2>0. MsgInv(m)
    OBVIOUS
  <2>1. m \notin fresh
    BY <2>0, <1>10 DEF MsgInv, Once, Untellable
  <2>2. \A n \in DOMAIN told' : TellsOf(n, m)' =>
          TellsOf(n + 1, m) /\ n + 1 \in DOMAIN told /\ told'[n] = told[n + 1]
    BY <1>8, <1>9 DEF TellsOf
  <2>3. \A n \in DOMAIN told : TellsOf(n, m) /\ n # 1 =>
          n - 1 \in DOMAIN told' /\ TellsOf(n - 1, m)' /\ told'[n - 1] = told[n]
    <3> SUFFICES ASSUME NEW n \in DOMAIN told, TellsOf(n, m), n # 1
                 PROVE  n - 1 \in DOMAIN told' /\ TellsOf(n - 1, m)' /\ told'[n - 1] = told[n]
      OBVIOUS
    <3>1. PICK j \in 1..(Len(told) - 1) : j = n - 1 /\ n = j + 1
      <4>1. n - 1 \in 1..(Len(told) - 1) /\ n = (n - 1) + 1
        BY <1>2
      <4> QED BY <4>1
    <3>2. TellsOf(j, m)' /\ told'[j] = told[n] /\ j \in DOMAIN told'
      BY <3>1, <1>2, <1>8
    <3> QED BY <3>1, <3>2 DEF TellsOf
  <2>4. Once(m)'
    BY <2>0, <2>1, <2>2, <1>5, <1>6 DEF MsgInv, Once
  <2>5. ASSUME Calm(m)'
        PROVE  CreatedFirst(m)' /\ OneWriter(m)' /\ Followed(m)'
    <3>1. Calm(m) /\ load \notin {"asked", "sent"} /\ load' = load
      BY <2>5, <1>5 DEF Calm
    <3>2. CreatedFirst(m) /\ OneWriter(m) /\ Followed(m)
      BY <2>0, <3>1 DEF MsgInv
    <3>3. ~OpenCreation(m) /\ ~OpenCreation(m)'
      <4>1. ~OpenCreation(m)
        BY <3>2, <1>10 DEF CreatedFirst, Untellable
      <4> QED BY <4>1, <1>5, <1>7 DEF OpenCreation
    <3>4. \A n \in DOMAIN told : TellsOf(n, m) /\ told[n].kind = "create" => n = 1
      <4>1. \A n \in DOMAIN told : n # 1 => 1 < n
        BY <1>2
      <4> QED BY <4>1, <3>2, <1>10 DEF CreatedFirst
    <3>5. \A n \in DOMAIN told' : ~(TellsOf(n, m)' /\ told'[n].kind = "create")
      <4>1. \A n \in DOMAIN told' : n + 1 # 1
        BY <1>9
      <4> QED BY <4>1, <3>4, <2>2
    <3>6. CreatedFirst(m)'
      BY <3>3, <3>5 DEF CreatedFirst
    <3>7. Unopened(m)' <=> Unopened(m)
      BY <1>7 DEF Unopened
    <3>8. \A n \in DOMAIN told' : LastOf(n, m)' =>
            LastOf(n + 1, m) /\ n + 1 \in DOMAIN told /\ told'[n] = told[n + 1]
      <4> SUFFICES ASSUME NEW n \in DOMAIN told', LastOf(n, m)'
                   PROVE  LastOf(n + 1, m) /\ n + 1 \in DOMAIN told /\ told'[n] = told[n + 1]
        OBVIOUS
      <4>1. TellsOf(n + 1, m) /\ n + 1 \in DOMAIN told /\ told'[n] = told[n + 1]
        BY <2>2 DEF LastOf
      <4>2. ASSUME NEW j \in DOMAIN told, n + 1 < j, TellsOf(j, m)
            PROVE  FALSE
        <5>1. j # 1 /\ n < j - 1
          BY <4>2, <1>2, <1>9
        <5>2. j - 1 \in DOMAIN told' /\ TellsOf(j - 1, m)'
          BY <5>1, <4>2, <2>3
        <5> QED BY <5>1, <5>2 DEF LastOf
      <4> QED BY <4>1, <4>2 DEF LastOf
    <3>9. OneWriter(m)'
      <4>1. \A j \in Task : Open(j, m)' => TaskSays(j, m)'
        BY <1>5, <1>7, <3>2 DEF OneWriter, TaskSays, Says
      <4>2. Unopened(m)' => \A n \in DOMAIN told' : LastOf(n, m)' => EventSays(n, m)'
        BY <1>5, <3>2, <3>7, <3>8 DEF OneWriter, EventSays, Says
      <4> QED BY <4>1, <4>2, <3>2, <1>7 DEF OneWriter
    <3>10. ~EndsCreating(m)'
      BY <3>3, <3>5 DEF EndsCreating, LastOf
    <3>11. ASSUME load = "done"
           PROVE  Leads(cache[m], m)
      BY <3>2, <3>11 DEF Followed
    <3>12. ASSUME load = "done", NEW v, v = cache'[m]
           PROVE  Leads(v, m)'
      <4>1. /\ e.kind \in {"create", "update", "delete"}
            /\ e.kind = "create" => v = IF cache[m] = Gone THEN e.copy ELSE cache[m]
            /\ e.kind = "update" => v = IF cache[m] = Gone THEN Gone ELSE e.copy
            /\ e.kind = "delete" => v = Gone /\ copies[m] = Gone
        <5>1. e.kind \in {"create", "update", "delete"}
          BY DEF V!Event
        <5>2. v = CASE e.kind = "create" -> IF cache[m] = Gone THEN e.copy ELSE cache[m]
                    [] e.kind = "update" -> IF cache[m] = Gone THEN Gone ELSE e.copy
                    [] e.kind = "delete" -> Gone
          BY <1>5, <3>12 DEF V!TypeOK, V!Lists
        <5>3. e.kind = "delete" => copies[m] = Gone
          BY <2>0, <1>10 DEF MsgInv, Once
        <5> QED BY <5>1, <5>2, <5>3
      <4>2. e.kind # "delete" => e.copy # Gone
        BY <1>10 DEF Filled
      <4>3. copies[m] = Gone \/ /\ cache[m] # Gone \/ Creating(m)
                                /\ EndsCreating(m) => cache[m] \in {Gone, copies[m]}
        BY <3>11, <3>12, <1>10 DEF Leads, Untellable
      <4>4. CASE Unopened(m)' /\ Untellable(m)'
        <5>1. \A n \in DOMAIN told : n # 1 => ~TellsOf(n, m)
          BY <4>4, <2>3 DEF Untellable
        <5>2. LastOf(1, m)
          BY <5>1, <1>10, <1>9 DEF LastOf
        <5>3. IF e.kind = "delete" THEN copies[m] = Gone ELSE copies[m] = e.copy /\ e.copy # Gone
          BY <5>2, <4>4, <3>2, <3>7, <1>10 DEF OneWriter, EventSays, Says
        <5>4. e.kind = "create" => EndsCreating(m)
          BY <5>2, <4>4, <3>7, <1>10 DEF EndsCreating
        <5>5. e.kind = "update" => ~Creating(m)
          BY <5>1, <3>3, <1>10 DEF Creating
        <5>6. v = copies[m]
          BY <5>3, <5>4, <5>5, <4>1, <4>3
        <5> QED BY <5>6, <4>4, <1>5 DEF Leads
      <4>5. CASE ~(Unopened(m)' /\ Untellable(m)')
        <5>1. CASE copies[m] = Gone
          BY <5>1, <4>5, <1>5 DEF Leads
        <5>2. CASE copies[m] # Gone
          <6>1. v # Gone \/ Creating(m)'
            <7>1. CASE e.kind = "create"
              BY <7>1, <4>1, <4>2
            <7>2. CASE e.kind = "update" /\ cache[m] # Gone
              BY <7>2, <4>1, <4>2
            <7>3. CASE e.kind = "update" /\ cache[m] = Gone
              <8>1. Creating(m)
                BY <7>3, <4>3, <5>2
              <8>2. PICK n \in DOMAIN told : TellsOf(n, m) /\ told[n].kind = "create"
                BY <8>1, <3>3 DEF Creating
              <8>3. n = 1
                BY <8>2, <3>4
              <8> QED BY <8>2, <8>3, <7>3, <1>10
            <7> QED BY <7>1, <7>2, <7>3, <4>1, <5>2
          <6> QED BY <6>1, <3>10, <4>5, <1>5 DEF Leads
        <5> QED BY <5>1, <5>2
      <4> QED BY <4>4, <4>5
    <3>13. Followed(m)'
      <4>1. load' # "sent"
        BY <3>1
      <4>2. PICK v : v = cache'[m]
        OBVIOUS
      <4>3. load' = "done" => Leads(v, m)'
        BY <3>1, <3>12, <4>2
      <4> QED BY <4>1, <4>2, <4>3 DEF Followed, Leads
    <3> QED BY <3>6, <3>9, <3>13
  <2> QED BY <2>4, <2>5 DEF MsgInv
<1> QED BY <1>11, <1>12

\* The parts of the invariant on the records of handlers and events.
Sound(r) ==
  /\ \/ r.stage = "fetch" /\ r.op = "unfurl"
     \/ r.stage = "read" /\ r.op \in {"edit", "unfurl"}
     \/ r.stage = "tell" /\ r.op \in {"create", "edit", "unfurl", "delete"}
     \/ r.stage = "flag" /\ r.op \in {"pin", "unpin"}
  /\ r.stage = "tell" /\ r.op # "delete" => r.copy # Gone
RecordInv ==
  /\ V!TypeOK
  /\ \A k \in Task : ~V!Free(k) => Sound(tasks[k])
  /\ \A n \in DOMAIN told : told[n].kind # "delete" => told[n].copy # Gone
Sets == flagged \cup pins \cup fresh \cup crossed \cup silent \cup tangled

LEMMA RecordFacts ==
  V!TypeOK => (RecordInv <=> StagesMatch /\ Filled)
BY DEF RecordInv, Sound, StagesMatch, Filled

LEMMA HandlerRecord ==
  ASSUME RecordInv, NEW k \in Task, NEW r,
         \/ V!End(k)
         \/ tasks' = [tasks EXCEPT ![k] = r] /\ r \in V!TaskRecord /\ Sound(r)
  PROVE  /\ tasks' \in [Task -> V!TaskRecord \cup {NoTask}]
         /\ \A j \in Task : ~V!Free(j)' => Sound(tasks[j])'
<1>0. V!TypeOK /\ \A j \in Task : ~V!Free(j) => Sound(tasks[j])
  BY DEF RecordInv
<1>1. CASE V!End(k)
  <2>1. tasks'[k] = NoTask /\ \A j \in Task \ {k} : tasks'[j] = tasks[j]
    BY <1>0, <1>1, TaskEnded
  <2>2. tasks' \in [Task -> V!TaskRecord \cup {NoTask}]
    BY <1>0, <1>1, TaskEnded
  <2> QED BY <2>1, <2>2, <1>0 DEF V!Free, Sound
<1>2. CASE tasks' = [tasks EXCEPT ![k] = r] /\ r \in V!TaskRecord /\ Sound(r)
  <2>1. tasks'[k] = r /\ \A j \in Task \ {k} : tasks'[j] = tasks[j]
    BY <1>0, <1>2, TaskPut
  <2>2. tasks' \in [Task -> V!TaskRecord \cup {NoTask}]
    BY <1>0, <1>2, TaskPut
  <2> QED BY <2>1, <2>2, <1>0, <1>2 DEF V!Free, Sound
<1> QED BY <1>1, <1>2

LEMMA RecordsKept ==
  ASSUME RecordInv, V!VNext
  PROVE  RecordInv'
<1>0. V!TypeOK /\ copies \in V!Lists /\ cache \in V!Lists /\ list \in V!Lists
      /\ Sets \subseteq Msg /\ told \in Seq(V!Event)
      /\ load \in {"none", "asked", "sent", "done"}
      /\ tasks \in [Task -> V!TaskRecord \cup {NoTask}]
      /\ \A n \in DOMAIN told : told[n].kind # "delete" => told[n].copy # Gone
      /\ \A k \in Task : ~V!Free(k) => Sound(tasks[k])
  BY DEF RecordInv, V!TypeOK, Sets
<1>s. ASSUME tasks' = tasks
      PROVE  \A j \in Task : ~V!Free(j)' => Sound(tasks[j])'
  <2>1. \A k \in Task : ~V!Free(k) => Sound(tasks[k])
    BY DEF RecordInv
  <2> QED BY <2>1, <1>s DEF V!Free, Sound
<1>q. ASSUME tasks' \in [Task -> V!TaskRecord \cup {NoTask}],
             \A j \in Task : ~V!Free(j)' => Sound(tasks[j])',
             copies' \in V!Lists, Sets' \subseteq Msg,
             UNCHANGED <<told, cache, list, load>>
      PROVE  RecordInv'
  BY <1>0, <1>q DEF RecordInv, V!TypeOK, Sets
<1>g. ASSUME NEW k \in Task, NEW op, NEW m \in Msg, NEW stage, NEW copy \in V!Copy \cup {Gone},
             V!Goto(k, op, m, stage, copy),
             \/ stage = "fetch" /\ op = "unfurl"
             \/ stage = "read" /\ op \in {"edit", "unfurl"}
             \/ stage = "tell" /\ op \in {"create", "edit", "unfurl", "delete"}
             \/ stage = "flag" /\ op \in {"pin", "unpin"},
             stage = "tell" /\ op # "delete" => copy # Gone
      PROVE  /\ tasks' \in [Task -> V!TaskRecord \cup {NoTask}]
             /\ \A j \in Task : ~V!Free(j)' => Sound(tasks[j])'
  <2>1. PICK r : r = [op |-> op, of |-> m, stage |-> stage, copy |-> copy]
    OBVIOUS
  <2>2. r \in V!TaskRecord /\ Sound(r)
    BY <2>1, <1>g DEF V!TaskRecord, Sound
  <2> QED BY <2>1, <2>2, <1>g, HandlerRecord DEF V!Goto
<1>e. ASSUME NEW k \in Task, V!End(k)
      PROVE  /\ tasks' \in [Task -> V!TaskRecord \cup {NoTask}]
             /\ \A j \in Task : ~V!Free(j)' => Sound(tasks[j])'
  BY <1>e, HandlerRecord
<1>w. ASSUME NEW m \in Msg, NEW c \in V!Copy \cup {Gone}, NEW k, V!Written(k, m, c)
      PROVE  copies' \in V!Lists /\ crossed' \subseteq crossed \cup {m}
  BY <1>0, <1>w DEF V!Written, V!Lists
<1>a. Gone \notin V!Copy
  BY AbsenceAssumption
<1>1. ASSUME NEW k \in Task, NEW m \in Msg, NEW text \in Texts, V!CreateMessage(k, m, text)
      PROVE  RecordInv'
  <2>1. PICK c \in V!Copy : c = [text |-> text, preview |-> FALSE]
    BY DEF V!Copy
  <2>2. V!Written(k, m, c) /\ copies'[m] = c
    BY <1>0, <1>1, <2>1 DEF V!CreateMessage, V!Written, V!Lists
  <2>3. V!Goto(k, "create", m, "tell", c)
    BY <1>1, <2>2 DEF V!CreateMessage, V!Goto
  <2>4. copies' \in V!Lists /\ crossed' \subseteq crossed \cup {m}
    BY <2>2, <1>w
  <2>5. Sets' \subseteq Msg
    BY <2>4, <1>0, <1>1 DEF V!CreateMessage, V!pinning, Sets
  <2>6. /\ tasks' \in [Task -> V!TaskRecord \cup {NoTask}]
        /\ \A j \in Task : ~V!Free(j)' => Sound(tasks[j])'
    BY <2>3, <1>a, <1>g
  <2>7. UNCHANGED <<told, cache, list, load>>
    BY <1>1 DEF V!CreateMessage, V!client
  <2> QED BY <2>4, <2>5, <2>6, <2>7, <1>q
<1>2. ASSUME NEW k \in Task, NEW m \in Msg, NEW text \in Texts, V!UpdateMessage(k, m, text)
      PROVE  RecordInv'
  <2>0. copies[m] \in V!Copy
    BY <1>0, <1>2 DEF V!UpdateMessage, V!There, V!Lists
  <2>1. PICK c \in V!Copy : c = [copies[m] EXCEPT !.text = text]
    BY <2>0 DEF V!Copy
  <2>2. V!Written(k, m, c) /\ V!Goto(k, "edit", m, "read", Gone)
    BY <1>2, <2>1 DEF V!UpdateMessage
  <2>4. copies' \in V!Lists /\ crossed' \subseteq crossed \cup {m}
    BY <2>2, <1>w
  <2>5. Sets' \subseteq Msg
    BY <2>4, <1>0, <1>2 DEF V!UpdateMessage, V!pinning, Sets
  <2>6. /\ tasks' \in [Task -> V!TaskRecord \cup {NoTask}]
        /\ \A j \in Task : ~V!Free(j)' => Sound(tasks[j])'
    BY <2>2, <1>a, <1>g
  <2>7. UNCHANGED <<told, cache, list, load>>
    BY <1>2 DEF V!UpdateMessage, V!client
  <2> QED BY <2>4, <2>5, <2>6, <2>7, <1>q
<1>3. ASSUME NEW k \in Task, NEW m \in Msg, V!DeleteMessage(k, m)
      PROVE  RecordInv'
  <2>2. V!Written(k, m, Gone) /\ V!Goto(k, "delete", m, "tell", Gone)
    BY <1>3 DEF V!DeleteMessage
  <2>4. copies' \in V!Lists /\ crossed' \subseteq crossed \cup {m}
    BY <2>2, <1>w
  <2>5. Sets' \subseteq Msg
    BY <2>4, <1>0, <1>3 DEF V!DeleteMessage, Sets
  <2>6. /\ tasks' \in [Task -> V!TaskRecord \cup {NoTask}]
        /\ \A j \in Task : ~V!Free(j)' => Sound(tasks[j])'
    BY <2>2, <1>g
  <2>7. UNCHANGED <<told, cache, list, load>>
    BY <1>3 DEF V!DeleteMessage, V!client
  <2> QED BY <2>4, <2>5, <2>6, <2>7, <1>q
<1>4. ASSUME NEW k \in Task, NEW m \in Msg, V!PinMessage(k, m) \/ V!UnpinMessage(k, m)
      PROVE  RecordInv'
  <2>1. \E op \in {"pin", "unpin"} : V!Goto(k, op, m, "flag", Gone)
    BY <1>4 DEF V!PinMessage, V!UnpinMessage
  <2>2. copies' \in V!Lists /\ Sets' \subseteq Msg /\ UNCHANGED <<told, cache, list, load>>
    BY <1>0, <1>4 DEF V!PinMessage, V!UnpinMessage, V!client, Sets
  <2>3. /\ tasks' \in [Task -> V!TaskRecord \cup {NoTask}]
        /\ \A j \in Task : ~V!Free(j)' => Sound(tasks[j])'
    BY <2>1, <1>g
  <2> QED BY <2>2, <2>3, <1>q
<1>5. ASSUME NEW k \in Task, V!WritePreview(k)
      PROVE  RecordInv'
  <2>1. PICK m \in Msg : m = tasks[k].of
    BY <1>0, <1>5, TaskType DEF V!WritePreview, V!At
  <2>2. UNCHANGED <<told, cache, list, load>>
    BY <1>5 DEF V!WritePreview, V!client
  <2>3. CASE V!There(m)
    <3>0. copies[m] \in V!Copy
      BY <1>0, <2>3 DEF V!There, V!Lists
    <3>1. PICK c \in V!Copy : c = [copies[m] EXCEPT !.preview = TRUE]
      BY <3>0 DEF V!Copy
    <3>2. V!Written(k, m, c) /\ V!Goto(k, "unfurl", m, "read", Gone)
      BY <1>5, <2>1, <2>3, <3>1 DEF V!WritePreview
    <3>4. copies' \in V!Lists /\ crossed' \subseteq crossed \cup {m}
      BY <3>2, <1>w
    <3>5. Sets' \subseteq Msg
      BY <3>4, <1>0, <1>5 DEF V!WritePreview, V!pinning, Sets
    <3>6. /\ tasks' \in [Task -> V!TaskRecord \cup {NoTask}]
          /\ \A j \in Task : ~V!Free(j)' => Sound(tasks[j])'
      BY <3>2, <1>g
    <3> QED BY <3>4, <3>5, <3>6, <2>2, <1>q
  <2>4. CASE ~V!There(m)
    <3>1. V!End(k) /\ copies' = copies /\ crossed' = crossed
      BY <1>5, <2>1, <2>4 DEF V!WritePreview
    <3>2. copies' \in V!Lists /\ Sets' \subseteq Msg
      BY <3>1, <1>0, <1>5 DEF V!WritePreview, V!pinning, Sets
    <3>3. /\ tasks' \in [Task -> V!TaskRecord \cup {NoTask}]
          /\ \A j \in Task : ~V!Free(j)' => Sound(tasks[j])'
      BY <3>1, <1>e
    <3> QED BY <3>2, <3>3, <2>2, <1>q
  <2> QED BY <2>3, <2>4
<1>6. ASSUME NEW k \in Task, V!NoPreview(k) \/ V!Flag(k)
      PROVE  RecordInv'
  <2>1. V!End(k) /\ copies' \in V!Lists /\ UNCHANGED <<told, cache, list, load>>
    BY <1>0, <1>6 DEF V!NoPreview, V!Flag, V!client
  <2>2. Sets' \subseteq Msg
    <3>1. CASE V!NoPreview(k)
      BY <1>0, <3>1 DEF V!NoPreview, V!pinning, Sets
    <3>2. CASE V!Flag(k)
      <4>1. tasks[k].of \in Msg
        BY <1>0, <3>2, TaskType DEF V!Flag
      <4> QED BY <1>0, <3>2, <4>1 DEF V!Flag, Sets
    <3> QED BY <1>6, <3>1, <3>2
  <2>3. /\ tasks' \in [Task -> V!TaskRecord \cup {NoTask}]
        /\ \A j \in Task : ~V!Free(j)' => Sound(tasks[j])'
    BY <2>1, <1>e
  <2> QED BY <2>1, <2>2, <2>3, <1>q
<1>7. ASSUME NEW k \in Task, V!ReadBack(k)
      PROVE  RecordInv'
  <2>0. tasks[k].op \in {"edit", "unfurl"}
    BY <1>7 DEF V!ReadBack, V!At
  <2>1. PICK m \in Msg : m = tasks[k].of
    BY <1>0, <1>7, TaskType DEF V!ReadBack, V!At
  <2>2. /\ copies' \in V!Lists /\ Sets' \subseteq Msg /\ UNCHANGED <<told, cache, list, load>>
    BY <1>0, <1>7 DEF V!ReadBack, V!client, V!pinning, Sets
  <2>3. CASE V!There(m)
    <3>1. V!Goto(k, tasks[k].op, m, "tell", copies[m]) /\ copies[m] # Gone
          /\ copies[m] \in V!Copy \cup {Gone}
      BY <1>0, <1>7, <2>1, <2>3 DEF V!ReadBack, V!There, V!Lists
    <3>2. /\ tasks' \in [Task -> V!TaskRecord \cup {NoTask}]
          /\ \A j \in Task : ~V!Free(j)' => Sound(tasks[j])'
      BY <3>1, <2>0, <1>g
    <3> QED BY <3>2, <2>2, <1>q
  <2>4. CASE ~V!There(m)
    <3>1. V!End(k)
      BY <1>7, <2>1, <2>4 DEF V!ReadBack
    <3>2. /\ tasks' \in [Task -> V!TaskRecord \cup {NoTask}]
          /\ \A j \in Task : ~V!Free(j)' => Sound(tasks[j])'
      BY <3>1, <1>e
    <3> QED BY <3>2, <2>2, <1>q
  <2> QED BY <2>3, <2>4
<1>8. ASSUME NEW k \in Task, V!Tell(k)
      PROVE  RecordInv'
  <2>0. /\ ~V!Free(k) /\ tasks[k].stage = "tell" /\ Sound(tasks[k])
        /\ tasks[k].copy \in V!Copy \cup {Gone} /\ tasks[k].of \in Msg
    <3>1. ~V!Free(k) /\ tasks[k].stage = "tell"
      BY <1>8 DEF V!Tell
    <3>2. Sound(tasks[k])
      BY <3>1 DEF RecordInv
    <3>3. tasks[k].copy \in V!Copy \cup {Gone} /\ tasks[k].of \in Msg
      BY <3>1, <1>0, TaskType
    <3> QED BY <3>1, <3>2, <3>3
  <2>1. PICK m \in Msg : m = tasks[k].of
    BY <2>0
  <2>2. /\ tasks' \in [Task -> V!TaskRecord \cup {NoTask}]
        /\ \A j \in Task : ~V!Free(j)' => Sound(tasks[j])'
    <3>1. V!End(k) \/ V!Goto(k, "unfurl", m, "fetch", Gone)
      BY <1>8, <2>1 DEF V!Tell
    <3> QED BY <3>1, <1>e, <1>g
  <2>3. PICK kind \in {"create", "update", "delete"} : kind = V!Kind(tasks[k].op)
    BY <2>0 DEF V!Kind, Sound
  <2>4. PICK e \in V!Event : e = [kind |-> kind, of |-> m, copy |-> tasks[k].copy]
    BY <2>0 DEF V!Event
  <2>5. told' = Append(told, e)
    BY <1>8, <2>1, <2>3, <2>4 DEF V!Tell
  <2>6. kind # "delete" => tasks[k].copy # Gone
    BY <2>0, <2>3 DEF Sound, V!Kind
  <2>7. /\ told' \in Seq(V!Event) /\ Len(told) \in Nat /\ DOMAIN told = 1..Len(told)
        /\ DOMAIN told' = 1..(Len(told) + 1) /\ told'[Len(told) + 1] = e
        /\ \A n \in 1..Len(told) : told'[n] = told[n]
    BY <1>0, <2>5, ToldGrows
  <2>8. \A n \in DOMAIN told' : told'[n].kind # "delete" => told'[n].copy # Gone
    BY <1>0, <2>4, <2>6, <2>7
  <2>9. /\ copies' = copies /\ cache' = cache /\ list' = list /\ load' = load
        /\ Sets' = Sets
    BY <1>8 DEF V!Tell, V!pinning, Sets
  <2> QED BY <2>2, <2>7, <2>8, <2>9, <1>0 DEF RecordInv, V!TypeOK, Sets
<1>9. ASSUME NEW chosen, chosen \subseteq Msg, V!BulkDelete(chosen)
      PROVE  RecordInv'
  <2>1. copies' \in V!Lists
    BY <1>0, <1>9 DEF V!BulkDelete, V!Lists
  <2>2. Sets' \subseteq Msg
    BY <1>0, <1>9 DEF V!BulkDelete, Sets
  <2>3. tasks' = tasks /\ UNCHANGED <<told, cache, list, load>>
    BY <1>9 DEF V!BulkDelete, V!client
  <2>4. \A j \in Task : ~V!Free(j)' => Sound(tasks[j])'
    BY <2>3, <1>s
  <2> QED BY <1>0, <2>1, <2>2, <2>3, <2>4, <1>q
<1>10. ASSUME \/ V!OpenChannel \/ V!Reidentify \/ V!ListMessages
              \/ V!ReceiveList \/ V!LoadFails \/ V!ApplyEvent
       PROVE  RecordInv'
  <2>1. tasks' = tasks /\ copies' \in V!Lists /\ list' \in V!Lists
        /\ load' \in {"none", "asked", "sent", "done"}
    BY <1>0, <1>10 DEF V!OpenChannel, V!Reidentify, V!ListMessages, V!ReceiveList, V!LoadFails,
       V!ApplyEvent
  <2>2. \A j \in Task : ~V!Free(j)' => Sound(tasks[j])'
    BY <2>1, <1>s
  <2>3. /\ told' \in Seq(V!Event) /\ cache' \in V!Lists /\ Sets' \subseteq Msg
        /\ \A n \in DOMAIN told' : told'[n].kind # "delete" => told'[n].copy # Gone
    <3>1. CASE V!OpenChannel \/ V!ListMessages \/ V!ReceiveList \/ V!LoadFails
      BY <1>0, <3>1 DEF V!OpenChannel, V!ListMessages, V!ReceiveList, V!LoadFails, V!pinning, Sets
    <3>2. CASE V!Reidentify
      <4>1. told' = <<>> /\ cache' = cache /\ Sets' = Sets
        BY <3>2 DEF V!Reidentify, V!pinning, Sets
      <4> QED BY <4>1, <1>0
    <3>3. CASE V!ApplyEvent
      <4>1. /\ told # <<>> /\ told' = Tail(told) /\ told' \in Seq(V!Event)
            /\ Head(told) \in V!Event /\ Len(told) \in Nat
            /\ DOMAIN told' = 1..(Len(told) - 1) /\ DOMAIN told = 1..Len(told)
            /\ \A n \in DOMAIN told' : told'[n] = told[n + 1] /\ n + 1 \in DOMAIN told
        BY <1>0, <3>3 DEF V!ApplyEvent
      <4>2. PICK e \in V!Event : e = Head(told)
        BY <4>1
      <4>3. e.of \in Msg /\ e.copy \in V!Copy \cup {Gone}
            /\ e.kind \in {"create", "update", "delete"}
        BY DEF V!Event
      <4>4. cache' \in V!Lists
        BY <1>0, <3>3, <4>2, <4>3 DEF V!ApplyEvent, V!Lists, V!Added
      <4>5. Sets' \subseteq Msg
        BY <1>0, <3>3, <4>2, <4>3 DEF V!ApplyEvent, V!pinning, Sets
      <4>6. \A n \in DOMAIN told' : told'[n].kind # "delete" => told'[n].copy # Gone
        BY <1>0, <4>1
      <4> QED BY <4>1, <4>4, <4>5, <4>6
    <3> QED BY <1>10, <3>1, <3>2, <3>3
  <2> QED BY <1>0, <2>1, <2>2, <2>3 DEF RecordInv, V!TypeOK, Sets
<1> QED BY <1>1, <1>2, <1>3, <1>4, <1>5, <1>6, <1>7, <1>8, <1>9, <1>10 DEF V!VNext

PinInv(m) ==
  /\ PinsFollow(m)
  /\ m \in tangled \/ V!Meets(m) \/ (m \in pins <=> m \in flagged)

LEMMA MeetsPinning == \A m : V!Meets(m) <=> \E k \in Task : Pinning(k, m)
BY DEF V!Meets, Pinning, Handling

\* What a step about something else leaves of the pins of a message.
LEMMA PinsAside ==
  ASSUME NEW m \in Msg, PinInv(m),
         \A k \in Task : Pinning(k, m)' <=> Pinning(k, m),
         \A k \in Task : Pinning(k, m) => tasks'[k].op = tasks[k].op,
         copies'[m] = Gone <=> copies[m] = Gone,
         m \in pins' <=> m \in pins, m \in flagged' <=> m \in flagged,
         m \in tangled' <=> m \in tangled
  PROVE  PinInv(m)'
<1>1. V!Meets(m)' <=> V!Meets(m)
  <2>1. V!Meets(m) <=> \E k \in Task : Pinning(k, m)
    BY MeetsPinning
  <2>2. V!Meets(m)' <=> \E k \in Task : Pinning(k, m)'
    BY DEF V!Meets, Pinning, Handling
  <2> QED BY <2>1, <2>2
<1>2. PinsFollow(m)'
  BY DEF PinInv, PinsFollow
<1> QED BY <1>1, <1>2 DEF PinInv

\* A handler that has nothing to do with pins goes on.
LEMMA HandlerPins ==
  ASSUME V!TypeOK, NEW k \in Task, NEW r,
         tasks' = [tasks EXCEPT ![k] = r],
         r = NoTask \/ r.op \notin {"pin", "unpin"},
         V!Free(k) \/ tasks[k].op \notin {"pin", "unpin"}
  PROVE  \A m : \A j \in Task : /\ Pinning(j, m)' <=> Pinning(j, m)
                                /\ Pinning(j, m) => tasks'[j].op = tasks[j].op
<1>1. tasks'[k] = r /\ \A j \in Task \ {k} : tasks'[j] = tasks[j]
  BY DEF V!TypeOK
<1>2. \A m : ~Pinning(k, m) /\ ~Pinning(k, m)'
  BY <1>1 DEF Pinning, Handling, V!Free
<1>3. \A m : \A j \in Task \ {k} : Pinning(j, m)' <=> Pinning(j, m)
  BY <1>1 DEF Pinning, Handling, V!Free
<1> SUFFICES ASSUME NEW m, NEW j \in Task
             PROVE  (Pinning(j, m)' <=> Pinning(j, m)) /\ (Pinning(j, m) => tasks'[j].op = tasks[j].op)
  OBVIOUS
<1>4. CASE j = k
  BY <1>4, <1>1 DEF Pinning, Handling, V!Free
<1>5. CASE j # k
  BY <1>5, <1>1, <1>3
<1> QED BY <1>4, <1>5

LEMMA PinsKept ==
  ASSUME RecordInv, \A m \in Msg : PinInv(m) /\ Once(m), V!VNext
  PROVE  \A m \in Msg : PinInv(m)'
<1>0. V!TypeOK
  BY DEF RecordInv
<1>s. \A k \in Task : ~V!Free(k) => Sound(tasks[k])
  BY DEF RecordInv
<1>h. ASSUME NEW k \in Task, NEW r, tasks' = [tasks EXCEPT ![k] = r],
             r = NoTask \/ r.op \notin {"pin", "unpin"},
             V!Free(k) \/ tasks[k].op \notin {"pin", "unpin"},
             \A m \in Msg : copies'[m] = Gone <=> copies[m] = Gone,
             UNCHANGED <<pins, flagged, tangled>>
      PROVE  \A m \in Msg : PinInv(m)'
  <2>1. \A m : \A j \in Task : /\ Pinning(j, m)' <=> Pinning(j, m)
                               /\ Pinning(j, m) => tasks'[j].op = tasks[j].op
    BY <1>0, <1>h, HandlerPins
  <2> QED BY <2>1, <1>h, PinsAside
<1>c. ASSUME UNCHANGED <<tasks, copies, pins, flagged, tangled>>
      PROVE  \A m \in Msg : PinInv(m)'
  <2>1. \A m : \A j \in Task : Pinning(j, m)' <=> Pinning(j, m)
    BY <1>c DEF Pinning, Handling, V!Free
  <2> QED BY <2>1, <1>c, PinsAside
<1>w. ASSUME NEW m \in Msg, NEW c, copies' = [copies EXCEPT ![m] = c]
      PROVE  copies'[m] = c /\ \A o \in Msg \ {m} : copies'[o] = copies[o]
  BY <1>0, <1>w DEF V!TypeOK, V!Lists
<1>g. ASSUME NEW k, NEW op, NEW m, NEW stage, NEW copy, V!Goto(k, op, m, stage, copy)
      PROVE  \E r : tasks' = [tasks EXCEPT ![k] = r] /\ r.op = op
  <2>1. PICK r : r = [op |-> op, of |-> m, stage |-> stage, copy |-> copy]
    OBVIOUS
  <2>2. r.op = op /\ tasks' = [tasks EXCEPT ![k] = r]
    BY <2>1, <1>g DEF V!Goto
  <2> QED BY <2>2
<1>1. ASSUME NEW k \in Task, NEW m \in Msg, NEW text \in Texts, V!CreateMessage(k, m, text)
      PROVE  \A o \in Msg : PinInv(o)'
  <2>1. V!Free(k) /\ m \in fresh /\ UNCHANGED <<pins, flagged, tangled>>
    BY <1>1 DEF V!CreateMessage, V!pinning
  <2>2. PICK r : tasks' = [tasks EXCEPT ![k] = r] /\ r.op = "create"
    BY <1>1, <1>g DEF V!CreateMessage
  <2>3. \A o : \A j \in Task : /\ Pinning(j, o)' <=> Pinning(j, o)
                               /\ Pinning(j, o) => tasks'[j].op = tasks[j].op
    BY <1>0, <2>1, <2>2, HandlerPins
  <2>4. \A o \in Msg \ {m} : copies'[o] = copies[o]
    BY <1>1, <1>w DEF V!CreateMessage, V!Written
  <2>5. \A o \in Msg \ {m} : PinInv(o)'
    BY <2>1, <2>3, <2>4, PinsAside
  <2>6. PinInv(m)'
    <3>1. copies[m] = Gone /\ \A j \in Task : ~Pinning(j, m)
      BY <2>1 DEF Once, Pinning
    <3>2. m \notin pins /\ \A j \in Task : ~Pinning(j, m)'
      BY <3>1, <2>3 DEF PinInv, PinsFollow
    <3>3. PinsFollow(m)'
      BY <3>2, <2>1 DEF PinsFollow
    <3>4. m \in tangled \/ (m \in pins <=> m \in flagged)
      BY <3>1, MeetsPinning DEF PinInv
    <3> QED BY <3>3, <3>4, <2>1 DEF PinInv
  <2> QED BY <2>5, <2>6
<1>2. ASSUME NEW k \in Task, NEW m \in Msg, NEW text \in Texts, V!UpdateMessage(k, m, text)
      PROVE  \A o \in Msg : PinInv(o)'
  <2>1. V!Free(k) /\ copies[m] # Gone /\ UNCHANGED <<pins, flagged, tangled>>
    BY <1>2 DEF V!UpdateMessage, V!There, V!pinning
  <2>2. PICK r : tasks' = [tasks EXCEPT ![k] = r] /\ r.op = "edit"
    BY <1>2, <1>g DEF V!UpdateMessage
  <2>3. PICK c : c = [copies[m] EXCEPT !.text = text] /\ copies' = [copies EXCEPT ![m] = c]
    BY <1>2 DEF V!UpdateMessage, V!Written
  <2>4. c # Gone
    <3>1. copies[m] \in V!Copy
      BY <1>0, <2>1 DEF V!TypeOK, V!Lists
    <3>2. c \in V!Copy
      BY <3>1, <2>3 DEF V!Copy
    <3> QED BY <3>2, AbsenceAssumption
  <2>5. \A o \in Msg : copies'[o] = Gone <=> copies[o] = Gone
    BY <2>1, <2>3, <2>4, <1>w
  <2> QED BY <2>1, <2>2, <2>5, <1>h
<1>3. ASSUME NEW k \in Task, NEW m \in Msg, V!DeleteMessage(k, m)
      PROVE  \A o \in Msg : PinInv(o)'
  <2>1. V!Free(k) /\ tangled' = tangled /\ flagged' = flagged \ {m} /\ pins' = pins \ {m}
        /\ copies' = [copies EXCEPT ![m] = Gone]
    BY <1>3 DEF V!DeleteMessage, V!Written
  <2>2. PICK r : tasks' = [tasks EXCEPT ![k] = r] /\ r.op = "delete"
    BY <1>3, <1>g DEF V!DeleteMessage
  <2>3. \A o : \A j \in Task : /\ Pinning(j, o)' <=> Pinning(j, o)
                               /\ Pinning(j, o) => tasks'[j].op = tasks[j].op
    BY <1>0, <2>1, <2>2, HandlerPins
  <2>4. copies'[m] = Gone /\ \A o \in Msg \ {m} : copies'[o] = copies[o]
    BY <2>1, <1>w
  <2>5. \A o \in Msg \ {m} : PinInv(o)'
    BY <2>1, <2>3, <2>4, PinsAside
  <2>6. PinInv(m)'
    BY <2>1, <2>3, <2>4 DEF PinInv, PinsFollow
  <2> QED BY <2>5, <2>6
<1>4. ASSUME NEW k \in Task, NEW m \in Msg, V!PinMessage(k, m) \/ V!UnpinMessage(k, m)
      PROVE  \A o \in Msg : PinInv(o)'
  <2>0. V!Free(k) /\ copies[m] # Gone /\ copies' = copies /\ flagged' = flagged
        /\ tangled' = IF V!Meets(m) THEN tangled \cup {m} ELSE tangled
    BY <1>4 DEF V!PinMessage, V!UnpinMessage, V!There
  <2>1. PICK r : /\ r \in V!TaskRecord /\ r.of = m /\ tasks' = [tasks EXCEPT ![k] = r]
                 /\ \/ r.op = "pin" /\ pins' = pins \cup {m}
                    \/ r.op = "unpin" /\ pins' = pins \ {m}
    <3>1. \A op \in {"pin", "unpin"} :
            [op |-> op, of |-> m, stage |-> "flag", copy |-> Gone] \in V!TaskRecord
      BY DEF V!TaskRecord
    <3> QED BY <3>1, <1>4 DEF V!PinMessage, V!UnpinMessage, V!Goto
  <2>2. tasks'[k] = r /\ r # NoTask /\ \A j \in Task \ {k} : tasks'[j] = tasks[j]
    BY <1>0, <2>1, TaskPut
  <2>3. Pinning(k, m)' /\ \A o : ~Pinning(k, o)
    BY <2>0, <2>1, <2>2 DEF Pinning, Handling, V!Free
  <2>4. \A o : \A j \in Task \ {k} : Pinning(j, o)' <=> Pinning(j, o)
    BY <2>2 DEF Pinning, Handling, V!Free
  <2>5. ASSUME NEW o \in Msg \ {m}
        PROVE  PinInv(o)'
    <3>1. ~Pinning(k, o)'
      BY <2>1, <2>2 DEF Pinning, Handling
    <3>2. \A j \in Task : Pinning(j, o)' <=> Pinning(j, o)
      <4> SUFFICES ASSUME NEW j \in Task
                   PROVE  Pinning(j, o)' <=> Pinning(j, o)
        OBVIOUS
      <4>1. CASE j = k
        BY <4>1, <2>0, <2>1, <2>2 DEF Pinning, Handling, V!Free
      <4>2. CASE j # k
        BY <4>2, <2>4
      <4> QED BY <4>1, <4>2
    <3>3. \A j \in Task : Pinning(j, o) => tasks'[j].op = tasks[j].op
      BY <2>2, <2>3
    <3>4. (o \in pins' <=> o \in pins) /\ (o \in tangled' <=> o \in tangled)
      BY <2>0, <2>1
    <3> QED BY <3>2, <3>3, <3>4, <2>0, PinsAside
  <2>6. PinInv(m)'
    <3>1. V!Meets(m)'
      BY <2>3 DEF V!Meets, Pinning, Handling
    <3>2. ASSUME m \notin tangled'
          PROVE  /\ \A i, j \in Task : Pinning(i, m)' /\ Pinning(j, m)' => i = j
                 /\ \A j \in Task : Pinning(j, m)' =>
                      (m \in pins' <=> tasks'[j].op = "pin" /\ copies'[m] # Gone)
      <4>1. \A j \in Task : ~Pinning(j, m)
        BY <2>0, <3>2, MeetsPinning
      <4>2. \A j \in Task : Pinning(j, m)' => j = k
        BY <4>1, <2>4
      <4>3. m \in pins' <=> tasks'[k].op = "pin" /\ copies'[m] # Gone
        BY <2>0, <2>1, <2>2
      <4> QED BY <4>2, <4>3
    <3> QED BY <3>1, <3>2, <2>0 DEF PinInv, PinsFollow
  <2> QED BY <2>5, <2>6
<1>5. ASSUME NEW k \in Task, V!WritePreview(k)
      PROVE  \A o \in Msg : PinInv(o)'
  <2>1. PICK m \in Msg : m = tasks[k].of
    BY <1>0, <1>5, TaskType DEF V!WritePreview, V!At
  <2>2. UNCHANGED <<pins, flagged, tangled>> /\ tasks[k].op \notin {"pin", "unpin"}
    BY <1>5 DEF V!WritePreview, V!pinning, V!At
  <2>3. CASE ~V!There(m)
    <3>1. tasks' = [tasks EXCEPT ![k] = NoTask] /\ copies' = copies
      BY <1>5, <2>1, <2>3 DEF V!WritePreview, V!End
    <3> QED BY <3>1, <2>2, <1>h
  <2>4. CASE V!There(m)
    <3>0. copies[m] \in V!Copy /\ copies[m] # Gone
      BY <1>0, <2>4 DEF V!TypeOK, V!Lists, V!There
    <3>1. PICK c \in V!Copy : /\ c = [copies[m] EXCEPT !.preview = TRUE]
                              /\ copies' = [copies EXCEPT ![m] = c]
      <4>1. [copies[m] EXCEPT !.preview = TRUE] \in V!Copy
        BY <3>0 DEF V!Copy
      <4> QED BY <4>1, <1>5, <2>1, <2>4 DEF V!WritePreview, V!Written
    <3>2. PICK r : tasks' = [tasks EXCEPT ![k] = r] /\ r.op = "unfurl"
      BY <1>5, <2>1, <2>4, <1>g DEF V!WritePreview
    <3>3. c # Gone
      BY AbsenceAssumption
    <3>4. \A o \in Msg : copies'[o] = Gone <=> copies[o] = Gone
      BY <3>0, <3>1, <3>3, <1>w
    <3> QED BY <3>2, <3>4, <2>2, <1>h
  <2> QED BY <2>3, <2>4
<1>6. ASSUME NEW k \in Task, V!NoPreview(k)
      PROVE  \A o \in Msg : PinInv(o)'
  <2>1. tasks' = [tasks EXCEPT ![k] = NoTask] /\ copies' = copies
        /\ tasks[k].op \notin {"pin", "unpin"} /\ UNCHANGED <<pins, flagged, tangled>>
    BY <1>6 DEF V!NoPreview, V!At, V!End, V!pinning
  <2> QED BY <2>1, <1>h
<1>7. ASSUME NEW k \in Task, V!ReadBack(k)
      PROVE  \A o \in Msg : PinInv(o)'
  <2>1. copies' = copies /\ UNCHANGED <<pins, flagged, tangled>>
        /\ tasks[k].op \notin {"pin", "unpin"}
    BY <1>7 DEF V!ReadBack, V!At, V!pinning
  <2>2. \E r : /\ tasks' = [tasks EXCEPT ![k] = r]
               /\ r = NoTask \/ r.op = tasks[k].op
    BY <1>7 DEF V!ReadBack, V!Goto, V!End
  <2> QED BY <2>1, <2>2, <1>h
<1>8. ASSUME NEW k \in Task, V!Tell(k)
      PROVE  \A o \in Msg : PinInv(o)'
  <2>1. copies' = copies /\ UNCHANGED <<pins, flagged, tangled>>
        /\ ~V!Free(k) /\ tasks[k].stage = "tell"
    BY <1>8 DEF V!Tell, V!pinning
  <2>2. tasks[k].op \notin {"pin", "unpin"}
    BY <2>1, <1>s DEF Sound
  <2>3. \E r : /\ tasks' = [tasks EXCEPT ![k] = r]
               /\ r = NoTask \/ r.op = "unfurl"
    BY <1>8 DEF V!Tell, V!Goto, V!End
  <2> QED BY <2>1, <2>2, <2>3, <1>h
<1>9. ASSUME NEW k \in Task, V!Flag(k)
      PROVE  \A o \in Msg : PinInv(o)'
  <2>1. ~V!Free(k) /\ tasks[k].stage = "flag" /\ V!End(k)
        /\ copies' = copies /\ pins' = pins /\ tangled' = tangled
    BY <1>9 DEF V!Flag
  <2>2. tasks[k].op \in {"pin", "unpin"}
    BY <2>1, <1>s DEF Sound
  <2>3. PICK m \in Msg : m = tasks[k].of
    BY <1>0, <2>1, TaskType
  <2>4. flagged' = IF tasks[k].op = "pin" /\ V!There(m) THEN flagged \cup {m} ELSE flagged \ {m}
    BY <1>9, <2>3 DEF V!Flag
  <2>5. tasks'[k] = NoTask /\ \A j \in Task \ {k} : tasks'[j] = tasks[j]
    BY <1>0, <2>1, TaskEnded
  <2>6. Pinning(k, m) /\ \A o : ~Pinning(k, o)'
    BY <2>1, <2>2, <2>3, <2>5 DEF Pinning, Handling, V!Free
  <2>7. \A o : \A j \in Task \ {k} : Pinning(j, o)' <=> Pinning(j, o)
    BY <2>5 DEF Pinning, Handling, V!Free
  <2>8. ASSUME NEW o \in Msg \ {m}
        PROVE  PinInv(o)'
    <3>1. ~Pinning(k, o)
      BY <2>3 DEF Pinning, Handling
    <3>2. \A j \in Task : Pinning(j, o)' <=> Pinning(j, o)
      <4> SUFFICES ASSUME NEW j \in Task
                   PROVE  Pinning(j, o)' <=> Pinning(j, o)
        OBVIOUS
      <4>1. CASE j = k
        BY <4>1, <2>3, <2>5 DEF Pinning, Handling, V!Free
      <4>2. CASE j # k
        BY <4>2, <2>7
      <4> QED BY <4>1, <4>2
    <3>3. \A j \in Task : Pinning(j, o) => tasks'[j].op = tasks[j].op
      BY <3>1, <2>5
    <3>4. o \in flagged' <=> o \in flagged
      BY <2>4
    <3> QED BY <3>2, <3>3, <3>4, <2>1, PinsAside
  <2>9. PinInv(m)'
    <3>1. \A j \in Task : Pinning(j, m)' => Pinning(j, m) /\ j # k /\ tasks'[j] = tasks[j]
      <4> SUFFICES ASSUME NEW j \in Task, Pinning(j, m)'
                   PROVE  Pinning(j, m) /\ j # k /\ tasks'[j] = tasks[j]
        OBVIOUS
      <4>1. j # k
        BY <2>5 DEF Pinning, Handling, V!Free
      <4> QED BY <4>1, <2>5, <2>7
    <3>2. PinsFollow(m)'
      BY <3>1, <2>1 DEF PinInv, PinsFollow
    <3>3. m \notin tangled => (m \in pins <=> m \in flagged')
      BY <2>2, <2>4, <2>6 DEF PinInv, PinsFollow, V!There
    <3> QED BY <3>2, <3>3, <2>1 DEF PinInv
  <2> QED BY <2>8, <2>9
<1>10. ASSUME NEW chosen, V!BulkDelete(chosen)
       PROVE  \A o \in Msg : PinInv(o)'
  <2>1. /\ tasks' = tasks /\ tangled' = tangled
        /\ flagged' = flagged \ chosen /\ pins' = pins \ chosen
        /\ \A o \in Msg : copies'[o] = IF o \in chosen THEN Gone ELSE copies[o]
    BY <1>10 DEF V!BulkDelete
  <2>2. \A o : \A j \in Task : Pinning(j, o)' <=> Pinning(j, o)
    BY <2>1 DEF Pinning, Handling, V!Free
  <2>3. ASSUME NEW o \in Msg, o \notin chosen
        PROVE  PinInv(o)'
    BY <2>1, <2>2, <2>3, PinsAside
  <2>4. ASSUME NEW o \in Msg, o \in chosen
        PROVE  PinInv(o)'
    BY <2>1, <2>2, <2>4 DEF PinInv, PinsFollow
  <2> QED BY <2>3, <2>4
<1>11. ASSUME \/ V!OpenChannel \/ V!Reidentify \/ V!ListMessages
              \/ V!ReceiveList \/ V!LoadFails \/ V!ApplyEvent
       PROVE  \A o \in Msg : PinInv(o)'
  BY <1>11, <1>c DEF V!OpenChannel, V!Reidentify, V!ListMessages, V!ReceiveList, V!LoadFails,
     V!ApplyEvent, V!pinning
<1> QED BY <1>1, <1>2, <1>3, <1>4, <1>5, <1>6, <1>7, <1>8, <1>9, <1>10, <1>11 DEF V!VNext

ViewsInv == RecordInv /\ \A m \in Msg : MsgInv(m) /\ PinInv(m)

LEMMA ViewsStart == V!VInit => ViewsInv
<1> SUFFICES ASSUME V!VInit
             PROVE  ViewsInv
  OBVIOUS
<1>1. /\ copies = [m \in Msg |-> Gone] /\ cache = copies /\ list = copies
      /\ flagged = {} /\ pins = {} /\ tangled = {} /\ crossed = {} /\ silent = {} /\ fresh = Msg
      /\ tasks = [k \in Task |-> NoTask] /\ told = <<>> /\ load = "none"
  BY DEF V!VInit
<1>2. DOMAIN told = {} /\ told \in Seq(V!Event)
  BY <1>1
<1>3. \A k \in Task : V!Free(k)
  BY <1>1 DEF V!Free
<1>4. RecordInv
  BY <1>1, <1>2, <1>3 DEF RecordInv, V!TypeOK, V!Lists
<1>5. \A m : \A k \in Task : ~Handling(k, m) /\ ~Open(k, m) /\ ~Pinning(k, m)
  BY <1>3 DEF Handling, Open, Pinning
<1>6. \A m \in Msg : MsgInv(m)
  BY <1>1, <1>2, <1>5 DEF MsgInv, Once, Untellable, CreatedFirst, OpenCreation, OneWriter,
     Followed, LastOf
<1>7. \A m \in Msg : PinInv(m)
  BY <1>1, <1>5 DEF PinInv, PinsFollow
<1> QED BY <1>4, <1>6, <1>7 DEF ViewsInv

LEMMA ViewsNext ==
  ASSUME ViewsInv, V!VNext
  PROVE  ViewsInv'
<1>0. RecordInv /\ V!TypeOK /\ StagesMatch /\ Filled /\ \A o \in Msg : MsgInv(o)
  BY RecordFacts DEF ViewsInv, RecordInv
<1>1. RecordInv'
  BY <1>0, RecordsKept
<1>2. \A m \in Msg : PinInv(m)'
  BY PinsKept DEF ViewsInv, MsgInv
<1>3. \A o \in Msg : MsgInv(o)'
  <2>1. ASSUME NEW k \in Task, NEW m \in Msg, NEW text \in Texts, V!CreateMessage(k, m, text)
        PROVE  \A o \in Msg : MsgInv(o)'
    BY <1>0, <2>1, CreateMessageStep
  <2>2. ASSUME NEW k \in Task, NEW m \in Msg, NEW text \in Texts, V!UpdateMessage(k, m, text)
        PROVE  \A o \in Msg : MsgInv(o)'
    BY <1>0, <2>2, UpdateMessageStep
  <2>3. ASSUME NEW k \in Task, NEW m \in Msg, V!DeleteMessage(k, m)
        PROVE  \A o \in Msg : MsgInv(o)'
    BY <1>0, <2>3, DeleteMessageStep
  <2>4. ASSUME NEW k \in Task, NEW m \in Msg, V!PinMessage(k, m) \/ V!UnpinMessage(k, m)
        PROVE  \A o \in Msg : MsgInv(o)'
    BY <1>0, <2>4, PinStep
  <2>5. ASSUME NEW k \in Task, V!WritePreview(k)
        PROVE  \A o \in Msg : MsgInv(o)'
    BY <1>0, <2>5, WritePreviewStep
  <2>6. ASSUME NEW k \in Task, V!NoPreview(k)
        PROVE  \A o \in Msg : MsgInv(o)'
    BY <1>0, <2>6, NoPreviewStep
  <2>7. ASSUME NEW k \in Task, V!ReadBack(k)
        PROVE  \A o \in Msg : MsgInv(o)'
    BY <1>0, <2>7, ReadBackStep
  <2>8. ASSUME NEW k \in Task, V!Tell(k)
        PROVE  \A o \in Msg : MsgInv(o)'
    BY <1>0, <2>8, TellStep
  <2>9. ASSUME NEW k \in Task, V!Flag(k)
        PROVE  \A o \in Msg : MsgInv(o)'
    <3> SUFFICES ASSUME NEW o \in Msg
                 PROVE  MsgInv(o)'
      OBVIOUS
    <3>1. \A m \in Msg : MsgInv(m)'
      BY <1>0, <2>9, PinStep
    <3> QED BY <3>1
  <2>10. ASSUME NEW chosen \in SUBSET {m \in Msg : V!There(m)} \ {{}}, V!BulkDelete(chosen)
         PROVE  \A o \in Msg : MsgInv(o)'
    BY <1>0, <2>10, BulkDeleteStep
  <2>11. ASSUME V!OpenChannel \/ V!LoadFails
         PROVE  \A o \in Msg : MsgInv(o)'
    BY <1>0, <2>11, ClientWaits DEF V!OpenChannel, V!LoadFails
  <2>12. CASE V!Reidentify
    BY <1>0, <2>12, ReidentifyStep
  <2>13. CASE V!ListMessages
    BY <1>0, <2>13, ListMessagesStep
  <2>14. CASE V!ReceiveList
    BY <1>0, <2>14, ReceiveListStep
  <2>15. CASE V!ApplyEvent
    BY <1>0, <2>15, ApplyEventStep
  <2> QED BY <2>1, <2>2, <2>3, <2>4, <2>5, <2>6, <2>7, <2>8, <2>9, <2>10, <2>11, <2>12, <2>13,
             <2>14, <2>15 DEF V!VNext
<1> QED BY <1>1, <1>2, <1>3 DEF ViewsInv

LEMMA ViewsStay ==
  ASSUME ViewsInv,
         UNCHANGED <<copies, flagged, pins, tasks, told, cache, load, list,
                     fresh, crossed, silent, tangled>>
  PROVE  ViewsInv'
<1>1. RecordInv'
  BY DEF ViewsInv, RecordInv, V!TypeOK, V!Free, Sound
<1>2. \A m \in Msg : MsgInv(m)'
  BY ClientWaits DEF ViewsInv, RecordInv
<1>3. \A m : \A j \in Task : Pinning(j, m)' <=> Pinning(j, m)
  BY DEF Pinning, Handling, V!Free
<1>4. \A m \in Msg : PinInv(m)'
  BY <1>3, PinsAside DEF ViewsInv
<1> QED BY <1>1, <1>2, <1>4 DEF ViewsInv

LEMMA ViewsFollow == ViewsInv => ViewsHold
<1> SUFFICES ASSUME ViewsInv
             PROVE  ViewsHold
  OBVIOUS
<1>1. V!TypeOK /\ V!PinsAgree
  BY DEF ViewsInv, RecordInv, PinInv, V!PinsAgree
<1>2. ASSUME load = "done", told = <<>>, \A m \in Msg : V!Untold(m) = {},
             NEW m \in Msg \ (crossed \cup silent)
      PROVE  cache[m] = copies[m]
  <2>1. Followed(m)
    BY DEF ViewsInv, MsgInv, Calm
  <2>2. Unopened(m) /\ Untellable(m)
    BY <1>2, UntoldAreOpen DEF Unopened, Untellable
  <2> QED BY <2>1, <2>2, <1>2 DEF Followed, Leads
<1>3. V!CacheAgrees
  BY <1>2 DEF V!CacheAgrees
<1> QED BY <1>1, <1>3 DEF ViewsHold

\* create_message, update_message, delete_message and the preview task on one side,
\* the socket and accord_messages.dart on the other, for any messages, texts and
\* handlers: a client that loaded the list and was told everything has the rows of
\* the database, and a message is flagged as pinned when it is in pinned_messages -
\* the messages whose writes met, that changed under the list, or that were deleted
\* in bulk excepted.
THEOREM ViewsOfOneChannelHold == V!VSpec => []ViewsHold
<1>1. V!VInit => ViewsInv
  BY ViewsStart
<1>2. ViewsInv /\ [V!VNext]_V!vvars => ViewsInv'
  BY ViewsNext, ViewsStay DEF V!vvars
<1>3. ViewsInv => ViewsHold
  BY ViewsFollow
<1> QED BY <1>1, <1>2, <1>3, PTL DEF V!VSpec

\* The same of the behaviours that the run of this instance looks at.
THEOREM ViewsKept == MCSpec => []ViewsHold
<1>1. MCInit => ViewsInv
  BY ViewsStart DEF MCInit
<1>2. ViewsInv /\ [MCNext]_<<taking, sending, reading, caching, pinning, focus>> => ViewsInv'
  <2> SUFFICES ASSUME ViewsInv, [MCNext]_<<taking, sending, reading, caching, pinning, focus>>
               PROVE  ViewsInv'
    OBVIOUS
  <2>1. CASE V!VNext
    BY <2>1, ViewsNext
  <2>2. CASE UNCHANGED <<caching, pinning>>
    BY <2>2, ViewsStay DEF caching, pinning
  <2> QED BY <2>1, <2>2 DEF MCNext, Sends, Shows
<1>3. ViewsInv => ViewsHold
  BY ViewsFollow
<1> QED BY <1>1, <1>2, <1>3, PTL DEF MCSpec
=============================================================================
