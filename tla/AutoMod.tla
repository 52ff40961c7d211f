------------------------------- MODULE AutoMod ------------------------------
(***************************************************************************)
(* Attachments and their moderation. A file is uploaded with a message of  *)
(* its own; a policy may hold it back in a private queue until the worker, *)
(* a moderator or its retention window decides it. Its bytes are files on  *)
(* disk, its state rows of tables, and no transaction spans the two: three *)
(* locks, a durable deletion queue and two orphan sweeps keep them in step.*)
(***************************************************************************)
EXTENDS Integers, FiniteSets

CONSTANTS
  File,          \* files: upload, attachment, message and hash of one id
  Free,          \* a lock nobody holds
  Policies,      \* policies a moderator may set
  FirstPolicy,   \* the policy at the start
  MaxHeld,       \* state.automod.max_held
  MaxReviews, MaxChanges, MaxCrashes   \* bounds on what people and the machine do

ASSUME FilesAssumption == IsFiniteSet(File) /\ MaxHeld \in Nat
ASSUME BoundsAssumption ==
  /\ FirstPolicy \in Policies
  /\ MaxReviews \in Nat /\ MaxChanges \in Nat /\ MaxCrashes \in Nat
ASSUME SentinelAssumption == Free \notin File \cup {"worker", "reviewer", "drain"}

VARIABLES
  policy,        \* table automod_policies
  blocked,       \* table automod_hashes
  status,        \* table automod_uploads: its status, or no row
  cleared,       \* automod_uploads.file_removed
  expired,       \* expires_at <= now
  standing,      \* files whose channel is there and whose author may still post
  message,       \* table messages
  rows,          \* table attachments
  queue,         \* table attachment_deletions
  private, public,   \* files on disk
  aged,          \* public files an hour old
  processing, publication, admission,   \* who holds each lock
  job,           \* the decision the worker and the reviewer are taking
  upload,        \* how far the request that uploads a file has come
  deleting,      \* files of messages whose deletion has unlinked them
  drain,         \* the drain of the deletion queue: what it read and has still to do
  sweep,         \* the sweep of public orphans: the file it looks at
  reheld,        \* history: published files taken back
  copied,        \* history: files copied back, of which nothing is decided since
  excused,       \* history: files somebody unlinked on purpose, or swept, since they were written
  reviews, changes, crashes

disk == <<private, public, aged>>
locks == <<processing, publication, admission>>
tables == <<policy, blocked, status, cleared, message, rows, queue>>
world == <<expired, standing>>
hist == <<reheld, copied, excused, reviews, changes, crashes>>
steps == <<job, upload, deleting, drain, sweep>>
vars == <<disk, locks, tables, world, hist, steps>>

Held == {"pending", "quarantined", "rejected"}
Terminal == {"published", "removed"}
Status == Held \cup Terminal
Actor == {"worker", "reviewer"}
Result == {"unknown", "clean", "match"}

Jobs == [at: {"picked", "scanning", "write", "commit", "unlink"}, file: File,
         from: Status, to: Status, result: Result]
NoJob == [at |-> "idle"]
NoDrain == [todo |-> {}, live |-> {}]
NoSweep == [at |-> "idle"]

\* A decision, one step further.
Step(j, at, to) == [j EXCEPT !.at = at, !.to = to]

TypeOK ==
  /\ policy \in Policies /\ blocked \subseteq File
  /\ status \in [File -> Status \cup {"none"}]
  /\ cleared \subseteq File /\ expired \subseteq File /\ standing \subseteq File
  /\ message \subseteq File /\ rows \subseteq message /\ queue \subseteq File
  /\ private \subseteq File /\ public \subseteq File /\ aged \subseteq public
  /\ processing \in Actor \cup {Free} /\ publication \in Actor \cup {"drain", Free}
  /\ admission \in File \cup {Free}
  /\ job \in [Actor -> Jobs \cup {NoJob}]
  /\ upload \in [File -> {"new", "write", "commit", "save", "attach", "done"}]
  /\ deleting \subseteq File
  /\ drain \in [todo: SUBSET File, live: SUBSET File]
  /\ sweep \in [at: {"looked", "condemned"}, file: File] \cup {NoSweep}
  /\ reheld \subseteq File /\ copied \subseteq File /\ excused \subseteq File
  /\ <<reviews, changes, crashes>> \in (0..MaxReviews) \X (0..MaxChanges) \X (0..MaxCrashes)

Init ==
  /\ policy = FirstPolicy /\ blocked = {} /\ status = [f \in File |-> "none"]
  /\ cleared = {} /\ expired = {} /\ standing = File
  /\ message = {} /\ rows = {} /\ queue = {} /\ private = {} /\ public = {} /\ aged = {}
  /\ processing = Free /\ publication = Free /\ admission = Free
  /\ job = [a \in Actor |-> NoJob] /\ upload = [f \in File |-> "new"]
  /\ deleting = {} /\ drain = NoDrain /\ sweep = NoSweep
  /\ reheld = {} /\ copied = {} /\ excused = {} /\ reviews = 0 /\ changes = 0 /\ crashes = 0

-----------------------------------------------------------------------------
(* What the rules say of a file. The hash rule comes first: a scan is       *)
(* only needed where no rule before the media rule fires.                   *)
HashFires(f) == policy.hash # "none" /\ f \in blocked
NeedsScan(f, result) == ~HashFires(f) /\ policy.media # "none" /\ result = "unknown"

Action(f, result) ==
  IF HashFires(f) THEN policy.hash
  ELSE IF result = "match" THEN policy.media ELSE "none"

Decision(f, result) ==
  CASE Action(f, result) \in {"none", "flag"} -> "published"
    [] Action(f, result) = "reject" -> "rejected"
    [] OTHER -> "quarantined"

\* A block counts even without a rule for it, and a pending file needs a policy.
Unlicensed(f) == ~policy.enabled \/ (f \in blocked /\ policy.hash = "none")
HoldFor(f) == IF f \in expired THEN "removed" ELSE "quarantined"
OnHold(f) == f \in expired \/ f \notin standing \/ Unlicensed(f)

-----------------------------------------------------------------------------
(* create_message_multipart.                                                *)
HeldFiles == {f \in File : status[f] \in Held}
Fits == Cardinality(HeldFiles) + 1 <= MaxHeld

\* preflight: whether it lets the file pass.
Passes(f, watched) ==
  /\ f \in blocked => watched /\ policy.hash # "none"
  /\ watched => Fits /\ ~(HashFires(f) /\ policy.hash = "reject")

\* Under the admission lock the checks and the message; a file that is not
\* held, its author being exempt or there being no policy, lets go of the lock.
Admit(f, exempt) ==
  LET watched == policy.enabled /\ ~exempt IN
  /\ upload[f] = "new" /\ admission = Free /\ Passes(f, watched)
  /\ message' = message \cup {f}
  /\ \/ watched /\ admission' = f /\ upload' = [upload EXCEPT ![f] = "write"]
     \/ ~watched /\ upload' = [upload EXCEPT ![f] = "save"] /\ UNCHANGED admission
  /\ UNCHANGED <<policy, blocked, status, cleared, rows, queue, disk, world, hist,
                 processing, publication, job, deleting, drain, sweep>>

\* enqueue: the file, then its row.
WritePrivate(f) ==
  /\ upload[f] = "write"
  /\ private' = private \cup {f}
  /\ upload' = [upload EXCEPT ![f] = "commit"]
  /\ UNCHANGED <<tables, public, aged, world, locks, hist, job, deleting, drain, sweep>>

CommitRow(f) ==
  /\ upload[f] = "commit"
  /\ status' = [status EXCEPT ![f] = "pending"]
  /\ upload' = [upload EXCEPT ![f] = "done"]
  /\ admission' = Free
  /\ UNCHANGED <<policy, blocked, cleared, message, rows, queue, disk, world, hist,
                 processing, publication, job, deleting, drain, sweep>>

EnqueueFails(f) ==
  /\ upload[f] \in {"write", "commit"}
  /\ private' = private \ {f}
  /\ message' = message \ {f}
  /\ upload' = [upload EXCEPT ![f] = "done"]
  /\ admission' = Free
  /\ UNCHANGED <<policy, blocked, status, cleared, rows, queue, public, aged, world, hist,
                 processing, publication, job, deleting, drain, sweep>>

WritePublic(f) ==
  /\ public' = public \cup {f} /\ aged' = aged \ {f} /\ excused' = excused \ {f}

SaveAttachment(f) ==
  /\ upload[f] = "save"
  /\ WritePublic(f)
  /\ upload' = [upload EXCEPT ![f] = "attach"]
  /\ UNCHANGED <<tables, private, world, locks, reheld, copied, reviews, changes, crashes,
                 job, deleting, drain, sweep>>

\* The row refers to its message: gone, the insert fails.
InsertAttachment(f) ==
  /\ upload[f] = "attach"
  /\ rows' = rows \cup ({f} \cap message)
  /\ upload' = [upload EXCEPT ![f] = "done"]
  /\ UNCHANGED <<policy, blocked, status, cleared, message, queue, disk, world, locks, hist,
                 job, deleting, drain, sweep>>
-----------------------------------------------------------------------------
(* process_one: the worker picks a pending file, claims it under the        *)
(* processing lock, lets the lock go for the scan, and claims it anew.      *)
Pick(f) ==
  /\ job["worker"] = NoJob /\ processing = Free /\ admission = Free
  /\ status[f] = "pending"
  /\ job' = [job EXCEPT !["worker"] = [at |-> "picked", file |-> f, from |-> "pending",
                                       to |-> "pending", result |-> "unknown"]]
  /\ UNCHANGED <<disk, locks, tables, world, hist, upload, deleting, drain, sweep>>

Claim ==
  /\ job["worker"].at = "picked" /\ processing = Free
  /\ LET f == job["worker"].file
         r == job["worker"].result
         Goes(at, to) == job' = [job EXCEPT !["worker"] = Step(@, at, to)]
     IN \/ /\ status[f] # "pending"
           /\ job' = [job EXCEPT !["worker"] = NoJob]
           /\ UNCHANGED processing
        \/ /\ status[f] = "pending" /\ OnHold(f)
           /\ Goes("write", HoldFor(f)) /\ processing' = "worker"
        \/ /\ status[f] = "pending" /\ ~OnHold(f) /\ NeedsScan(f, r)
           /\ Goes("scanning", "pending") /\ UNCHANGED processing
        \/ /\ status[f] = "pending" /\ ~OnHold(f) /\ ~NeedsScan(f, r)
           /\ Goes("write", Decision(f, r)) /\ processing' = "worker"
  /\ UNCHANGED <<disk, publication, admission, tables, world, hist, upload, deleting, drain, sweep>>

\* A category the scanner does not know counts as a match here: both quarantine.
Scan(result) ==
  /\ job["worker"].at = "scanning" /\ job["worker"].file \in private
  /\ job' = [job EXCEPT !["worker"] = [@ EXCEPT !.at = "picked", !.result = result]]
  /\ UNCHANGED <<disk, locks, tables, world, hist, upload, deleting, drain, sweep>>

\* The row stays pending, for another attempt in a minute.
ScanFails ==
  /\ job["worker"].at = "scanning"
  /\ job' = [job EXCEPT !["worker"] = NoJob]
  /\ UNCHANGED <<disk, locks, tables, world, hist, upload, deleting, drain, sweep>>
-----------------------------------------------------------------------------
(* finish, by whoever holds the processing lock: the public file, one       *)
(* transaction, and the private file. Crashes and errors fall between.      *)
Drop(a) ==
  /\ job' = [job EXCEPT ![a] = NoJob]
  /\ processing' = Free

\* Mutant: a file that cannot be released is left to another attempt.
AskAgain == "pending"
Unreleasable == "quarantined"

\* A file is released only to a message that is still there.
FinishWrite(a) ==
  /\ job[a].at = "write" /\ publication = Free
  /\ LET f == job[a].file
         Goes(to) == job' = [job EXCEPT ![a] = Step(@, "commit", to)]
     IN \/ /\ job[a].to = "published" /\ f \in message /\ f \in private
           /\ WritePublic(f) /\ Goes("published")
        \/ /\ job[a].to = "published" => f \notin message
           /\ Goes(IF job[a].to = "published" THEN Unreleasable ELSE job[a].to)
           /\ UNCHANGED <<public, aged, excused>>
  /\ publication' = a
  /\ UNCHANGED <<tables, private, processing, admission, world, reheld, copied, reviews, changes, crashes,
                 upload, deleting, drain, sweep>>

WithdrawnRows(a, f) ==
  IF job[a].from = "published" /\ job[a].to # "published" THEN rows \ {f} ELSE rows

Uncleared(f) == cleared \ {f}

Decide(a, f) ==
  /\ status' = [status EXCEPT ![f] = job[a].to]
  /\ cleared' = Uncleared(f) /\ copied' = copied \ {f}
  /\ rows' = WithdrawnRows(a, f) \cup (IF job[a].to = "published" THEN {f} ELSE {})
  /\ queue' = queue \cup (rows \ rows')
  /\ expired' = IF job[a].from = "published" THEN expired \ {f} ELSE expired
  /\ reheld' = IF job[a].from = "published" /\ job[a].to \in Held THEN reheld \cup {f} ELSE reheld

\* Retention runs anew for what is taken back. A row decided by somebody else,
\* or a message gone since, undoes the transaction, the public file left behind.
FinishCommit(a) ==
  /\ job[a].at = "commit"
  /\ LET f == job[a].file
         sound == status[f] = job[a].from /\ (job[a].to = "published" => f \in message)
     IN \/ /\ sound
           /\ Decide(a, f)
           /\ job' = [job EXCEPT ![a] = Step(@, "unlink", @.to)]
           /\ UNCHANGED <<publication, processing>>
        \/ /\ ~sound
           /\ Drop(a) /\ publication' = Free
           /\ UNCHANGED <<status, cleared, rows, queue, expired, reheld, copied>>
  /\ UNCHANGED <<policy, blocked, message, disk, admission, standing, excused,
                 reviews, changes, crashes, upload, deleting, drain, sweep>>

\* The private file goes with the last use for it, or later: an unlink may fail.
FinishUnlink(a) ==
  /\ job[a].at = "unlink"
  /\ private' \in {private} \cup
                  (IF job[a].to \in Terminal THEN {private \ {job[a].file}} ELSE {})
  /\ Drop(a) /\ publication' = Free
  /\ UNCHANGED <<tables, public, aged, admission, world, hist, upload, deleting, drain, sweep>>
-----------------------------------------------------------------------------
(* cleanup and reconcile_orphans, between two files of the worker.          *)
Expire(f) ==
  /\ job["worker"] = NoJob /\ processing = Free
  /\ status[f] \in Held /\ f \in expired
  /\ processing' = "worker"
  /\ job' = [job EXCEPT !["worker"] = [at |-> "write", file |-> f, from |-> status[f],
                                       to |-> "removed", result |-> "unknown"]]
  /\ UNCHANGED <<disk, publication, admission, tables, world, hist, upload, deleting, drain, sweep>>

ClearOriginal(f) ==
  /\ job["worker"] = NoJob /\ processing = Free
  /\ status[f] \in Terminal /\ f \notin cleared
  /\ private' = private \ {f} /\ cleared' = cleared \cup {f}
  /\ UNCHANGED <<policy, blocked, status, message, rows, queue, public, aged, locks, world, hist,
                 steps>>

\* No request holds the admission lock, so an unlisted file an hour old is nobody's.
ReconcileOrphans(f) ==
  /\ job["worker"] = NoJob /\ admission = Free
  /\ f \in private /\ status[f] = "none"
  /\ private' = private \ {f}
  /\ UNCHANGED <<tables, public, aged, locks, world, hist, steps>>
-----------------------------------------------------------------------------
(* review, and the other requests of moderators.                            *)
Reviewable(f) == status[f] = "published" \/ (status[f] \in Held /\ f \notin expired)

CopyBack(f) == IF status[f] = "published" THEN private \cup {f} ELSE private

\* A published file is copied back first, by way of its row and its file.
Review(f, next) ==
  /\ reviews < MaxReviews /\ reviews' = reviews + 1
  /\ job["reviewer"] = NoJob /\ processing = Free
  /\ Reviewable(f) /\ (status[f] = "published" => next # "published" /\ f \in rows \cap public)
  /\ private' = CopyBack(f)
  /\ copied' = copied \cup {g \in {f} : status[f] = "published"}
  /\ processing' = "reviewer"
  /\ job' = [job EXCEPT !["reviewer"] = [at |-> "write", file |-> f, from |-> status[f],
                                         to |-> next, result |-> "unknown"]]
  /\ UNCHANGED <<tables, public, aged, publication, admission, world, reheld, excused,
                 changes, crashes, upload, deleting, drain, sweep>>

Changing == changes < MaxChanges /\ changes' = changes + 1

\* Mutant: the policy changes while a decision is being committed.
SetPolicyAnyTime(p) ==
  /\ Changing /\ policy' = p
  /\ UNCHANGED <<blocked, status, cleared, message, rows, queue, disk, locks, world,
                 reheld, copied, excused, reviews, crashes, steps>>
SetPolicy(p) ==
  /\ Changing /\ processing = Free
  /\ p # policy /\ policy' = p
  /\ UNCHANGED <<blocked, status, cleared, message, rows, queue, disk, locks, world,
                 reheld, copied, excused, reviews, crashes, steps>>

\* block_hash, block_attachment
Block(f) ==
  /\ Changing /\ processing = Free /\ admission = Free
  /\ f \notin blocked /\ blocked' = blocked \cup {f}
  /\ UNCHANGED <<policy, status, cleared, message, rows, queue, disk, locks, world,
                 reheld, copied, excused, reviews, crashes, steps>>

Unblock(f) ==
  /\ processing = Free
  /\ f \in blocked /\ blocked' = blocked \ {f}
  /\ UNCHANGED <<policy, status, cleared, message, rows, queue, disk, locks, world,
                 hist, steps>>
-----------------------------------------------------------------------------
(* Messages go with their rows, which queues the files: delete_message      *)
(* unlinks the files it knows of before, bulk_delete_messages does not.     *)
DropMessage(f) ==
  /\ message' = message \ {f}
  /\ rows' = rows \ {f}
  /\ queue' = queue \cup (rows \cap {f})

UnlinkAttachments(f) ==
  /\ f \in message \ deleting
  /\ deleting' = deleting \cup {f}
  /\ public' = public \ (rows \cap {f}) /\ aged' = aged \cap public'
  /\ excused' = excused \cup (rows \cap {f})
  /\ UNCHANGED <<tables, private, locks, world, reheld, copied, reviews, changes, crashes,
                 job, upload, drain, sweep>>

DeleteMessage(f) ==
  /\ f \in deleting /\ deleting' = deleting \ {f}
  /\ DropMessage(f)
  /\ UNCHANGED <<policy, blocked, status, cleared, disk, locks, world, hist, job, upload, drain, sweep>>

BulkDelete(f) ==
  /\ f \in message
  /\ DropMessage(f)
  /\ UNCHANGED <<policy, blocked, status, cleared, disk, locks, world, hist, steps>>

\* drain_attachment_deletions: the queue and the live rows are read once.
StartDrain ==
  /\ queue # {} /\ publication = Free
  /\ publication' = "drain"
  /\ drain' = [todo |-> queue, live |-> rows \cap queue]
  /\ UNCHANGED <<tables, disk, processing, admission, world, hist, job, upload, deleting, sweep>>

\* Mutant: the file goes although a release has put its row back.
UnlinkAll(f) == public \ {f}
UnlinkDead(f) == IF f \in drain.live THEN public ELSE public \ {f}

DrainOne(f) ==
  /\ f \in drain.todo
  /\ public' = UnlinkDead(f) /\ aged' = aged \cap public'
  /\ queue' = queue \ {f}
  /\ drain' = [drain EXCEPT !.todo = @ \ {f}]
  /\ publication' = IF drain.todo = {f} THEN Free ELSE publication
  /\ UNCHANGED <<policy, blocked, status, cleared, message, rows, private, processing,
                 admission, world, hist, job, upload, deleting, sweep>>
-----------------------------------------------------------------------------
(* reconcile_attachment_orphans looks at the age of a file, then for its    *)
(* row, and then deletes it, with no lock.                                  *)
Look(f) ==
  /\ sweep = NoSweep /\ f \in aged
  /\ sweep' = [at |-> "looked", file |-> f]
  /\ UNCHANGED <<tables, disk, locks, world, hist, job, upload, deleting, drain>>

FindRow ==
  /\ sweep.at = "looked"
  /\ sweep' = IF sweep.file \in rows THEN NoSweep ELSE [sweep EXCEPT !.at = "condemned"]
  /\ UNCHANGED <<tables, disk, locks, world, hist, job, upload, deleting, drain>>

Sweep ==
  /\ sweep.at = "condemned"
  /\ public' = public \ {sweep.file} /\ aged' = aged \ {sweep.file}
  /\ excused' = excused \cup {sweep.file}
  /\ sweep' = NoSweep
  /\ UNCHANGED <<tables, private, locks, world, reheld, copied, reviews, changes, crashes,
                 job, upload, deleting, drain>>
-----------------------------------------------------------------------------
(* Time, people and the machine.                                            *)
PassRetention(f) ==
  /\ status[f] \in Held /\ f \notin expired /\ expired' = expired \cup {f}
  /\ UNCHANGED <<disk, locks, tables, standing, hist, steps>>

\* Nobody takes an hour from writing a public file to committing its row.
PassHour(f) ==
  /\ f \in public \ aged /\ upload[f] # "attach"
  /\ \A a \in Actor : job[a].at = "commit" => job[a].file # f
  /\ aged' = aged \cup {f}
  /\ UNCHANGED <<private, public, locks, tables, world, hist, steps>>

LoseStanding(f) ==
  /\ Changing /\ f \in standing /\ standing' = standing \ {f}
  /\ UNCHANGED <<disk, locks, tables, expired, reheld, copied, excused, reviews, crashes, steps>>

\* Requests, tasks and locks are gone; tables and files stay.
Crash ==
  /\ crashes < MaxCrashes /\ crashes' = crashes + 1
  /\ processing' = Free /\ publication' = Free /\ admission' = Free
  /\ job' = [a \in Actor |-> NoJob]
  /\ upload' = [f \in File |-> IF upload[f] = "new" THEN "new" ELSE "done"]
  /\ deleting' = {} /\ drain' = NoDrain /\ sweep' = NoSweep
  /\ UNCHANGED <<disk, tables, world, reheld, copied, excused, reviews, changes>>

\* All that happens by itself, of which fairness is asked.
Uploads(f) ==
  WritePrivate(f) \/ CommitRow(f) \/ SaveAttachment(f) \/ InsertAttachment(f)
Finish(a) == FinishWrite(a) \/ FinishCommit(a) \/ FinishUnlink(a)
Drains == StartDrain \/ \E f \in File : DrainOne(f)
Sweeps(f) == Look(f) \/ (sweep.at # "idle" /\ sweep.file = f /\ (FindRow \/ Sweep))

Next ==
  \/ \E f \in File :
       \/ \E exempt \in BOOLEAN : Admit(f, exempt)
       \/ Uploads(f) \/ EnqueueFails(f)
       \/ Pick(f) \/ Expire(f) \/ ClearOriginal(f) \/ ReconcileOrphans(f)
       \/ \E next \in Status : Review(f, next)
       \/ Block(f) \/ Unblock(f) \/ LoseStanding(f)
       \/ UnlinkAttachments(f) \/ DeleteMessage(f) \/ BulkDelete(f)
       \/ Sweeps(f) \/ PassRetention(f) \/ PassHour(f)
  \/ Claim \/ ScanFails \/ \E result \in {"clean", "match"} : Scan(result)
  \/ \E a \in Actor : Finish(a)
  \/ \E p \in Policies : SetPolicy(p)
  \/ Drains \/ Crash

Spec == Init /\ [][Next]_vars

\* Every request and task runs on, and waits in turn for a lock (a tokio mutex
\* is first come, first served). The worker takes the pending files in turn,
\* which makes the choice of each strongly fair, and a scanner that works now
\* and then is one whose scan, tried for ever, succeeds.
Fairness ==
  /\ WF_vars(Drains) /\ WF_vars(\E f \in File : Uploads(f))
  /\ SF_vars(Finish("reviewer")) /\ SF_vars(Claim \/ Finish("worker"))
  /\ SF_vars(\E result \in {"clean", "match"} : Scan(result))
  /\ \A f \in File : SF_vars(Pick(f))
FairSpec == Spec /\ Fairness
-----------------------------------------------------------------------------
\* A file held back has no attachment row: a decision and the visibility of
\* its file change together (finish, mod.rs:534).
HeldIsHidden == \A f \in rows : status[f] \in {"none", "published"}

\* Evidence: the original of a held file is on disk for as long as it is held,
\* whatever its author does to the message and wherever the server stops
\* (finish and review, mod.rs:534, routes.rs:187).
EvidenceKept == \A f \in File : status[f] \in Held => f \in private

\* An attachment that is listed has its file, unless somebody is deleting the
\* message or the hourly sweep has taken it: a deletion queued earlier never
\* takes the file of a release (drain_attachment_deletions, storage.rs:460).
ListedIsThere == rows \subseteq public \cup excused

\* Uploads admitted one after the other never hold more files than the limit;
\* only a moderator who takes files back does (preflight, mod.rs:184).
HeldBudget == Cardinality(HeldFiles \ reheld) <= MaxHeld

\* The worker publishes only what the policy and the blocks in force at the
\* commit let pass, however long its scan took (process_one, mod.rs:376).
ReviewWins ==
  [][\A f \in File :
       (job["worker"].at = "commit" /\ job["worker"].file = f
          /\ status[f] # "published" /\ status'[f] = "published")
       => status[f] = "pending" /\ ~Unlicensed(f) /\ Decision(f, job["worker"].result) = "published"]_vars

\* A pending file is decided in the end, its message deleted or not, the
\* server restarted or not (process_one, run).
Decided == \A f \in File : status[f] = "pending" ~> status[f] # "pending"

\* An original left behind by a failed unlink, or by a server that stopped
\* after the commit, is still on the list of those to clear; not so the copy
\* made for a review that came to nothing (cleanup, mod.rs:803).
LeftoversListed == \A f \in private \cap cleared : status[f] \in Held \/ f \in copied

\* The queue, the tables and the two stores agree, crashes and sweeps included:
\* what is held is hidden and within its budget, the evidence of a decision is
\* kept, what is listed is there, and what is left over is in the queue.
FilesHold ==
  /\ TypeOK /\ HeldIsHidden /\ HeldBudget
  /\ EvidenceKept /\ ListedIsThere /\ LeftoversListed
=============================================================================
