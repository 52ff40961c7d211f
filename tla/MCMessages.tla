----------------------------- MODULE MCMessages -----------------------------
(***************************************************************************)
(* An instance of the modules on messages.  Each behaviour looks at one of *)
(* five parts, the focus: slow mode, what Reader is told of what Author    *)
(* sends, the copies a client holds, pins, or the ids one thread takes.    *)
(***************************************************************************)
EXTENDS Naturals, Sequences, FiniteSets, TLC

CONSTANTS
  Thread, SeqSize, Setback, MaxClock, MaxIds,
  Member, Author, Reader, Request, NoRequest, Cooldown, MaxTime, MaxSent,
  Msg, Task, NoTask, Gone, Texts, MaxTold
VARIABLES
  focus,
  clock, last, sequence, pc, timestamp, seen, seq, ids,
  time, slow, issued, log, stored, pointer, lastSent, read, badge, shown, counted,
  waived, outrun, requests,
  copies, flagged, pins, tasks, told, cache, load, list, fresh, crossed, silent, tangled

taking == <<clock, last, sequence, pc, timestamp, seen, seq, ids>>
sending == <<time, slow, issued, log, stored, pointer, lastSent, requests>>
reading == <<read, badge, shown, counted, waived, outrun>>
caching == <<copies, tasks, told, cache, load, list, fresh, crossed, silent>>
pinning == <<flagged, pins, tangled>>

I == INSTANCE Snowflake
M == INSTANCE Messages WITH clock <- time, MaxClock <- MaxTime, MaxIds <- MaxSent,
                            rows <- stored, cleared <- waived
V == INSTANCE MessageViews WITH rows <- copies

\* What stands for no request, no task and no message is none of them.
ASSUME AbsenceAssumption ==
  NoRequest \notin M!RequestRecord /\ NoTask \notin V!TaskRecord /\ Gone \notin V!Copy
ASSUME LimitsAssumption ==
  /\ SeqSize \in Nat \ {0} /\ Setback \in Nat /\ MaxClock \in Nat \ {0}
  /\ Cooldown \in Nat /\ MaxTime \in Nat \ {0} /\ MaxSent \in Nat

Interchangeable == Permutations(Request) \cup Permutations(Task)

Plain(record) == record.stage # "tell" =>
  record.message.pings = {} /\ ~record.message.reply
Between(record) == IF record.stage = "tell" THEN record.by = Reader
  ELSE record.message.by = Author /\ record.message.pings \subseteq {Reader}
Sends ==
  /\ M!Next /\ UNCHANGED <<taking, caching, pinning>>
  /\ \/ /\ focus = "slow" /\ reading' = reading /\ stored \subseteq stored'
        /\ \A q \in Request : M!Busy(q)' => Plain(requests'[q])
     \/ /\ focus = "unread" /\ time' = time /\ slow' = slow
        /\ \A q \in Request : M!Busy(q)' => Between(requests'[q])
Shows ==
  /\ V!VNext /\ UNCHANGED <<taking, sending, reading>>
  /\ \/ focus = "copies" /\ pinning' = pinning
     \/ /\ focus = "pins" /\ load' = "none" /\ Len(told') < 2
        /\ \A k \in Task : V!Free(k)' \/ tasks'[k].op \notin {"edit", "unfurl"}

MCInit ==
  /\ I!Init /\ M!Init /\ V!VInit
  /\ focus \in {"slow", "unread", "copies", "pins", "ids"}
  /\ focus # "slow" => ~slow
MCNext ==
  /\ UNCHANGED focus
  /\ \/ Sends
     \/ Shows
     \/ focus = "ids" /\ I!Next /\ UNCHANGED <<sending, reading, caching, pinning>>
MCSpec == MCInit /\ [][MCNext]_<<taking, sending, reading, caching, pinning, focus>>

\* Sending and reading (Messages): slow mode lets one message through per
\* cooldown, a channel is unread when it has a message after the one read, a
\* mention keeps its badge until it is read, and other devices show the position
\* stored - with the exceptions that each part names.
ChannelHolds ==
  /\ M!TypeOK /\ M!SlowmodeHolds /\ M!UnreadExact /\ M!BadgeKept /\ M!ReadShown
\* Copies (MessageViews): a client that was told everything holds what the rows
\* hold, and a message is flagged as pinned when it is in the table of pins,
\* unless the writes of two requests met.
ViewsHold == V!TypeOK /\ V!CacheAgrees /\ V!PinsAgree
\* Snowflake: the ids one thread takes increase, as long as the clock is not
\* set back, full milliseconds included: the order of ids is that of messages.
IdsIncrease == I!TypeOK /\ I!Increasing
=============================================================================
