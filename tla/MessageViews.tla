---------------------------- MODULE MessageViews -----------------------------
(***************************************************************************)
(* A channel's messages on the server and in the cache of a client that    *)
(* has the channel open.  A handler writes the row, reads it back, and     *)
(* tells what it read (routes/messages.rs); previews of links come later   *)
(* from a task of their own.  The client applies what it is told in order, *)
(* and loads the list over REST when it opens the channel or identifies    *)
(* again (accord_messages.dart).  Pins are told to nobody.                 *)
(***************************************************************************)
EXTENDS Naturals, Sequences, FiniteSets

CONSTANTS
  Msg, Task, NoTask,
  Gone,      \* no message
  Texts,     \* texts a message may have
  MaxTold    \* bound: events on their way to the client

VARIABLES
  rows,      \* the copy of each message in the database, or Gone
  flagged,   \* messages.pinned
  pins,      \* pinned_messages
  tasks,     \* handlers and previews in progress
  told,      \* events on their way
  cache,     \* the client's copies
  load,      \* "none", "asked", "sent" or "done"
  list,      \* the list on its way to it
  fresh,     \* history: messages whose id was not used yet
  crossed,   \* history: a write met another's, or an event the loading of the list
  silent,    \* history: messages deleted in bulk
  tangled    \* history: messages whose pin and unpin met

vvars == <<rows, flagged, pins, tasks, told, cache, load, list, fresh, crossed, silent, tangled>>
client == <<told, cache, load, list>>
pinning == <<flagged, pins, tangled>>

Copy == [text : Texts, preview : BOOLEAN]
Lists == [Msg -> Copy \cup {Gone}]
TaskRecord == [op : {"create", "edit", "unfurl", "delete", "pin", "unpin"}, of : Msg,
               stage : {"fetch", "read", "tell", "flag"}, copy : Copy \cup {Gone}]
Event == [kind : {"create", "update", "delete"}, of : Msg, copy : Copy \cup {Gone}]

TypeOK ==
  /\ rows \in Lists /\ cache \in Lists /\ list \in Lists
  /\ flagged \cup pins \cup fresh \cup crossed \cup silent \cup tangled \subseteq Msg
  /\ tasks \in [Task -> TaskRecord \cup {NoTask}]
  /\ told \in Seq(Event)
  /\ load \in {"none", "asked", "sent", "done"}

VInit ==
  /\ rows = [m \in Msg |-> Gone] /\ cache = rows /\ list = rows
  /\ flagged = {} /\ pins = {} /\ tangled = {}
  /\ tasks = [k \in Task |-> NoTask]
  /\ told = <<>> /\ load = "none"
  /\ fresh = Msg /\ crossed = {} /\ silent = {}

There(m) == rows[m] # Gone
Free(k) == tasks[k] = NoTask
At(k, op, stage) == ~Free(k) /\ tasks[k].op = op /\ tasks[k].stage = stage
Goto(k, op, m, stage, copy) ==
  tasks' = [tasks EXCEPT ![k] = [op |-> op, of |-> m, stage |-> stage, copy |-> copy]]
End(k) == tasks' = [tasks EXCEPT ![k] = NoTask]
\* Handlers that wrote a message and have not told it.
Untold(m) == {k \in Task : ~Free(k) /\ tasks[k].of = m /\ tasks[k].stage \in {"read", "tell"}}
Written(k, m, copy) ==
  /\ rows' = [rows EXCEPT ![m] = copy]
  /\ crossed' = IF Untold(m) \ {k} # {} THEN crossed \cup {m} ELSE crossed
-----------------------------------------------------------------------------
(* The handlers.                                                           *)

CreateMessage(k, m, text) ==
  /\ Free(k) /\ m \in fresh
  /\ fresh' = fresh \ {m}
  /\ Written(k, m, [text |-> text, preview |-> FALSE])
  /\ Goto(k, "create", m, "tell", rows'[m])
  /\ UNCHANGED <<client, pinning, silent>>
UpdateMessage(k, m, text) ==
  /\ Free(k) /\ There(m)
  /\ Written(k, m, [rows[m] EXCEPT !.text = text])
  /\ Goto(k, "edit", m, "read", Gone)
  /\ UNCHANGED <<client, pinning, fresh, silent>>
\* The background task: what the links were fetched for may be edited since.
WritePreview(k) ==
  /\ At(k, "unfurl", "fetch")
  /\ LET m == tasks[k].of
     IN  IF There(m)
         THEN /\ Written(k, m, [rows[m] EXCEPT !.preview = TRUE])
              /\ Goto(k, "unfurl", m, "read", Gone)
         ELSE End(k) /\ UNCHANGED <<rows, crossed>>
  /\ UNCHANGED <<client, pinning, fresh, silent>>
NoPreview(k) ==
  /\ At(k, "unfurl", "fetch")
  /\ End(k)
  /\ UNCHANGED <<rows, client, pinning, fresh, crossed, silent>>
\* get_message_row fails when the message is gone, and nothing is told.
ReadBack(k) ==
  /\ At(k, "edit", "read") \/ At(k, "unfurl", "read")
  /\ LET m == tasks[k].of
     IN IF There(m) THEN Goto(k, tasks[k].op, m, "tell", rows[m]) ELSE End(k)
  /\ UNCHANGED <<rows, client, pinning, fresh, crossed, silent>>
DeleteMessage(k, m) ==
  /\ Free(k) /\ There(m)
  /\ Written(k, m, Gone)
  /\ flagged' = flagged \ {m} /\ pins' = pins \ {m}
  /\ Goto(k, "delete", m, "tell", Gone)
  /\ UNCHANGED <<client, fresh, silent, tangled>>
BulkDelete(chosen) ==
  /\ rows' = [m \in Msg |-> IF m \in chosen THEN Gone ELSE rows[m]]
  /\ flagged' = flagged \ chosen /\ pins' = pins \ chosen
  /\ silent' = silent \cup chosen
  /\ UNCHANGED <<client, tasks, fresh, crossed, tangled>>

Kind(op) == IF op \in {"create", "delete"} THEN op ELSE "update"
\* Mutant: previews are told to nobody.
TellEdits(k) ==
  /\ ~Free(k) /\ tasks[k].stage = "tell" /\ Len(told) < MaxTold
  /\ LET t == tasks[k]
     IN  /\ told' = IF t.op = "unfurl" THEN told
                    ELSE Append(told, [kind |-> Kind(t.op), of |-> t.of, copy |-> t.copy])
         /\ \/ End(k)
            \/ t.op = "create" /\ Goto(k, "unfurl", t.of, "fetch", Gone)
  /\ UNCHANGED <<rows, cache, load, list, pinning, fresh, crossed, silent>>
\* A message with links has its previews fetched after it was told.
Tell(k) ==
  /\ ~Free(k) /\ tasks[k].stage = "tell" /\ Len(told) < MaxTold
  /\ LET t == tasks[k]
     IN  /\ told' = Append(told, [kind |-> Kind(t.op), of |-> t.of, copy |-> t.copy])
         /\ \/ End(k)
            \/ t.op = "create" /\ Goto(k, "unfurl", t.of, "fetch", Gone)
  /\ UNCHANGED <<rows, cache, load, list, pinning, fresh, crossed, silent>>
-----------------------------------------------------------------------------
(* Pins: a row of the table, then the flag.  A foreign key refuses the row *)
(* of a message that is gone; the flag of one is written to no row.        *)

Meets(m) == \E k \in Task : ~Free(k) /\ tasks[k].of = m /\ tasks[k].op \in {"pin", "unpin"}
PinMessage(k, m) ==
  /\ Free(k) /\ There(m)
  /\ pins' = pins \cup {m}
  /\ tangled' = IF Meets(m) THEN tangled \cup {m} ELSE tangled
  /\ Goto(k, "pin", m, "flag", Gone)
  /\ UNCHANGED <<rows, flagged, client, fresh, crossed, silent>>
UnpinMessage(k, m) ==
  /\ Free(k) /\ There(m)
  /\ pins' = pins \ {m}
  /\ tangled' = IF Meets(m) THEN tangled \cup {m} ELSE tangled
  /\ Goto(k, "unpin", m, "flag", Gone)
  /\ UNCHANGED <<rows, flagged, client, fresh, crossed, silent>>
Flag(k) ==
  /\ ~Free(k) /\ tasks[k].stage = "flag"
  /\ LET m == tasks[k].of
     IN flagged' = IF tasks[k].op = "pin" /\ There(m) THEN flagged \cup {m} ELSE flagged \ {m}
  /\ End(k)
  /\ UNCHANGED <<rows, pins, tangled, client, fresh, crossed, silent>>
-----------------------------------------------------------------------------
(* The client.                                                             *)

Loading == load \in {"asked", "sent"}
\* The channel is opened, or a new session has replaced one that was lost.
OpenChannel ==
  /\ ~Loading
  /\ load' = "asked"
  /\ UNCHANGED <<rows, pinning, tasks, told, cache, list, fresh, crossed, silent>>
Reidentify ==
  /\ told' = <<>>
  /\ load' = "asked"
  /\ UNCHANGED <<rows, pinning, tasks, cache, list, fresh, crossed, silent>>
\* The list makes good what was missed, unless more of it is under way.
Coming(m) == Untold(m) # {} \/ \E n \in DOMAIN told : told[n].of = m
ListMessages ==
  /\ load = "asked"
  /\ load' = "sent" /\ list' = rows
  /\ crossed' = {m \in crossed : Coming(m)} /\ silent' = {m \in silent : Coming(m)}
  /\ UNCHANGED <<rows, pinning, tasks, told, cache, fresh>>
ReceiveList ==
  /\ load = "sent"
  /\ cache' = list
  /\ load' = "done"
  /\ UNCHANGED <<rows, pinning, tasks, told, list, fresh, crossed, silent>>
LoadFails ==
  /\ Loading
  /\ load' = "none"
  /\ UNCHANGED <<rows, pinning, tasks, told, cache, list, fresh, crossed, silent>>
Added(e) == IF cache[e.of] = Gone THEN e.copy ELSE cache[e.of]
\* addMessage, updateMessage and removeMessage.
ApplyEvent ==
  /\ told # <<>>
  /\ LET e == Head(told)
     IN  /\ cache' = [cache EXCEPT ![e.of] =
              CASE e.kind = "create" -> Added(e)
                [] e.kind = "update" -> IF @ = Gone THEN Gone ELSE e.copy
                [] e.kind = "delete" -> Gone]
         /\ crossed' = IF Loading THEN crossed \cup {e.of} ELSE crossed
  /\ told' = Tail(told)
  /\ UNCHANGED <<rows, pinning, tasks, load, list, fresh, silent>>

VNext ==
  \/ \E k \in Task, m \in Msg :
       \/ \E text \in Texts : CreateMessage(k, m, text) \/ UpdateMessage(k, m, text)
       \/ DeleteMessage(k, m) \/ PinMessage(k, m) \/ UnpinMessage(k, m)
  \/ \E k \in Task : WritePreview(k) \/ NoPreview(k) \/ ReadBack(k) \/ Tell(k) \/ Flag(k)
  \/ \E chosen \in SUBSET {m \in Msg : There(m)} \ {{}} : BulkDelete(chosen)
  \/ OpenChannel \/ Reidentify \/ ListMessages \/ ReceiveList \/ LoadFails \/ ApplyEvent
VSpec == VInit /\ [][VNext]_vvars
-----------------------------------------------------------------------------
(* Properties.                                                             *)

\* A client that loaded the list, and was told all there is to tell, holds the
\* messages of the database ("kept in sync by message create/update/delete
\* gateway events"), but those whose writes met, or that changed while the list
\* was on its way, or that were deleted in bulk.
CacheAgrees ==
  /\ load = "done" /\ told = <<>>
  /\ \A m \in Msg : Untold(m) = {}
  => \A m \in Msg \ (crossed \cup silent) : cache[m] = rows[m]

\* The flag of a message says whether it is in the table of pins, unless a pin
\* and an unpin of it met (pin_message, unpin_message).
PinsAgree == \A m \in Msg : m \in tangled \/ Meets(m) \/ (m \in pins <=> m \in flagged)
=============================================================================
