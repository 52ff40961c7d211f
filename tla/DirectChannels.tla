--------------------------- MODULE DirectChannels ---------------------------
(***************************************************************************)
(* Direct and group messages: a channel without a space belongs to its     *)
(* participants.  Creating one, adding and removing participants, leaving  *)
(* and passing on the ownership of a group take several statements, that   *)
(* interleave with those of other requests.                                *)
(***************************************************************************)
EXTENDS Integers, Sequences, FiniteSets

CONSTANTS
  Peer,      \* users
  Slot,      \* channels that may be created
  Call,      \* requests in flight at once
  NoCall,    \* a slot without a request
  Nobody,    \* for whom a request does not name
  MaxGroup   \* the 10 participants of a group

VARIABLES
  kind,         \* table channels: "none", "dm" or "group_dm"
  owner,        \* channels.owner_id
  participants, \* table dm_participants
  calls,        \* what each request has read, and has still to do
  overlapped    \* history: channels with two requests at once

dvars == <<kind, owner, participants, calls, overlapped>>

Job == {"enter", "insert", "remove", "count", "countGroup", "delete",
        "first", "pass"}
CallRecord == [todo: Seq(Job), on: Slot, user: Peer \cup {Nobody},
               heir: Peer \cup {Nobody}, list: SUBSET Peer]

TypeOK ==
  /\ kind \in [Slot -> {"none", "dm", "group_dm"}]
  /\ owner \in [Slot -> Peer \cup {Nobody}]
  /\ participants \in [Slot -> SUBSET Peer]
  /\ calls \in [Call -> CallRecord \cup {NoCall}]
  /\ \A w \in Call : calls[w] # NoCall => calls[w].todo # <<>>
  /\ overlapped \subseteq Slot
  /\ \A c \in Slot : kind[c] = "none" => participants[c] = {}

Init ==
  /\ kind = [c \in Slot |-> "none"]
  /\ owner = [c \in Slot |-> Nobody]
  /\ participants = [c \in Slot |-> {}]
  /\ calls = [w \in Call |-> NoCall]
  /\ overlapped = {}

On(c) == {w \in Call : calls[w] # NoCall /\ calls[w].on = c}
\* A call has read the channel's row: whether its user owns the group.
Start(w, c, todo, user, list) ==
  /\ calls[w] = NoCall
  /\ calls' = [calls EXCEPT ![w] = [todo |-> todo, on |-> c, user |-> user, list |-> list,
       heir |-> IF kind[c] = "group_dm" /\ owner[c] = user THEN user ELSE Nobody]]
  /\ overlapped' = IF On(c) = {} THEN overlapped ELSE overlapped \cup {c}
Runs(w, job) == calls[w] # NoCall /\ Head(calls[w].todo) = job
With(call, todo, heir, list) ==
  [todo |-> todo, on |-> call.on, user |-> call.user, heir |-> heir, list |-> list]
Goto(w, todo) == calls' = [calls EXCEPT ![w] =
  IF todo = <<>> THEN NoCall ELSE With(@, todo, @.heir, @.list)]
Advance(w) == Goto(w, Tail(calls[w].todo))
Finish(w) == Goto(w, <<>>)
-----------------------------------------------------------------------------
\* A direct message that both are still in is opened again instead.
FindsExistingDm(u, list) == \E v \in list : list = {v} /\
  \E c \in Slot : kind[c] = "dm" /\ {u, v} \subseteq participants[c]

CreateDmChannel(w, c, u) ==
  /\ kind[c] = "none" /\ On(c) = {}
  /\ \E list \in SUBSET Peer :
       /\ list # {} /\ list # {u} /\ Cardinality(list) < MaxGroup
       /\ ~FindsExistingDm(u, list)
       /\ Start(w, c, <<"enter">>, u, list)
  /\ UNCHANGED <<kind, owner, participants>>

\* The row of the channel; its participants are inserted one by one.
InsertChannel(w) ==
  LET call == calls[w]  c == call.on IN
  /\ Runs(w, "enter") /\ kind[c] = "none"
  /\ kind' = [kind EXCEPT ![c] = IF Cardinality(call.list) = 1 THEN "dm" ELSE "group_dm"]
  /\ owner' = [owner EXCEPT ![c] = call.user]
  /\ calls' = [calls EXCEPT ![w] =
       With(@, <<"insert">>, @.heir, @.list \cup {call.user})]
  /\ UNCHANGED <<participants, overlapped>>

\* Who creates a channel is inserted first. Nothing is inserted once the channel
\* is gone: the foreign key fails.
InsertParticipant(w) ==
  LET call == calls[w]  c == call.on IN
  /\ Runs(w, "insert")
  /\ IF kind[c] = "none" THEN Finish(w) /\ UNCHANGED participants
     ELSE \E u \in call.list :
       /\ call.user \in call.list => u = call.user
       /\ participants' = [participants EXCEPT ![c] = @ \cup {u}]
       /\ calls' = [calls EXCEPT ![w] =
            IF call.list = {u} THEN NoCall ELSE With(@, @.todo, @.heir, @.list \ {u})]
  /\ UNCHANGED <<kind, owner, overlapped>>

HasRoom(c) == Cardinality(participants[c]) < MaxGroup

AddRecipient(w, c, u) ==
  /\ kind[c] = "group_dm" /\ owner[c] \in participants[c]
  /\ HasRoom(c)
  /\ Start(w, c, <<"insert">>, u, {u})
  /\ UNCHANGED <<kind, owner, participants>>

\* By the user or by the owner; the channel goes with the last but one.
RemoveRecipient(w, c, u) ==
  /\ kind[c] = "group_dm" /\ participants[c] \cap {u, owner[c]} # {}
  /\ Start(w, c, <<"remove", "countGroup">>, u, {})
  /\ UNCHANGED <<kind, owner, participants>>

\* delete_channel of a direct channel: the caller leaves.
LeaveChannel(w, c, u) ==
  /\ kind[c] # "none" /\ u \in participants[c]
  /\ Start(w, c, <<"remove", "count">>, u, {})
  /\ UNCHANGED <<kind, owner, participants>>

RemoveParticipant(w) ==
  /\ Runs(w, "remove")
  /\ participants' = [participants EXCEPT ![calls[w].on] = @ \ {calls[w].user}]
  /\ Advance(w)
  /\ UNCHANGED <<kind, owner, overlapped>>

\* Who was the owner is replaced; participants are listed before the UPDATE.
Transfer(w) == IF calls[w].heir = Nobody THEN <<>> ELSE <<"first", "pass">>

\* Mutant: a channel stays, however few are left.
Alone(w) == {}
\* The participants that are too few to keep the channel.
TooFew(w) == IF Runs(w, "countGroup") THEN {0, 1} ELSE {0}

CountParticipants(w) ==
  /\ Runs(w, "count") \/ Runs(w, "countGroup")
  /\ IF Cardinality(participants[calls[w].on]) \in TooFew(w)
     THEN Goto(w, <<"delete">>) ELSE Goto(w, Transfer(w))
  /\ UNCHANGED <<kind, owner, participants, overlapped>>

FirstParticipant(w) ==
  LET c == calls[w].on IN
  /\ Runs(w, "first")
  /\ IF participants[c] = {} THEN Finish(w)
     ELSE \E u \in participants[c] :
       calls' = [calls EXCEPT ![w] = With(@, Tail(@.todo), u, @.list)]
  /\ UNCHANGED <<kind, owner, participants, overlapped>>

PassOwnership(w) ==
  LET call == calls[w] IN
  /\ Runs(w, "pass")
  /\ owner' = IF kind[call.on] = "none" THEN owner
              ELSE [owner EXCEPT ![call.on] = call.heir]
  /\ Advance(w)
  /\ UNCHANGED <<kind, participants, overlapped>>

\* The foreign key takes the participants that are left.
DeleteChannel(w) ==
  LET c == calls[w].on IN
  /\ Runs(w, "delete")
  /\ kind' = [kind EXCEPT ![c] = "none"]
  /\ owner' = [owner EXCEPT ![c] = Nobody]
  /\ participants' = [participants EXCEPT ![c] = {}]
  /\ Advance(w)
  /\ UNCHANGED overlapped
-----------------------------------------------------------------------------
DNext ==
  \/ \E w \in Call, c \in Slot, u \in Peer :
       \/ AddRecipient(w, c, u) \/ RemoveRecipient(w, c, u) \/ LeaveChannel(w, c, u)
       \/ CreateDmChannel(w, c, u)
  \/ \E w \in Call :
       \/ InsertChannel(w) \/ InsertParticipant(w) \/ RemoveParticipant(w)
       \/ CountParticipants(w) \/ FirstParticipant(w) \/ PassOwnership(w)
       \/ DeleteChannel(w)

DSpec == Init /\ [][DNext]_dvars
-----------------------------------------------------------------------------
\* A channel without participants goes: of two who leave at once, the one that
\* counts last deletes it.
NoneEmpty == \A c \in Slot :
  kind[c] # "none" /\ On(c) = {} => participants[c] # {}

\* A group has at most 10 participants, as long as requests on it do not
\* overlap. Those that do can all but double it: its creator may still be
\* inserting recipients when others have been added up to the limit, and each
\* further request inserts one that it has room for.
GroupLimit == \A c \in Slot :
  Cardinality(participants[c]) <=
    IF c \in overlapped THEN 2 * MaxGroup + Cardinality(Call) - 3 ELSE MaxGroup

\* The owner of a group is in it, unless requests on it have overlapped.
OwnerTakesPart == \A c \in Slot \ overlapped :
  kind[c] = "group_dm" /\ On(c) = {} => owner[c] \in participants[c]
=============================================================================
