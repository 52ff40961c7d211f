---------------------------- MODULE Relationships ---------------------------
(***************************************************************************)
(* Friends, requests and blocks between two users: a relationship is two   *)
(* rows, one for each side, which requests read and write one by one, and  *)
(* of which each side's client is told apart.                              *)
(***************************************************************************)
EXTENDS Integers, Sequences, FiniteSets

CONSTANTS
  Person,   \* users
  Ask,      \* requests in flight at once
  NoAsk     \* a slot without a request

VARIABLES
  rel,     \* table relationships: rel[u][v], as u sees v
  shown,   \* rel[u][v] as the client of u has been told
  asks,    \* what each request has still to do
  wants,   \* history: <<u, v>> when u has asked v to be friends, and neither has undone it
  crossed  \* history: two requests about the pair overlapped

rvars == <<rel, shown, asks, wants, crossed>>

None == 0  Friend == 1  Blocked == 2  Incoming == 3  Outgoing == 4
Type == None..Outgoing

Job == [op: {"put", "drop", "both", "tell"}, of: Person, on: Person, type: Type]

TypeOK ==
  /\ rel \in [Person -> [Person -> Type]]
  /\ shown \in [Person -> [Person -> Type]]
  /\ asks \in [Ask -> [by: Person, todo: Seq(Job)] \cup {NoAsk}]
  /\ \A w \in Ask : asks[w] # NoAsk => asks[w].todo # <<>>
  /\ wants \subseteq Person \X Person
  /\ crossed \in BOOLEAN
  /\ \A u \in Person : rel[u][u] = None

Init ==
  /\ rel = [u \in Person |-> [v \in Person |-> None]]
  /\ shown = rel
  /\ asks = [w \in Ask |-> NoAsk]
  /\ wants = {} /\ crossed = FALSE

Put(u, v, type) == [op |-> "put", of |-> u, on |-> v, type |-> type]
Tell(u, v, type) == [op |-> "tell", of |-> u, on |-> v, type |-> type]
JobOn(op, u, v) == [op |-> op, of |-> u, on |-> v, type |-> None]
Busy == \E w \in Ask : asks[w] # NoAsk
Start(w, u, todo) ==
  /\ asks[w] = NoAsk
  /\ asks' = [asks EXCEPT ![w] = [by |-> u, todo |-> todo]]
  /\ crossed' = (crossed \/ Busy)
-----------------------------------------------------------------------------
Accepts(u, v) == rel[u][v] = Incoming \/ rel[v][u] = Outgoing

\* Mutant: only the side that accepts becomes a friend.
BecomeHalf(u, v) == <<Put(u, v, Friend), Tell(u, v, Friend), Tell(v, u, Friend)>>
BecomeFriends(u, v) ==
  <<Put(u, v, Friend), Put(v, u, Friend), Tell(u, v, Friend), Tell(v, u, Friend)>>

\* handle_friend_or_accept
Befriend(w, u, v) ==
  /\ rel[v][u] # Blocked
  /\ \/ /\ Accepts(u, v)
        /\ Start(w, u, BecomeFriends(u, v))
     \/ /\ ~Accepts(u, v) /\ rel[u][v] # Friend
        /\ Start(w, u, <<Put(u, v, Outgoing), Put(v, u, Incoming),
                         Tell(u, v, Outgoing), Tell(v, u, Incoming)>>)
  /\ wants' = wants \cup {<<u, v>>}
  /\ UNCHANGED <<rel, shown>>

\* handle_block: the other side's row goes, whatever it is.
BlockUser(w, u, v) ==
  /\ Start(w, u, <<Put(u, v, Blocked), JobOn("drop", v, u), Tell(u, v, Blocked)>>)
  /\ wants' = wants \ {<<u, v>>, <<v, u>>}
  /\ UNCHANGED <<rel, shown>>

DeleteRelationship(w, u, v) ==
  /\ rel[u][v] # None
  /\ Start(w, u, <<JobOn("both", u, v), Tell(u, v, None), Tell(v, u, None)>>)
  /\ wants' = wants \ {<<u, v>>, <<v, u>>}
  /\ UNCHANGED <<rel, shown>>

Set(table, u, v, type) == [table EXCEPT ![u] = [@ EXCEPT ![v] = type]]
Written(job) ==
  CASE job.op = "put"  -> Set(rel, job.of, job.on, job.type)
    [] job.op = "drop" -> Set(rel, job.of, job.on, None)
    [] job.op = "both" -> Set(Set(rel, job.of, job.on, None), job.on, job.of, None)
    [] job.op = "tell" -> rel

\* After delete_relationship, its owner is told if there was a row to delete.
Consequence(job) ==
  IF job.op = "drop" /\ rel[job.of][job.on] # None
  THEN <<Tell(job.of, job.on, None)>> ELSE <<>>

Work(w) ==
  LET job == Head(asks[w].todo)
      todo == Tail(asks[w].todo) \o Consequence(job) IN
  /\ asks[w] # NoAsk
  /\ rel' = Written(job)
  /\ shown' = IF job.op = "tell" THEN Set(shown, job.of, job.on, job.type) ELSE shown
  /\ asks' = [asks EXCEPT ![w] =
       IF todo = <<>> THEN NoAsk ELSE [by |-> @.by, todo |-> todo]]
  /\ UNCHANGED <<wants, crossed>>

RNext ==
  \/ \E w \in Ask : Work(w)
  \/ \E w \in Ask, u, v \in Person : u # v /\
       (Befriend(w, u, v) \/ BlockUser(w, u, v) \/ DeleteRelationship(w, u, v))

RSpec == Init /\ [][RNext]_rvars
-----------------------------------------------------------------------------
Settled == ~Busy /\ ~crossed

\* The two rows of a relationship agree: friends are friends on both sides, a
\* request has two ends, and who is blocked has no row.
RowsAgree == Settled => \A u, v \in Person :
  /\ rel[u][v] = Friend <=> rel[v][u] = Friend
  /\ rel[u][v] = Incoming <=> rel[v][u] = Outgoing
  /\ rel[u][v] = Blocked => rel[v][u] = None

\* What each side's client has been told is what its row says.
ClientsAgree == Settled => shown = rel

\* Nobody becomes a friend who has not asked to, or accepted.
FriendsAgreed == Settled => \A u, v \in Person :
  rel[u][v] = Friend => <<u, v>> \in wants /\ <<v, u>> \in wants

\* A block is lifted by who set it: the other side's row that handle_block
\* removes is "pending/friend", says its comment.
BlockStays == [][\A u, v \in Person :
  rel[u][v] = Blocked /\ rel'[u][v] # Blocked /\ ~crossed =>
    \E w \in Ask : asks[w] # NoAsk /\ asks[w].by = u]_rvars
=============================================================================
