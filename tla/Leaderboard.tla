---------------------------- MODULE Leaderboard -----------------------------
(***************************************************************************)
(* A leaderboard of a plugin: one record for each user, which a submission *)
(* reads and then writes, and the ranks and the window of records around a *)
(* user that are computed from all of them.                                *)
(***************************************************************************)
EXTENDS Integers, FiniteSets

CONSTANTS
  Entrant,         \* users
  Sub, NoSub,      \* submissions in flight at once, and a slot without one
  Points,          \* scores that are submitted
  Ceiling,         \* bound on the scores that are kept
  Limits           \* how many records a window may show

VARIABLES
  operator, sort,  \* services.leaderboards of the manifest
  record,          \* table plugin_leaderboard_records
  subs,            \* what each submission has read
  right,           \* history: the record of each user, had each submission been atomic
  lapped           \* history: users two of whose submissions overlapped

lvars == <<operator, sort, record, subs, right, lapped>>

NoRecord == -1
TypeOK ==
  /\ operator \in {"set", "best", "increment"} /\ sort \in {"ascending", "descending"}
  /\ record \in [Entrant -> NoRecord..Ceiling]
  /\ subs \in [Sub -> [user: Entrant, score: Points, old: NoRecord..Ceiling] \cup {NoSub}]
  /\ right \in [Entrant -> NoRecord..Ceiling] /\ lapped \subseteq Entrant

Init ==
  /\ operator \in {"set", "best", "increment"} /\ sort \in {"ascending", "descending"}
  /\ record = [u \in Entrant |-> NoRecord] /\ right = record
  /\ subs = [s \in Sub |-> NoSub] /\ lapped = {}

Better(x, y) == IF sort = "ascending" THEN x < y ELSE x > y

\* What upsert_record makes of the record it has read.
Combine(old, score) ==
  IF old = NoRecord THEN score
  ELSE CASE operator = "increment" -> old + score
         [] operator = "best" -> IF Better(score, old) THEN score ELSE old
         [] operator = "set" -> score

Submit(s, u, score) ==
  /\ subs[s] = NoSub
  /\ subs' = [subs EXCEPT ![s] = [user |-> u, score |-> score, old |-> record[u]]]
  /\ lapped' = lapped \cup {v \in {u} : \E t \in Sub : subs[t] # NoSub /\ subs[t].user = u}
  /\ UNCHANGED <<operator, sort, record, right>>

\* A record made meanwhile refuses the insert of another.
Write(s) ==
  /\ subs[s] # NoSub
  /\ LET u == subs[s].user
         kept == subs[s].old = NoRecord /\ record[u] # NoRecord
     IN /\ record' = IF kept THEN record
                     ELSE [record EXCEPT ![u] = Combine(subs[s].old, subs[s].score)]
        /\ right' = [right EXCEPT ![u] =
             IF @ = NoRecord \/ operator = "set" THEN subs[s].score
             ELSE IF operator = "increment" THEN @ + subs[s].score
             ELSE IF Better(subs[s].score, @) THEN subs[s].score ELSE @]
  /\ record'[subs[s].user] <= Ceiling /\ right'[subs[s].user] <= Ceiling
  /\ subs' = [subs EXCEPT ![s] = NoSub]
  /\ UNCHANGED <<operator, sort, lapped>>

LNext ==
  \E s \in Sub : Write(s) \/ \E u \in Entrant, score \in Points : Submit(s, u, score)
LSpec == Init /\ [][LNext]_lvars
-----------------------------------------------------------------------------
Ranked == {u \in Entrant : record[u] # NoRecord}
AtLeast(u) == {v \in Ranked : ~Better(record[u], record[v])}
\* get_user_record, get_around: how many records are as good or better.
Rank(u) == Cardinality(AtLeast(u))

\* The records in the order of ORDER BY score: any order, where scores are equal.
Orders ==
  {place \in [Ranked -> 1..Cardinality(Ranked)] :
     \A u, v \in Ranked :
       /\ u # v => place[u] # place[v]
       /\ Better(record[u], record[v]) => place[u] < place[v]}

\* Mutant: the window begins behind the rank it should begin at.
OffsetBehind(u, limit) == LET start == Rank(u) - (limit \div 2) IN IF start < 0 THEN 0 ELSE start
Offset(u, limit) == LET start == Rank(u) - 1 - (limit \div 2) IN IF start < 0 THEN 0 ELSE start

\* get_around: the LIMIT records after the OFFSET.
Window(u, limit, place) ==
  {v \in Ranked : place[v] > Offset(u, limit) /\ place[v] <= Offset(u, limit) + limit}

Tied(u) == \E v \in Ranked \ {u} : record[v] = record[u]
-----------------------------------------------------------------------------
\* A board keeps what its operator promises, the best of all submissions, the
\* last or the sum, for every user none of whose submissions overlapped
\* (upsert_record reads and writes in two statements).
RecordRight == \A u \in Entrant \ lapped : record[u] = right[u]

\* Whoever shares a score with nobody has in the list the rank that a single
\* record shows, and is in the window around themselves (get_around,
\* get_user_record, get_leaderboard).
WindowShowsUser ==
  \A u \in Ranked, place \in Orders :
    ~Tied(u) => place[u] = Rank(u) /\ \A limit \in Limits : u \in Window(u, limit, place)
=============================================================================
