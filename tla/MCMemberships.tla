--------------------------- MODULE MCMemberships ----------------------------
(***************************************************************************)
(* Six components that share no state, each checked by itself in one run:  *)
(* focus, chosen at the start, is the one that runs.                       *)
(***************************************************************************)
EXTENDS Permissions, Sequences, FiniteSets, TLC

CONSTANTS view, send, manage, admin, own, ann, bob, low, high, everyone,
          Member, Founder, Request, NoRequest, MaxUses,
          Person, Ask, NoAsk,
          Peer, Direct, Call, NoCall, Nobody, MaxGroup, Creators, Lists,
          Gamer, Host, Gate, NoGate, MaxPlayers, MaxSlot,
          Entrant, Sub, NoSub, Points, Ceiling, Limits

VARIABLES
  space, enrolled, banned, invite, requests, roster, claimed, welcomes, entered, raced,
  rel, shown, asks, wants, crossed,
  kind, owner, participants, calls, overlapped,
  session, party, slot, upToDate, gates, contended,
  operator, sort, record, subs, right, lapped,
  focus

belonging == <<space, enrolled, banned, invite, requests, roster, claimed, welcomes,
               entered, raced>>
pairs == <<rel, shown, asks, wants, crossed>>
direct == <<kind, owner, participants, calls, overlapped>>
activity == <<session, party, slot, upToDate, gates, contended>>
board == <<operator, sort, record, subs, right, lapped>>

M == INSTANCE Membership WITH members <- enrolled
R == INSTANCE Relationships
D == INSTANCE DirectChannels WITH Slot <- Direct
P == INSTANCE PluginSessions WITH User <- Gamer
L == INSTANCE Leaderboard

\* The founder belongs to the space, a group may hold two users, users, calls,
\* gamers and entrants are finitely many, scores are at least 0, a window shows a
\* record, and what marks a slot without a request is not one.
ASSUME MembershipsAssumption ==
  /\ Founder \in Member /\ MaxUses \in Nat
  /\ NoRequest \notin [todo: Seq(M!Step), user: Member]
  /\ NoAsk \notin [by: Person, todo: Seq(R!Job)]
  /\ IsFiniteSet(Peer) /\ IsFiniteSet(Call) /\ Nobody \notin Peer
  /\ NoCall \notin D!CallRecord /\ MaxGroup \in Nat /\ MaxGroup >= 2
  /\ IsFiniteSet(Gamer) /\ Host \in Gamer /\ NoGate \notin P!GateCall
  /\ MaxPlayers \in Nat /\ MaxSlot \in Nat
  /\ IsFiniteSet(Entrant) /\ Ceiling \in Nat /\ Points \subseteq 0..Ceiling
  /\ Limits \subseteq Nat \ {0}
  /\ NoSub \notin [user: Entrant, score: Points, old: L!NoRecord..Ceiling]

\* A space with two roles above @everyone, held by two members besides the
\* owner: a manager above a member, or two managers of the same rank.
AllPerms == {view, send, manage, admin}
SomeArrays == {{}, {send}, {view, manage}}
Hierarchy == [
  position |-> (low :> 1 @@ high :> 2 @@ everyone :> 0),
  grants |-> (low :> {} @@ high :> {manage} @@ everyone :> {view}),
  holds |-> (own :> {} @@ ann :> {high} @@ bob :> {low})]
Equals == [Hierarchy EXCEPT !.holds = own :> {} @@ ann :> {low, high} @@ bob :> {high}]
SomeSetups == {Hierarchy, Equals}

MCInit ==
  /\ Init /\ M!Init /\ R!Init /\ D!Init /\ P!Init
  /\ \/ focus \in {"roles", "space", "pairs", "direct", "activity"}
        /\ record = [u \in Entrant |-> L!NoRecord] /\ right = record
        /\ subs = [s \in Sub |-> NoSub] /\ lapped = {}
        /\ operator = "set" /\ sort = "ascending"
     \/ focus = "board" /\ L!Init
  /\ focus # "roles" => holds = Hierarchy.holds

\* Two requests about one session may meet, and then no third begins.
NoThird == contended => \A g \in Gate : gates[g] = NoGate => gates'[g] = NoGate

\* Requests about each member have overlapped, and then none begins any more.
NoFurther == raced = Member =>
  \A w \in Request : requests[w] = NoRequest => requests'[w] = NoRequest

\* Peers are alike, and none takes part in a channel that is being created: its
\* creator is the first of them, and its recipients are the next ones.
Alike == \A w \in Call : D!Runs(w, "enter")' =>
  calls'[w].user \in Creators /\ calls'[w].list \in Lists

MCNext ==
  /\ UNCHANGED focus
  /\ \/ focus = "roles" /\ Next /\ UNCHANGED <<belonging, pairs, direct, activity, board>>
     \/ /\ focus = "space" /\ M!Next /\ NoFurther
        /\ UNCHANGED <<vars, pairs, direct, activity, board>>
     \/ focus = "pairs" /\ R!RNext /\ UNCHANGED <<vars, belonging, direct, activity, board>>
     \/ /\ focus = "direct" /\ D!DNext /\ Alike
        /\ UNCHANGED <<vars, belonging, pairs, activity, board>>
     \/ /\ focus = "activity" /\ P!PNext /\ NoThird
        /\ UNCHANGED <<vars, belonging, pairs, direct, board>>
     \/ focus = "board" /\ L!LNext /\ UNCHANGED <<vars, belonging, pairs, direct, activity>>
MCSpec == MCInit /\ [][MCNext]_<<vars, belonging, pairs, direct, activity, board, focus>>

\* The six kinds of requests in flight are given the same model values.
Interchangeable == Permutations(Request)

(* The properties of the instantiated components, where each is looked at;   *)
(* their parts name the overlaps of requests that they leave out.            *)

\* Joins, invites, bans, departures and owners (Membership): who is banned is
\* out, an invite lets in as many as it says, one welcome per member, the owner
\* is a member, and the clients' roster ends as the table.
SpaceHolds == focus = "space" =>
  /\ M!TypeOK /\ M!BannedAreOut /\ M!InviteCounted /\ M!IntroducedOnce
  /\ M!OwnerIsMember /\ M!RosterSettled
\* put_relationship and delete_relationship (Relationships): the two rows of a
\* pair agree, so do the clients, and friends have both asked for it.
PairsHold == focus = "pairs" =>
  R!TypeOK /\ R!RowsAgree /\ R!ClientsAgree /\ R!FriendsAgreed
\* Groups (DirectChannels): none is empty, ownerless or over its limit, however
\* adding, removing and leaving meet.
GroupsHold == focus = "direct" =>
  D!TypeOK /\ D!NoneEmpty /\ D!GroupLimit /\ D!OwnerTakesPart
\* Activities (PluginSessions): each player a slot of their own, and the roster
\* shown is that of the table.
ActivityHolds == focus = "activity" => P!TypeOK /\ P!SlotsKept /\ P!RosterShown
\* Leaderboards (Leaderboard): each record is what its submissions make it, and
\* the window around a user shows them.
BoardHolds == focus = "board" => L!TypeOK /\ L!RecordRight /\ L!WindowShowsUser
=============================================================================
