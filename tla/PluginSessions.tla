--------------------------- MODULE PluginSessions ---------------------------
(***************************************************************************)
(* A session of an activity plugin: a host, players with slots, spectators *)
(* and a life from lobby to end. Requests read, decide and write one after *)
(* another without a transaction, and then tell the participants.          *)
(***************************************************************************)
EXTENDS Integers, FiniteSets

CONSTANTS
  User, Host,      \* members of the channel, and who starts the session
  Gate, NoGate,    \* requests in flight at once, and a slot without one
  MaxPlayers,      \* manifest.max_participants, 0 for no limit
  MaxSlot          \* bound on the slots that are given out

VARIABLES
  session,    \* plugin_sessions.state; "new" before there is a row, "gone" after
  party,     \* table plugin_session_participants: the role of each user
  slot,       \* slot_index of each player
  upToDate,   \* users whose clients were last told the participants there are
  gates,      \* what each request has read and has still to do
  contended     \* history: two requests that change the session overlapped

pvars == <<session, party, slot, upToDate, gates, contended>>

NoSlot == -1
Roles == {"out", "player", "spectator"}
Live == {"lobby", "running", "ended"}

GateCall == [at: {"count", "pick", "write", "remove", "turn", "drop", "gather", "send"},
            user: User, role: Roles, was: Roles, slot: NoSlot..MaxSlot,
            state: Live, to: SUBSET User, fresh: BOOLEAN]

TypeOK ==
  /\ session \in Live \cup {"new", "gone"}
  /\ party \in [User -> Roles] /\ upToDate \subseteq User
  /\ slot \in [User -> NoSlot..MaxSlot]
  /\ gates \in [Gate -> GateCall \cup {NoGate}]
  /\ contended \in BOOLEAN
  /\ \A u \in User : slot[u] # NoSlot <=> party[u] = "player"
  /\ session \in Live <=> party[Host] # "out"

NoParty == [u \in User |-> "out"]
Init ==
  /\ session = "new" /\ party = NoParty /\ slot = [u \in User |-> NoSlot]
  /\ upToDate = {} /\ gates = [g \in Gate |-> NoGate]
  /\ contended = FALSE

Players == {u \in User : party[u] = "player"}
Participants == {u \in User : party[u] # "out"}
TopSlot == CHOOSE s \in NoSlot..MaxSlot :
         /\ \A u \in Players : slot[u] <= s
         /\ s = NoSlot \/ \E u \in Players : slot[u] = s

Enter(g, at, u, role) ==
  /\ gates[g] = NoGate /\ session \in Live
  /\ gates' = [gates EXCEPT ![g] =
       [at |-> at, user |-> u, role |-> role, was |-> party[u], slot |-> NoSlot,
        state |-> "lobby", to |-> {}, fresh |-> FALSE]]
  /\ contended' = (contended \/ \E h \in Gate : gates[h] # NoGate)
  /\ UNCHANGED <<session, party, slot, upToDate>>

\* A request comes to at, with what it has read since.
Reach(call, at, place, to, fresh) ==
  [at |-> at, user |-> call.user, role |-> call.role, was |-> call.was, slot |-> place,
   state |-> call.state, to |-> to, fresh |-> fresh]
To(g, at) == gates' = [gates EXCEPT ![g] = Reach(@, at, @.slot, @.to, @.fresh)]
\* The participants change: what was told or read of them is out of date.
Changed(g) ==
  /\ upToDate' = {}
  /\ gates' = [h \in Gate |-> IF gates[h] = NoGate THEN NoGate
                              ELSE LET r == gates[h] IN
                                Reach(r, IF h = g THEN "gather" ELSE r.at, r.slot, r.to, FALSE)]
Leave(g) == gates' = [gates EXCEPT ![g] = NoGate]
-----------------------------------------------------------------------------
\* create_session: the host plays, in the first slot, and the space is told.
CreateSession(lobby) ==
  /\ session = "new"
  /\ session' = IF lobby THEN "lobby" ELSE "running"
  /\ party' = [party EXCEPT ![Host] = "player"]
  /\ slot' = [slot EXCEPT ![Host] = 0]
  /\ upToDate' = User
  /\ UNCHANGED <<gates, contended>>

\* assign_role, by the user or the host: the session and its participants,
\* then how many play, then the next slot, each read by itself.
AssignRole(g, u, role) == Enter(g, IF role = "player" THEN "count" ELSE "write", u, role)

HasRoom(g) == gates[g].was = "player" \/ Cardinality(Players) < MaxPlayers

CountPlayers(g) ==
  /\ gates[g].at = "count"
  /\ IF MaxPlayers = 0 \/ HasRoom(g) THEN To(g, "pick") ELSE Leave(g)
  /\ UNCHANGED <<session, party, slot, upToDate, contended>>

NextSlot == TopSlot + 1

PickSlot(g) ==
  /\ gates[g].at = "pick" /\ NextSlot <= MaxSlot
  /\ gates' = [gates EXCEPT ![g] = Reach(@, "write", NextSlot, @.to, @.fresh)]
  /\ UNCHANGED <<session, party, slot, upToDate, contended>>

\* A row is inserted or updated as the user was, or was not, a participant
\* at the start; if that has changed since, or the session is gone, it fails.
WriteRole(g) ==
  LET r == gates[g] IN
  /\ r.at = "write"
  /\ \/ /\ session \in Live /\ (r.was = "out" <=> party[r.user] = "out")
        /\ party' = [party EXCEPT ![r.user] = r.role]
        /\ slot' = [slot EXCEPT ![r.user] = r.slot]
        /\ Changed(g)
     \/ /\ ~(session \in Live /\ (r.was = "out" <=> party[r.user] = "out"))
        /\ Leave(g) /\ UNCHANGED <<party, slot, upToDate>>
  /\ UNCHANGED <<session, contended>>

\* leave_session: anybody but the host.
LeaveSession(g, u) == u # Host /\ Enter(g, "remove", u, "out")
RemoveParticipant(g) ==
  /\ gates[g].at = "remove"
  /\ party' = [party EXCEPT ![gates[g].user] = "out"]
  /\ slot' = [slot EXCEPT ![gates[g].user] = NoSlot]
  /\ Changed(g)
  /\ UNCHANGED <<session, contended>>

\* Mutant: the session as it was read before the change is sent.
SeenBefore(g) == gates[g].was = party[gates[g].user]
SeenNow(g) == TRUE

\* The participants, then the session that is sent to them; gone, an error.
Gather(g) ==
  /\ gates[g].at = "gather"
  /\ IF session \in Live
     THEN gates' = [gates EXCEPT ![g] = Reach(@, "send", @.slot, Participants, SeenNow(g))]
     ELSE Leave(g)
  /\ UNCHANGED <<session, party, slot, upToDate, contended>>

SendRoster(g) ==
  /\ gates[g].at = "send"
  /\ upToDate' = IF gates[g].fresh THEN upToDate \cup gates[g].to ELSE upToDate \ gates[g].to
  /\ Leave(g)
  /\ UNCHANGED <<session, party, slot, contended>>
-----------------------------------------------------------------------------
Allowed(from, to) == <<from, to>> \in {<<"lobby", "running">>, <<"running", "ended">>, <<"lobby", "ended">>}

\* update_session_state, by the host: checked against the state read before.
UpdateSessionState(g, to) ==
  /\ gates[g] = NoGate /\ session \in Live /\ Allowed(session, to)
  /\ gates' = [gates EXCEPT ![g] =
       [at |-> "turn", user |-> Host, role |-> "out", was |-> "out", slot |-> NoSlot,
        state |-> to, to |-> {}, fresh |-> FALSE]]
  /\ contended' = (contended \/ \E h \in Gate : gates[h] # NoGate)
  /\ UNCHANGED <<session, party, slot, upToDate>>

WriteState(g) ==
  /\ gates[g].at = "turn"
  /\ session' = IF session \in Live THEN gates[g].state ELSE session
  /\ Leave(g)
  /\ UNCHANGED <<party, slot, upToDate, contended>>

\* delete_session, and uninstall_plugin: the participants go with their session.
DeleteSession ==
  /\ session \in Live
  /\ session' = "gone" /\ party' = NoParty /\ slot' = [u \in User |-> NoSlot]
  /\ UNCHANGED <<upToDate, gates, contended>>

Work(g) ==
  \/ CountPlayers(g) \/ PickSlot(g) \/ WriteRole(g) \/ RemoveParticipant(g)
  \/ Gather(g) \/ SendRoster(g) \/ WriteState(g)

PNext ==
  \/ \E lobby \in BOOLEAN : CreateSession(lobby)
  \/ \E g \in Gate :
       \/ \E u \in User : \/ \E role \in {"player", "spectator"} : AssignRole(g, u, role)
                          \/ LeaveSession(g, u)
       \/ \E to \in Live : UpdateSessionState(g, to)
       \/ gates[g] # NoGate /\ Work(g)
  \/ DeleteSession

PSpec == Init /\ [][PNext]_pvars
-----------------------------------------------------------------------------
\* As long as requests follow one another, there are no more players than the
\* manifest allows, and no two share a slot (assign_role, plugins.rs:528).
SlotsKept ==
  ~contended =>
    /\ MaxPlayers = 0 \/ Cardinality(Players) <= MaxPlayers
    /\ \A u, v \in Players : slot[u] = slot[v] => u = v

\* Every participant has been told the participants there are, once nothing is in
\* flight, unless requests overlapped (assign_role, leave_session).
RosterShown ==
  ~contended /\ (\A g \in Gate : gates[g] = NoGate) =>
    Participants \subseteq upToDate

\* "Max player slots (0 = unlimited)" (Server/README.md:351): there are never
\* more players than that.
PlayersLimited == MaxPlayers = 0 \/ Cardinality(Players) <= MaxPlayers
=============================================================================
