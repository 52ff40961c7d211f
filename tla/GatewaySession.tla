--------------------------- MODULE GatewaySession ---------------------------
(***************************************************************************)
(* The life of the server's gateway sessions (Server/src/gateway/mod.rs):  *)
(* every WebSocket is one run of handle_socket, a task that shakes hands   *)
(* (IDENTIFY or RESUME), serves a live session, cleans up, and - when the  *)
(* socket merely dropped - stays behind as the parked session a later      *)
(* RESUME may claim.  The tasks share the registry of parked sessions, the *)
(* dispatcher's table of live sessions, the presence table, the voice      *)
(* table and the per-user admission permits; their steps interleave        *)
(* between any two awaits.                                                 *)
(*                                                                         *)
(* A session is named by the socket that IDENTIFIED it (the code draws a   *)
(* fresh snowflake), so sid[c] = c says that c is not a resume.  Event     *)
(* contents, sequence numbers and the replay buffer are module             *)
(* SessionStream; guest sessions, which have neither presence nor resume,  *)
(* are left out.                                                           *)
(***************************************************************************)
EXTENDS Naturals, FiniteSets

CONSTANTS
  Conn,          \* sockets; each connects once
  User,
  UserOf,        \* the user whose token each socket presents
  GlobalLimit,   \* Admission::new(global, ..) of gateway_users
  PerUserLimit,  \* Admission::new(.., per_key) of gateway_users
  NoConn,        \* absent entry
  RestVoice      \* voice membership opened by POST /voice/join

ASSUME ConnAssumption ==
  /\ UserOf \in [Conn -> User]
  /\ NoConn \notin Conn /\ RestVoice \notin Conn /\ NoConn # RestVoice

ASSUME LimitAssumption ==
  /\ IsFiniteSet(Conn)
  /\ GlobalLimit \in Nat /\ PerUserLimit \in Nat

VARIABLES
  pc,           \* where each socket's task stands in handle_socket
  sid,          \* session_id: the session the task serves or asks for
  resumable,    \* the task's resumable flag
  registry,     \* state.resumable_sessions: session -> task parked behind it
  mailbox,      \* claim_rx of a parked task: the socket asking for it
  answer,       \* the oneshot the claimant waits on
  permits,      \* tasks holding a gateway_users permit
  dispatcher,   \* sessions in the dispatcher's table
  presence,     \* users with an entry in state.presences
  voice,        \* state.voice_states: user -> session that joined
  orphaned      \* history: users of a session handed to a socket that gave up

vars == <<pc, sid, resumable, registry, mailbox, answer, permits, dispatcher,
          presence, voice, orphaned>>

Phase == {"handshake", "claiming", "waiting", "admit", "announce", "greet",
          "register", "live", "leaving", "unregister", "parking", "parked",
          "checking", "clearing", "returning", "done"}

Reply == {"none", "pending", "handed", "dropped"}

Init ==
  /\ pc = [c \in Conn |-> "handshake"]
  /\ sid = [c \in Conn |-> NoConn]
  /\ resumable = [c \in Conn |-> TRUE]
  /\ registry = [s \in Conn |-> NoConn]
  /\ mailbox = [c \in Conn |-> NoConn]
  /\ answer = [c \in Conn |-> "none"]
  /\ permits = {}
  /\ dispatcher = {}
  /\ presence = {}
  /\ voice = [u \in User |-> NoConn]
  /\ orphaned = {}

Goto(c, phase) == pc' = [pc EXCEPT ![c] = phase]

----------------------------------------------------------------------------
(* The handshake: await_handshake and claim_parked_session.                *)

\* A bad first frame, a bad token, a closed socket or the 30 s timeout.
FailHandshake(c) ==
  /\ pc[c] = "handshake"
  /\ Goto(c, "done")
  /\ UNCHANGED <<sid, resumable, registry, mailbox, answer, permits,
                 dispatcher, presence, voice, orphaned>>

Identify(c) ==
  /\ pc[c] = "handshake"
  /\ Goto(c, "admit")
  /\ sid' = [sid EXCEPT ![c] = c]
  /\ UNCHANGED <<resumable, registry, mailbox, answer, permits, dispatcher,
                 presence, voice, orphaned>>

\* The registry entry exists and was parked by the user the token names.
Owned(c, s) == registry[s] # NoConn /\ UserOf[registry[s]] = UserOf[c]

\* RESUME: the ownership check, on the registry as it is now.
RequestResume(c, s) ==
  /\ pc[c] = "handshake"
  /\ \/ /\ Owned(c, s)
        /\ sid' = [sid EXCEPT ![c] = s]
        /\ Goto(c, "claiming")
     \/ /\ ~Owned(c, s)
        /\ Goto(c, "done")
        /\ UNCHANGED sid
  /\ UNCHANGED <<resumable, registry, mailbox, answer, permits, dispatcher,
                 presence, voice, orphaned>>

\* ... then the entry is taken out, which only one socket can do, and its task
\* is asked for the handover.
Claim(c) ==
  LET p == registry[sid[c]] IN
  /\ pc[c] = "claiming"
  /\ \/ /\ p = NoConn
        /\ Goto(c, "done")
        /\ UNCHANGED <<registry, mailbox, answer>>
     \/ /\ p # NoConn
        /\ registry' = [registry EXCEPT ![sid[c]] = NoConn]
        /\ mailbox' = [mailbox EXCEPT ![p] = c]
        /\ answer' = [answer EXCEPT ![c] = "pending"]
        /\ Goto(c, "waiting")
  /\ UNCHANGED <<sid, resumable, permits, dispatcher, presence, voice,
                 orphaned>>

\* The parked task went away, or did not answer within five seconds.
GiveUpClaim(c) ==
  /\ pc[c] = "waiting" /\ answer[c] \in {"pending", "dropped"}
  /\ Goto(c, "done")
  /\ UNCHANGED <<sid, resumable, registry, mailbox, answer, permits,
                 dispatcher, presence, voice, orphaned>>

\* The handover arrived.  The socket carries on, or is turned away because the
\* buffer no longer covers the gap, a replayed event is no longer permitted, or
\* a lookup failed.
AcceptHandover(c) ==
  /\ pc[c] = "waiting" /\ answer[c] = "handed"
  /\ \/ /\ Goto(c, "admit")
        /\ UNCHANGED orphaned
     \/ /\ Goto(c, "done")
        /\ orphaned' = orphaned \cup {UserOf[c]}
  /\ UNCHANGED <<sid, resumable, registry, mailbox, answer, permits,
                 dispatcher, presence, voice>>

PermitsOf(u) == {d \in permits : UserOf[d] = u}

\* gateway_users.enter: one global and one per-user permit, held by the task
\* until it returns - parked or not.
Admit(c) ==
  /\ pc[c] = "admit"
  /\ \/ /\ Cardinality(permits) < GlobalLimit
        /\ Cardinality(PermitsOf(UserOf[c])) < PerUserLimit
        /\ permits' = permits \cup {c}
        /\ Goto(c, "announce")
        /\ UNCHANGED orphaned
     \/ /\ \/ Cardinality(permits) >= GlobalLimit
           \/ Cardinality(PermitsOf(UserOf[c])) >= PerUserLimit
        /\ Goto(c, "done")
        /\ orphaned' = IF sid[c] = c THEN orphaned
                                     ELSE orphaned \cup {UserOf[c]}
        /\ UNCHANGED permits
  /\ UNCHANGED <<sid, resumable, registry, mailbox, answer, dispatcher,
                 presence, voice>>

----------------------------------------------------------------------------
(* The session proper.                                                     *)

\* set_presence: always for IDENTIFY, and for RESUME when it lapsed.
Announce(c) ==
  /\ pc[c] = "announce"
  /\ presence' = presence \cup {UserOf[c]}
  /\ Goto(c, "greet")
  /\ UNCHANGED <<sid, resumable, registry, mailbox, answer, permits,
                 dispatcher, voice, orphaned>>

\* send_ready or send_resumed, which fails when the socket is already gone.
Greet(c) ==
  /\ pc[c] = "greet"
  /\ \/ /\ Goto(c, "register")
        /\ UNCHANGED resumable
     \/ /\ resumable' = [resumable EXCEPT ![c] = FALSE]
        /\ Goto(c, "leaving")
  /\ UNCHANGED <<sid, registry, mailbox, answer, permits, dispatcher, presence,
                 voice, orphaned>>

Register(c) ==
  /\ pc[c] = "register"
  /\ dispatcher' = dispatcher \cup {sid[c]}
  /\ Goto(c, "live")
  /\ UNCHANGED <<sid, resumable, registry, mailbox, answer, permits, presence,
                 voice, orphaned>>

PresenceUpdate(c) ==
  /\ pc[c] = "live"
  /\ presence' = presence \cup {UserOf[c]}
  /\ UNCHANGED <<pc, sid, resumable, registry, mailbox, answer, permits,
                 dispatcher, voice, orphaned>>

\* VOICE_STATE_UPDATE with a channel the user is not in yet: the membership
\* records the joining session.
JoinVoice(c) ==
  /\ pc[c] = "live"
  /\ voice' = [voice EXCEPT ![UserOf[c]] = sid[c]]
  /\ UNCHANGED <<pc, sid, resumable, registry, mailbox, answer, permits,
                 dispatcher, presence, orphaned>>

\* VOICE_STATE_UPDATE without a channel: whatever membership the user has.
LeaveVoice(c) ==
  /\ pc[c] = "live"
  /\ voice' = [voice EXCEPT ![UserOf[c]] = NoConn]
  /\ UNCHANGED <<pc, sid, resumable, registry, mailbox, answer, permits,
                 dispatcher, presence, orphaned>>

\* POST /voice/join and DELETE /voice/leave touch the same table.
RestJoinVoice(u) ==
  /\ voice' = [voice EXCEPT ![u] = RestVoice]
  /\ UNCHANGED <<pc, sid, resumable, registry, mailbox, answer, permits,
                 dispatcher, presence, orphaned>>

RestLeaveVoice(u) ==
  /\ voice' = [voice EXCEPT ![u] = NoConn]
  /\ UNCHANGED <<pc, sid, resumable, registry, mailbox, answer, permits,
                 dispatcher, presence, orphaned>>

\* The stream ended or broke, a send failed, or heartbeats stopped.
Drop(c) ==
  /\ pc[c] = "live"
  /\ Goto(c, "leaving")
  /\ UNCHANGED <<sid, resumable, registry, mailbox, answer, permits,
                 dispatcher, presence, voice, orphaned>>

\* A close frame, a revoked credential, a rate limit, a second IDENTIFY.
HangUp(c) ==
  /\ pc[c] = "live"
  /\ resumable' = [resumable EXCEPT ![c] = FALSE]
  /\ Goto(c, "leaving")
  /\ UNCHANGED <<sid, registry, mailbox, answer, permits, dispatcher, presence,
                 voice, orphaned>>

----------------------------------------------------------------------------
(* Cleanup, and the parked session.                                        *)

\* Mutant: skips voice for a session that will be parked.
CleanVoiceUnlessResumable(c) ==
  /\ pc[c] = "leaving"
  /\ voice' = IF resumable[c] THEN voice ELSE [voice EXCEPT ![UserOf[c]] = NoConn]
  /\ Goto(c, "unregister")
  /\ UNCHANGED <<sid, resumable, registry, mailbox, answer, permits,
                 dispatcher, presence, orphaned>>

\* leave_voice_channel names the user, not the session.
CleanVoice(c) ==
  /\ pc[c] = "leaving"
  /\ voice' = [voice EXCEPT ![UserOf[c]] = NoConn]
  /\ Goto(c, "unregister")
  /\ UNCHANGED <<sid, resumable, registry, mailbox, answer, permits,
                 dispatcher, presence, orphaned>>

Unregister(c) ==
  /\ pc[c] = "unregister"
  /\ dispatcher' = dispatcher \ {sid[c]}
  /\ Goto(c, IF resumable[c] THEN "parking" ELSE "checking")
  /\ UNCHANGED <<sid, resumable, registry, mailbox, answer, permits, presence,
                 voice, orphaned>>

Park(c) ==
  /\ pc[c] = "parking"
  /\ registry' = [registry EXCEPT ![sid[c]] = c]
  /\ Goto(c, "parked")
  /\ UNCHANGED <<sid, resumable, mailbox, answer, permits, dispatcher,
                 presence, voice, orphaned>>

\* Mutant: hands over without leaving the loop.
HandOverAndStay(p) ==
  /\ pc[p] = "parked" /\ mailbox[p] # NoConn /\ pc[mailbox[p]] = "waiting"
  /\ answer' = [answer EXCEPT ![mailbox[p]] = "handed"]
  /\ UNCHANGED <<pc, sid, resumable, registry, mailbox, permits, dispatcher,
                 presence, voice, orphaned>>

\* The claim is received with a valid credential: hand the session over,
\* whether or not the claimant still listens, and return.
HandOver(p) ==
  LET c == mailbox[p] IN
  /\ pc[p] = "parked" /\ c # NoConn
  /\ \/ /\ pc[c] = "waiting"
        /\ answer' = [answer EXCEPT ![c] = "handed"]
        /\ UNCHANGED orphaned
     \/ /\ pc[c] # "waiting"
        /\ orphaned' = orphaned \cup {UserOf[p]}
        /\ UNCHANGED answer
  /\ Goto(p, "returning")
  /\ UNCHANGED <<sid, resumable, registry, mailbox, permits, dispatcher,
                 presence, voice>>

\* Mutants: no deadline, so only a refused claim ends the wait; the entry is
\* left behind.
LapseOnClaim(p) ==
  /\ pc[p] = "parked" /\ mailbox[p] # NoConn
  /\ Goto(p, "checking")
  /\ UNCHANGED <<sid, resumable, registry, mailbox, answer, permits,
                 dispatcher, presence, voice, orphaned>>
LapseKeepingEntry(p) ==
  /\ pc[p] = "parked"
  /\ Goto(p, "checking")
  /\ UNCHANGED <<sid, resumable, registry, mailbox, answer, permits,
                 dispatcher, presence, voice, orphaned>>

\* The window closed, or the credential was revoked: drop the registry entry.
Lapse(p) ==
  /\ pc[p] = "parked"
  /\ registry' = [registry EXCEPT ![sid[p]] = NoConn]
  /\ Goto(p, "checking")
  /\ UNCHANGED <<sid, resumable, mailbox, answer, permits, dispatcher,
                 presence, voice, orphaned>>

\* Mutant: counts everybody's sessions.
HasAnySessions(c) == \E s \in dispatcher : s # sid[c]

HasOtherSessions(c) ==
  \E s \in dispatcher : UserOf[s] = UserOf[c] /\ s # sid[c]

\* user_has_other_sessions, and only then remove_presence.
CheckOthers(c) ==
  /\ pc[c] = "checking"
  /\ Goto(c, IF HasOtherSessions(c) THEN "returning" ELSE "clearing")
  /\ UNCHANGED <<sid, resumable, registry, mailbox, answer, permits,
                 dispatcher, presence, voice, orphaned>>

ClearPresence(c) ==
  /\ pc[c] = "clearing"
  /\ presence' = presence \ {UserOf[c]}
  /\ Goto(c, "returning")
  /\ UNCHANGED <<sid, resumable, registry, mailbox, answer, permits,
                 dispatcher, voice, orphaned>>

\* The task's locals are dropped: its permit, and a claim nobody answered.
Return(c) ==
  LET d == mailbox[c] IN
  /\ pc[c] = "returning"
  /\ permits' = permits \ {c}
  /\ answer' = [e \in Conn |->
                  IF e = d /\ answer[e] = "pending" THEN "dropped" ELSE answer[e]]
  /\ Goto(c, "done")
  /\ UNCHANGED <<sid, resumable, registry, mailbox, dispatcher, presence,
                 voice, orphaned>>

----------------------------------------------------------------------------

\* What the server's own tasks do, each step following the last.
Serve(c) ==
  \/ Claim(c) \/ AcceptHandover(c) \/ Admit(c) \/ Announce(c) \/ Greet(c)
  \/ Register(c) \/ CleanVoice(c) \/ Unregister(c) \/ Park(c) \/ HandOver(c)
  \/ CheckOthers(c) \/ ClearPresence(c) \/ Return(c)

\* Timers: the claimant's five seconds, the parked session's sixty.
Expire(c) == GiveUpClaim(c) \/ Lapse(c)

\* What clients do: connect, use the session, lose it.
Client(c) ==
  \/ FailHandshake(c) \/ Identify(c) \/ (\E s \in Conn : RequestResume(c, s))
  \/ PresenceUpdate(c) \/ JoinVoice(c) \/ LeaveVoice(c) \/ Drop(c) \/ HangUp(c)

Next ==
  \/ \E c \in Conn : Serve(c) \/ Expire(c) \/ Client(c)
  \/ \E u \in User : RestJoinVoice(u) \/ RestLeaveVoice(u)

Spec == Init /\ [][Next]_vars

\* The runtime runs every ready task and fires every timer; it promises nothing
\* about clients.
Fairness == \A c \in Conn : WF_vars(Serve(c)) /\ WF_vars(Expire(c))

FairSpec == Spec /\ Fairness
----------------------------------------------------------------------------
(* Properties.                                                             *)

TypeOK ==
  /\ pc \in [Conn -> Phase]
  /\ sid \in [Conn -> Conn \cup {NoConn}]
  /\ resumable \in [Conn -> BOOLEAN]
  /\ registry \in [Conn -> Conn \cup {NoConn}]
  /\ mailbox \in [Conn -> Conn \cup {NoConn}]
  /\ answer \in [Conn -> Reply]
  /\ permits \subseteq Conn
  /\ dispatcher \subseteq Conn
  /\ presence \subseteq User
  /\ voice \in [User -> Conn \cup {NoConn, RestVoice}]
  /\ orphaned \subseteq User

\* Phases in which a task serves, keeps or ends its session.
Serving == {"admit", "announce", "greet", "register", "live", "leaving",
            "unregister", "parking", "parked", "checking", "clearing"}

Holds(c) == pc[c] \in Serving \/ (pc[c] = "waiting" /\ answer[c] = "handed")

\* "Removing hands the session to exactly one socket" (claim_parked_session):
\* however RESUMEs, deadlines and claims race, no two tasks hold one session.
OneHolder ==
  \A c, d \in Conn : Holds(c) /\ Holds(d) /\ sid[c] = sid[d] => c = d

\* The registry names exactly the parked tasks nobody has asked for yet, each
\* under its own session: a task's final remove never takes another's entry.
RegistryExact ==
  \A s, p \in Conn :
    registry[s] = p <=> pc[p] = "parked" /\ sid[p] = s /\ mailbox[p] = NoConn

\* The claim protocol: a session id is never reused by a later socket; a claim
\* is posted only to a task that has parked, for that task's own session and by
\* its own user, although the ownership check and the removal are two steps.
ClaimsExact ==
  /\ \A c \in Conn : pc[c] = "handshake" =>
       sid[c] = NoConn /\ \A d \in Conn : sid[d] # c
  /\ \A c \in Conn : pc[c] \in {"claiming", "waiting"} =>
       sid[c] \in Conn \ {c} /\ UserOf[sid[c]] = UserOf[c]
  /\ \A p \in Conn : mailbox[p] # NoConn =>
       /\ pc[p] \in {"parked", "checking", "clearing", "returning", "done"}
       /\ sid[p] \in Conn /\ sid[mailbox[p]] = sid[p]
       /\ UserOf[mailbox[p]] = UserOf[p]

\* A session stays its user's: the ownership check of a RESUME is made before
\* the entry is taken, and still holds of the session it ends up with.
SessionKeepsUser ==
  \A c \in Conn : Holds(c) => sid[c] \in Conn /\ UserOf[sid[c]] = UserOf[c]

\* The dispatcher's table, which user_has_other_sessions reads, has every live
\* session and no session that is parked or gone.
DispatcherExact ==
  /\ \A c \in Conn : pc[c] = "live" => sid[c] \in dispatcher
  /\ \A s \in dispatcher : \E c \in Conn :
       sid[c] = s /\ pc[c] \in {"live", "leaving", "unregister"}

\* A permit is held by every admitted task until it returns, and by no other:
\* no path through handle_socket leaks one or frees it early.
PermitsExact ==
  permits = {c \in Conn : pc[c] \in (Serving \ {"admit"}) \cup {"returning"}}

\* Tasks that still answer for their user's presence: they will remove it, or
\* leave it to another that will.
Answerable(c) ==
  \/ pc[c] \in Serving \ {"admit", "announce"}
  \/ pc[c] \in {"admit", "announce"} /\ sid[c] # c
  \/ pc[c] = "waiting" /\ answer[c] = "handed"

\* A user shown online has a session, live, parked or on its way - or had one
\* whose handover was taken by a socket that then failed to resume.
GhostsAreOrphans ==
  \A u \in presence \ orphaned : \E c \in Conn : UserOf[c] = u /\ Answerable(c)

\* A voice membership opened by a gateway session does not outlive its socket.
VoiceEndsWithSession ==
  \A u \in User : voice[u] \in Conn =>
    \E c \in Conn : /\ UserOf[c] = u /\ sid[c] = voice[u]
                    /\ pc[c] \in {"live", "leaving"}

\* Every phase the server drives itself ends: whichever way a claim, a lapse
\* and a timeout race, the task goes live or returns.
TaskCompletes ==
  \A c \in Conn :
    (pc[c] \notin {"handshake", "live", "done"}) ~> (pc[c] \in {"live", "done"})

\* resume.rs:7: the resume window "is also how long the user keeps their
\* presence after the socket goes away": with every task gone, so is presence.
PresenceEndsWithWindow ==
  \A u \in presence : \E c \in Conn : UserOf[c] = u /\ pc[c] # "done"

\* claim_parked_session hands a session to one socket, of the user whose it is:
\* no two tasks hold it, and no chain of resumes gives it to somebody else.
HandoverSafe == OneHolder /\ SessionKeepsUser

\* What handle_socket's phases write into the shared tables one by one agrees
\* with where the tasks are: gateway_resume with the parked tasks, the claims
\* with the sessions claimed, the dispatcher with the live sessions, the
\* admission counters with the tasks admitted.
TablesExact ==
  TypeOK /\ RegistryExact /\ ClaimsExact /\ DispatcherExact /\ PermitsExact
=============================================================================
