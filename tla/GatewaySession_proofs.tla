------------------------ MODULE GatewaySession_proofs ------------------------
(***************************************************************************)
(* The safety properties of GatewaySession for every set of sockets, every *)
(* assignment of users and every admission limit.  All but one are parts   *)
(* of one inductive invariant: OneHolder needs RegistryExact and           *)
(* ClaimsExact (who can be handed a session), GhostsAreOrphans needs       *)
(* DispatcherExact and SessionKeepsUser (the sessions that                 *)
(* user_has_other_sessions counts are served by tasks of that user).       *)
(***************************************************************************)
EXTENDS GatewaySession, TLAPS

IInv == /\ TypeOK /\ ClaimsExact /\ OneHolder /\ RegistryExact /\ SessionKeepsUser
        /\ DispatcherExact /\ PermitsExact /\ GhostsAreOrphans
        /\ VoiceEndsWithSession

\* Before any socket speaks, nothing is held.
LEMMA InitIInv == Init => IInv
BY ConnAssumption
DEF Init, IInv, TypeOK, ClaimsExact, OneHolder, RegistryExact, SessionKeepsUser,
    DispatcherExact, PermitsExact, GhostsAreOrphans, VoiceEndsWithSession,
    Holds, Serving, Phase, Reply

----------------------------------------------------------------------------
(* The steps that disturb several parts at once.                           *)

\* A RESUME that passes the ownership check asks for a session some task of the
\* same user has parked, so never for the id its own IDENTIFY would have had.
LEMMA RequestResumeStep ==
  ASSUME IInv, NEW c \in Conn, NEW s \in Conn, RequestResume(c, s)
  PROVE  IInv'
<1> USE ConnAssumption DEF IInv, RequestResume, Goto
<1>1. CASE ~Owned(c, s)
  BY <1>1 DEF TypeOK, ClaimsExact, OneHolder, RegistryExact, SessionKeepsUser,
    DispatcherExact, PermitsExact, GhostsAreOrphans, VoiceEndsWithSession,
    Answerable, Holds, Serving, Phase
<1>2. CASE Owned(c, s)
  <2>1. PICK p \in Conn : /\ registry[s] = p /\ sid[p] = s /\ pc[p] = "parked"
                          /\ UserOf[p] = UserOf[c]
    BY <1>2 DEF Owned, RegistryExact, TypeOK
  <2>2. s # c /\ pc[c] = "handshake" /\ pc[s] # "handshake"
    BY <2>1 DEF ClaimsExact, TypeOK
  <2>3. UserOf[s] = UserOf[c]
    BY <2>1 DEF SessionKeepsUser, Holds, Serving
  <2>4. \A q \in Conn : mailbox[q] # c
    BY <2>2 DEF ClaimsExact, TypeOK
  <2>5. /\ sid' = [sid EXCEPT ![c] = s] /\ pc' = [pc EXCEPT ![c] = "claiming"]
        /\ mailbox' = mailbox
    BY <1>2
  <2>6. ClaimsExact'
    BY <2>2, <2>3, <2>4, <2>5 DEF ClaimsExact, TypeOK
  <2>7. TypeOK' /\ OneHolder' /\ RegistryExact' /\ SessionKeepsUser'
    BY <2>2, <2>5 DEF TypeOK, OneHolder, RegistryExact, SessionKeepsUser, Holds,
                     Serving, Phase
  <2>8. DispatcherExact' /\ PermitsExact' /\ GhostsAreOrphans'
        /\ VoiceEndsWithSession'
    BY <2>2, <2>5 DEF TypeOK, DispatcherExact, PermitsExact, GhostsAreOrphans,
                     VoiceEndsWithSession, Answerable, Serving, Phase
  <2> QED BY <2>6, <2>7, <2>8
<1> QED BY <1>1, <1>2

\* Taking the entry out posts the claim to the one task parked behind it.
LEMMA ClaimStep ==
  ASSUME IInv, NEW c \in Conn, Claim(c)
  PROVE  IInv'
<1> USE ConnAssumption DEF IInv
<1> DEFINE p == registry[sid[c]]
<1>1. TypeOK'
  BY DEF Claim, Goto, TypeOK, ClaimsExact, Phase, Reply
<1>2. ClaimsExact'
  <2>1. CASE p = NoConn
    BY <2>1 DEF Claim, Goto, TypeOK, ClaimsExact
  <2>2. CASE p # NoConn
    <3>1. /\ p \in Conn /\ pc[p] = "parked" /\ sid[p] = sid[c]
          /\ sid[c] \in Conn /\ pc[c] = "claiming"
      BY <2>2 DEF RegistryExact, Claim, TypeOK, ClaimsExact
    <3>2. UserOf[p] = UserOf[c]
      BY <3>1 DEF SessionKeepsUser, Holds, Serving, ClaimsExact
    <3>3. /\ mailbox' = [mailbox EXCEPT ![p] = c] /\ sid' = sid
          /\ pc' = [pc EXCEPT ![c] = "waiting"]
      BY <2>2 DEF Claim, Goto
    <3> QED BY <3>1, <3>2, <3>3 DEF TypeOK, ClaimsExact
  <2> QED BY <2>1, <2>2
<1>3. OneHolder' /\ SessionKeepsUser'
  BY DEF Claim, Goto, TypeOK, ClaimsExact, OneHolder, SessionKeepsUser, Holds,
         Serving
<1>4. RegistryExact'
  BY DEF Claim, Goto, TypeOK, ClaimsExact, OneHolder, RegistryExact, Holds,
         Serving
<1>5. DispatcherExact' /\ PermitsExact' /\ VoiceEndsWithSession'
  BY DEF Claim, Goto, TypeOK, DispatcherExact, PermitsExact,
         VoiceEndsWithSession, Serving
<1>6. GhostsAreOrphans'
  BY DEF Claim, Goto, TypeOK, GhostsAreOrphans, Answerable, Serving
<1> QED BY <1>1, <1>2, <1>3, <1>4, <1>5, <1>6

\* The parked task answers: the claimant holds the session from then on, or has
\* given up and the user is counted among the orphaned.
LEMMA HandOverStep ==
  ASSUME IInv, NEW q \in Conn, HandOver(q)
  PROVE  IInv'
<1> USE ConnAssumption DEF IInv
<1>1. TypeOK'
  BY DEF HandOver, Goto, TypeOK, Phase, Reply
<1>2. ClaimsExact' /\ RegistryExact'
  BY DEF HandOver, Goto, TypeOK, ClaimsExact, RegistryExact
<1>3. OneHolder' /\ SessionKeepsUser'
  BY DEF HandOver, Goto, TypeOK, ClaimsExact, OneHolder, SessionKeepsUser,
         Holds, Serving
<1>4. DispatcherExact' /\ PermitsExact' /\ VoiceEndsWithSession'
  BY DEF HandOver, Goto, TypeOK, DispatcherExact, PermitsExact,
         VoiceEndsWithSession, Serving
<1>5. GhostsAreOrphans'
  BY DEF HandOver, Goto, TypeOK, ClaimsExact, GhostsAreOrphans, Answerable,
         Serving
<1> QED BY <1>1, <1>2, <1>3, <1>4, <1>5

\* A task that finds another registered session leaves presence to it: that
\* session is the same user's and its task still has to come through here.
LEMMA CheckOthersStep ==
  ASSUME IInv, NEW c \in Conn, CheckOthers(c)
  PROVE  IInv'
<1> USE ConnAssumption DEF IInv
<1>1. TypeOK' /\ ClaimsExact' /\ OneHolder' /\ RegistryExact' /\ SessionKeepsUser'
  BY DEF CheckOthers, Goto, TypeOK, ClaimsExact, OneHolder, RegistryExact,
         SessionKeepsUser, Holds, Serving, Phase
<1>2. DispatcherExact' /\ PermitsExact' /\ VoiceEndsWithSession'
  BY DEF CheckOthers, Goto, TypeOK, DispatcherExact, PermitsExact,
         VoiceEndsWithSession, Serving
<1>3. GhostsAreOrphans'
  <2>1. CASE HasOtherSessions(c)
    <3>1. PICK d \in Conn : /\ UserOf[d] = UserOf[c] /\ sid[d] # sid[c]
                            /\ pc[d] \in {"live", "leaving", "unregister"}
      BY <2>1 DEF HasOtherSessions, DispatcherExact, SessionKeepsUser, Holds,
                  Serving
    <3>2. Answerable(d)'
      BY <3>1 DEF CheckOthers, Goto, TypeOK, Answerable, Serving
    <3> QED BY <3>1, <3>2 DEF CheckOthers, Goto, TypeOK, GhostsAreOrphans,
                              Answerable, Serving
  <2>2. CASE ~HasOtherSessions(c)
    BY <2>2 DEF CheckOthers, Goto, TypeOK, GhostsAreOrphans, Answerable, Serving
  <2> QED BY <2>1, <2>2
<1> QED BY <1>1, <1>2, <1>3

\* A resume goes on to admission, or orphans the presence it came for.
LEMMA AcceptHandoverStep ==
  ASSUME IInv, NEW c \in Conn, AcceptHandover(c)
  PROVE  IInv'
<1> USE ConnAssumption DEF IInv
<1>1. TypeOK'
  BY DEF AcceptHandover, Goto, TypeOK, Phase
<1>2. ClaimsExact' /\ RegistryExact'
  BY DEF AcceptHandover, Goto, TypeOK, ClaimsExact, RegistryExact
<1>3. OneHolder' /\ SessionKeepsUser'
  BY DEF AcceptHandover, Goto, TypeOK, OneHolder, SessionKeepsUser, Holds, Serving
<1>4. DispatcherExact' /\ PermitsExact' /\ VoiceEndsWithSession'
  BY DEF AcceptHandover, Goto, TypeOK, DispatcherExact, PermitsExact,
         VoiceEndsWithSession, Serving
<1>5. GhostsAreOrphans'
  BY DEF AcceptHandover, Goto, TypeOK, ClaimsExact, GhostsAreOrphans, Answerable, Serving
<1> QED BY <1>1, <1>2, <1>3, <1>4, <1>5

\* Admission moves no table but the permits.
LEMMA AdmitStep ==
  ASSUME IInv, NEW c \in Conn, Admit(c)
  PROVE  IInv'
<1> USE ConnAssumption DEF IInv
<1> DEFINE Taken == /\ permits' = permits \cup {c} /\ orphaned' = orphaned
                    /\ pc' = [pc EXCEPT ![c] = "announce"]
           Refused == /\ permits' = permits /\ pc' = [pc EXCEPT ![c] = "done"]
                      /\ orphaned' = IF sid[c] = c THEN orphaned
                                      ELSE orphaned \cup {UserOf[c]}
<1>1. /\ pc[c] = "admit" /\ (Taken \/ Refused)
      /\ UNCHANGED <<sid, resumable, registry, mailbox, answer, dispatcher,
                     presence, voice>>
  BY DEF Admit, Goto
<1>2. TypeOK'
  BY <1>1 DEF TypeOK, Phase
<1>3. ClaimsExact' /\ RegistryExact'
  BY <1>1 DEF TypeOK, ClaimsExact, RegistryExact
<1>4. OneHolder' /\ SessionKeepsUser'
  BY <1>1 DEF TypeOK, OneHolder, SessionKeepsUser, Holds, Serving
<1>5. DispatcherExact' /\ PermitsExact' /\ VoiceEndsWithSession'
  BY <1>1 DEF TypeOK, DispatcherExact, PermitsExact,
         VoiceEndsWithSession, Serving
<1>6. GhostsAreOrphans'
  BY <1>1 DEF TypeOK, ClaimsExact, GhostsAreOrphans, Answerable, Serving
<1> QED BY <1>1, <1>2, <1>3, <1>4, <1>5, <1>6

\* Publishing presence makes the task answerable for it.
LEMMA AnnounceStep ==
  ASSUME IInv, NEW c \in Conn, Announce(c)
  PROVE  IInv'
<1> USE ConnAssumption DEF IInv
<1>1. TypeOK'
  BY DEF Announce, Goto, TypeOK, Phase
<1>2. ClaimsExact' /\ RegistryExact'
  BY DEF Announce, Goto, TypeOK, ClaimsExact, RegistryExact
<1>3. OneHolder' /\ SessionKeepsUser'
  BY DEF Announce, Goto, TypeOK, OneHolder, SessionKeepsUser, Holds, Serving
<1>4. DispatcherExact' /\ PermitsExact' /\ VoiceEndsWithSession'
  BY DEF Announce, Goto, TypeOK, DispatcherExact, PermitsExact,
         VoiceEndsWithSession, Serving
<1>5. GhostsAreOrphans'
  BY DEF Announce, Goto, TypeOK, ClaimsExact, GhostsAreOrphans, Answerable, Serving
<1> QED BY <1>1, <1>2, <1>3, <1>4, <1>5

\* A failed READY or RESUMED goes straight to the cleanup.
LEMMA GreetStep ==
  ASSUME IInv, NEW c \in Conn, Greet(c)
  PROVE  IInv'
<1> USE ConnAssumption DEF IInv
<1>1. TypeOK'
  BY DEF Greet, Goto, TypeOK, Phase
<1>2. ClaimsExact' /\ RegistryExact'
  BY DEF Greet, Goto, TypeOK, ClaimsExact, RegistryExact
<1>3. OneHolder' /\ SessionKeepsUser'
  BY DEF Greet, Goto, TypeOK, OneHolder, SessionKeepsUser, Holds, Serving
<1>4. DispatcherExact' /\ PermitsExact' /\ VoiceEndsWithSession'
  BY DEF Greet, Goto, TypeOK, DispatcherExact, PermitsExact,
         VoiceEndsWithSession, Serving
<1>5. GhostsAreOrphans'
  BY DEF Greet, Goto, TypeOK, ClaimsExact, GhostsAreOrphans, Answerable, Serving
<1> QED BY <1>1, <1>2, <1>3, <1>4, <1>5

\* The cleanup leaves no voice membership of the user behind.
LEMMA CleanVoiceStep ==
  ASSUME IInv, NEW c \in Conn, CleanVoice(c)
  PROVE  IInv'
<1> USE ConnAssumption DEF IInv
<1>1. TypeOK'
  BY DEF CleanVoice, Goto, TypeOK, Phase
<1>2. ClaimsExact' /\ RegistryExact'
  BY DEF CleanVoice, Goto, TypeOK, ClaimsExact, RegistryExact
<1>3. OneHolder' /\ SessionKeepsUser'
  BY DEF CleanVoice, Goto, TypeOK, OneHolder, SessionKeepsUser, Holds, Serving
<1>4. DispatcherExact' /\ PermitsExact' /\ VoiceEndsWithSession'
  BY DEF CleanVoice, Goto, TypeOK, DispatcherExact, PermitsExact,
         VoiceEndsWithSession, Serving
<1>5. GhostsAreOrphans'
  BY DEF CleanVoice, Goto, TypeOK, ClaimsExact, GhostsAreOrphans, Answerable, Serving
<1> QED BY <1>1, <1>2, <1>3, <1>4, <1>5

\* A parked task is found under the id it served, and under no other.
LEMMA ParkStep ==
  ASSUME IInv, NEW c \in Conn, Park(c)
  PROVE  IInv'
<1> USE ConnAssumption DEF IInv
<1>1. TypeOK'
  BY DEF Park, Goto, TypeOK, Phase, Reply
<1>2. ClaimsExact'
  BY DEF Park, Goto, TypeOK, ClaimsExact
<1>3. RegistryExact'
  BY DEF Park, Goto, TypeOK, ClaimsExact, RegistryExact, OneHolder, Holds, Serving
<1>4. OneHolder' /\ SessionKeepsUser'
  BY DEF Park, Goto, TypeOK, OneHolder, SessionKeepsUser, Holds, Serving
<1>5. DispatcherExact'
  BY DEF Park, Goto, TypeOK, DispatcherExact, OneHolder, Holds, Serving
<1>6. PermitsExact' /\ VoiceEndsWithSession'
  BY DEF Park, Goto, TypeOK, DispatcherExact, PermitsExact,
         VoiceEndsWithSession, Serving
<1>7. GhostsAreOrphans'
  BY DEF Park, Goto, TypeOK, ClaimsExact, GhostsAreOrphans, Answerable, Serving
<1> QED BY <1>1, <1>2, <1>3, <1>4, <1>5, <1>6, <1>7

\* A task that returns gives back its permits and nothing else.
LEMMA ReturnStep ==
  ASSUME IInv, NEW c \in Conn, Return(c)
  PROVE  IInv'
<1> USE ConnAssumption DEF IInv
<1>1. TypeOK'
  BY DEF Return, Goto, TypeOK, Phase, Reply
<1>2. ClaimsExact'
  BY DEF Return, Goto, TypeOK, ClaimsExact
<1>3. RegistryExact'
  BY DEF Return, Goto, TypeOK, ClaimsExact, RegistryExact, OneHolder, Holds, Serving
<1>4. OneHolder' /\ SessionKeepsUser'
  BY DEF Return, Goto, TypeOK, OneHolder, SessionKeepsUser, Holds, Serving
<1>5. DispatcherExact'
  BY DEF Return, Goto, TypeOK, DispatcherExact, OneHolder, Holds, Serving
<1>6. PermitsExact' /\ VoiceEndsWithSession'
  BY DEF Return, Goto, TypeOK, DispatcherExact, PermitsExact,
         VoiceEndsWithSession, Serving
<1>7. GhostsAreOrphans'
  BY DEF Return, Goto, TypeOK, ClaimsExact, GhostsAreOrphans, Answerable, Serving
<1> QED BY <1>1, <1>2, <1>3, <1>4, <1>5, <1>6, <1>7

\* A claimant that gives up was never handed the session.
LEMMA GiveUpClaimStep ==
  ASSUME IInv, NEW c \in Conn, GiveUpClaim(c)
  PROVE  IInv'
<1> USE ConnAssumption DEF IInv
<1>1. TypeOK'
  BY DEF GiveUpClaim, Goto, TypeOK, Phase, Reply
<1>2. ClaimsExact'
  BY DEF GiveUpClaim, Goto, TypeOK, ClaimsExact
<1>3. RegistryExact'
  BY DEF GiveUpClaim, Goto, TypeOK, ClaimsExact, RegistryExact, OneHolder, Holds, Serving
<1>4. OneHolder' /\ SessionKeepsUser'
  BY DEF GiveUpClaim, Goto, TypeOK, OneHolder, SessionKeepsUser, Holds, Serving
<1>5. DispatcherExact'
  BY DEF GiveUpClaim, Goto, TypeOK, DispatcherExact, OneHolder, Holds, Serving
<1>6. PermitsExact' /\ VoiceEndsWithSession'
  BY DEF GiveUpClaim, Goto, TypeOK, DispatcherExact, PermitsExact,
         VoiceEndsWithSession, Serving
<1>7. GhostsAreOrphans'
  BY DEF GiveUpClaim, Goto, TypeOK, ClaimsExact, GhostsAreOrphans, Answerable, Serving
<1> QED BY <1>1, <1>2, <1>3, <1>4, <1>5, <1>6, <1>7

\* A resume window that closes takes the entry out if it is still its own.
LEMMA LapseStep ==
  ASSUME IInv, NEW c \in Conn, Lapse(c)
  PROVE  IInv'
<1> USE ConnAssumption DEF IInv
<1>1. TypeOK'
  BY DEF Lapse, Goto, TypeOK, Phase, Reply
<1>2. ClaimsExact'
  BY DEF Lapse, Goto, TypeOK, ClaimsExact
<1>3. RegistryExact'
  BY DEF Lapse, Goto, TypeOK, ClaimsExact, RegistryExact, OneHolder, Holds, Serving
<1>4. OneHolder' /\ SessionKeepsUser'
  BY DEF Lapse, Goto, TypeOK, OneHolder, SessionKeepsUser, Holds, Serving
<1>5. DispatcherExact'
  BY DEF Lapse, Goto, TypeOK, DispatcherExact, OneHolder, Holds, Serving
<1>6. PermitsExact' /\ VoiceEndsWithSession'
  BY DEF Lapse, Goto, TypeOK, DispatcherExact, PermitsExact,
         VoiceEndsWithSession, Serving
<1>7. GhostsAreOrphans'
  BY DEF Lapse, Goto, TypeOK, ClaimsExact, GhostsAreOrphans, Answerable, Serving
<1> QED BY <1>1, <1>2, <1>3, <1>4, <1>5, <1>6, <1>7

\* The dispatcher lists a session once its task serves it.
LEMMA RegisterStep ==
  ASSUME IInv, NEW c \in Conn, Register(c)
  PROVE  IInv'
<1> USE ConnAssumption DEF IInv
<1>1. TypeOK'
  BY DEF Register, Goto, TypeOK, SessionKeepsUser, Holds, Serving, Phase
<1>2. ClaimsExact'
  BY DEF Register, Goto, TypeOK, ClaimsExact
<1>3. RegistryExact'
  BY DEF Register, Goto, TypeOK, ClaimsExact, RegistryExact, OneHolder, Holds, Serving
<1>4. OneHolder' /\ SessionKeepsUser'
  BY DEF Register, Goto, TypeOK, OneHolder, SessionKeepsUser, Holds, Serving
<1>5. DispatcherExact'
  BY DEF Register, Goto, TypeOK, DispatcherExact, OneHolder, Holds, Serving
<1>6. PermitsExact' /\ VoiceEndsWithSession'
  BY DEF Register, Goto, TypeOK, DispatcherExact, PermitsExact,
         VoiceEndsWithSession, Serving
<1>7. GhostsAreOrphans'
  BY DEF Register, Goto, TypeOK, ClaimsExact, GhostsAreOrphans, Answerable, Serving
<1> QED BY <1>1, <1>2, <1>3, <1>4, <1>5, <1>6, <1>7

\* ... and no longer once the task goes on to park or to clear presence.
LEMMA UnregisterStep ==
  ASSUME IInv, NEW c \in Conn, Unregister(c)
  PROVE  IInv'
<1> USE ConnAssumption DEF IInv
<1>1. TypeOK'
  BY DEF Unregister, Goto, TypeOK, Phase, Reply
<1>2. ClaimsExact'
  BY DEF Unregister, Goto, TypeOK, ClaimsExact
<1>3. RegistryExact'
  BY DEF Unregister, Goto, TypeOK, ClaimsExact, RegistryExact, OneHolder, Holds, Serving
<1>4. OneHolder' /\ SessionKeepsUser'
  BY DEF Unregister, Goto, TypeOK, OneHolder, SessionKeepsUser, Holds, Serving
<1>5. DispatcherExact'
  BY DEF Unregister, Goto, TypeOK, DispatcherExact, OneHolder, Holds, Serving
<1>6. PermitsExact' /\ VoiceEndsWithSession'
  BY DEF Unregister, Goto, TypeOK, DispatcherExact, PermitsExact,
         VoiceEndsWithSession, Serving
<1>7. GhostsAreOrphans'
  BY DEF Unregister, Goto, TypeOK, ClaimsExact, GhostsAreOrphans, Answerable, Serving
<1> QED BY <1>1, <1>2, <1>3, <1>4, <1>5, <1>6, <1>7

----------------------------------------------------------------------------

\* Every step of every task keeps the whole invariant.
LEMMA NextIInv == IInv /\ [Next]_vars => IInv'
<1> SUFFICES ASSUME IInv, [Next]_vars PROVE IInv'
  OBVIOUS
<1> USE ConnAssumption
    DEF IInv, TypeOK, ClaimsExact, OneHolder, RegistryExact, SessionKeepsUser,
        DispatcherExact, PermitsExact, GhostsAreOrphans, VoiceEndsWithSession,
        Answerable, Holds, Serving, Phase, Reply
<1>1. ASSUME NEW c \in Conn, FailHandshake(c) PROVE IInv'
  BY <1>1 DEF FailHandshake, Goto
<1>2. ASSUME NEW c \in Conn, Identify(c) PROVE IInv'
  BY <1>2 DEF Identify, Goto
<1>3. ASSUME NEW c \in Conn, PresenceUpdate(c) PROVE IInv'
  BY <1>3 DEF PresenceUpdate, Goto
<1>4. ASSUME NEW c \in Conn, JoinVoice(c) PROVE IInv'
  BY <1>4 DEF JoinVoice, Goto
<1>5. ASSUME NEW c \in Conn, LeaveVoice(c) PROVE IInv'
  BY <1>5 DEF LeaveVoice, Goto
<1>6. ASSUME NEW c \in Conn, Drop(c) PROVE IInv'
  BY <1>6 DEF Drop, Goto
<1>7. ASSUME NEW c \in Conn, HangUp(c) PROVE IInv'
  BY <1>7 DEF HangUp, Goto
<1>8. ASSUME NEW c \in Conn, Register(c) PROVE IInv'
  BY <1>8, RegisterStep
<1>9. ASSUME NEW c \in Conn, Unregister(c) PROVE IInv'
  BY <1>9, UnregisterStep
<1>10. ASSUME NEW c \in Conn, Park(c) PROVE IInv'
  BY <1>10, ParkStep
<1>11. ASSUME NEW c \in Conn, ClearPresence(c) PROVE IInv'
  BY <1>11 DEF ClearPresence, Goto
<1>12. ASSUME NEW c \in Conn, Return(c) PROVE IInv'
  BY <1>12, ReturnStep
<1>13. ASSUME NEW c \in Conn, GiveUpClaim(c) PROVE IInv'
  BY <1>13, GiveUpClaimStep
<1>14. ASSUME NEW c \in Conn, Lapse(c) PROVE IInv'
  BY <1>14, LapseStep
<1>15. ASSUME NEW u \in User, RestJoinVoice(u) PROVE IInv'
  BY <1>15 DEF RestJoinVoice
<1>16. ASSUME NEW u \in User, RestLeaveVoice(u) PROVE IInv'
  BY <1>16 DEF RestLeaveVoice
<1>17. CASE UNCHANGED vars
  BY <1>17 DEF vars
<1> HIDE DEF IInv, TypeOK, ClaimsExact, OneHolder, RegistryExact, SessionKeepsUser,
             DispatcherExact, PermitsExact, GhostsAreOrphans,
             VoiceEndsWithSession, Answerable, Holds, Serving, Phase, Reply
<1> QED
  BY <1>1, <1>2, <1>3, <1>4, <1>5, <1>6, <1>7, <1>8, <1>9, <1>10, <1>11,
     <1>12, <1>13, <1>14, <1>15, <1>16, <1>17, RequestResumeStep, ClaimStep,
     AcceptHandoverStep, AdmitStep, AnnounceStep, GreetStep, CleanVoiceStep,
     HandOverStep, CheckOthersStep DEF Next, Serve, Expire, Client

\* The inductive invariant of the gateway's sessions.
THEOREM Invariance == Spec => []IInv
BY InitIInv, NextIInv, PTL DEF Spec

\* Type correctness of the tables handle_socket shares.
THEOREM TypeCorrect == Spec => []TypeOK
<1>1. IInv => TypeOK BY DEF IInv
<1> QED BY <1>1, Invariance, PTL

\* claim_parked_session: "Removing hands the session to exactly one socket", and
\* that socket is its user's.
THEOREM HandoverIsExclusive == Spec => []HandoverSafe
<1>1. IInv => HandoverSafe BY DEF IInv, HandoverSafe
<1> QED BY <1>1, Invariance, PTL

\* What the phases of handle_socket write into the shared tables, one by one,
\* agrees with where the tasks are.
THEOREM TablesAreExact == Spec => []TablesExact
<1>1. IInv => TablesExact BY DEF IInv, TablesExact
<1> QED BY <1>1, Invariance, PTL

\* gateway_resume names the parked tasks that no claim has reached, and no other.
THEOREM RegistryIsExact == Spec => []RegistryExact
<1>1. IInv => RegistryExact BY DEF IInv
<1> QED BY <1>1, Invariance, PTL

\* The dispatcher's table has the live sessions and none that is parked or gone.
THEOREM DispatcherIsExact == Spec => []DispatcherExact
<1>1. IInv => DispatcherExact BY DEF IInv
<1> QED BY <1>1, Invariance, PTL

\* A claim in a parked task's mailbox is for its session and of its user.
THEOREM ClaimsAreExact == Spec => []ClaimsExact
<1>1. IInv => ClaimsExact BY DEF IInv
<1> QED BY <1>1, Invariance, PTL

\* Every admitted task holds its permit until it returns, and no other does.
THEOREM PermitsAreExact == Spec => []PermitsExact
<1>1. IInv => PermitsExact BY DEF IInv
<1> QED BY <1>1, Invariance, PTL

\* handle_socket's cleanup: a voice membership ends with its socket.
THEOREM VoiceFollowsSocket == Spec => []VoiceEndsWithSession
<1>1. IInv => VoiceEndsWithSession BY DEF IInv
<1> QED BY <1>1, Invariance, PTL

\* A resumed session is served to the user who identified it.
THEOREM ResumeKeepsUser == Spec => []SessionKeepsUser
<1>1. IInv => SessionKeepsUser BY DEF IInv
<1> QED BY <1>1, Invariance, PTL

\* Presence outlives a user's tasks only after an abandoned handover.
THEOREM PresenceIsAnswered == Spec => []GhostsAreOrphans
<1>1. IInv => GhostsAreOrphans BY DEF IInv
<1> QED BY <1>1, Invariance, PTL
=============================================================================
