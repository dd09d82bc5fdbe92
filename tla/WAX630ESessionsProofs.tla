----------------------- MODULE WAX630ESessionsProofs -----------------------
(***************************************************************************)
(* What holds of the WAX630E sessions for any number of tools, slots and   *)
(* mishaps.                                                                *)
(***************************************************************************)
EXTENDS WAX630ESessions, FiniteSetTheorems, TLAPS

(* A tool that holds a session has a release to come, or got it from a     *)
(* Reboot without an answer, or is about to send a Reboot; one that gave   *)
(* up an expired session to log in anew still has the release to come.     *)
Owned ==
    /\ \A c \in Tools : at[c] \in {"idle", "login"} => c \notin releases
    /\ \A c \in Tools :
        token[c] # "none" \/ at[c] = "renew" =>
            c \in releases \/ c \in kept \/ (call[c] = "reboot" /\ at[c] = "request")

(* Every session a client can still use is in the table, and none outlives *)
(* a restart of the access point.                                          *)
Tabled ==
    /\ Cardinality(Live) <= table
    /\ \A c \in Clients : token[c] = "live" => serving

SessionIInv == SessionTypeOK /\ Tabled /\ SlotsAccounted /\ Owned

USE SlotAssumption, ClientAssumption

(* Every action keeps every variable in its domain.                        *)
LEMMA SessionTypeStep ==
    ASSUME SessionTypeOK, SessionNext, table' \in 0..Slots
    PROVE  SessionTypeOK'
<1> USE DEF SessionTypeOK, Clients, Methods, InCall, Stages, Over
<1>1. ASSUME NEW c \in Clients, NEW m \in Methods, Begin(c, m)
      PROVE  SessionTypeOK'
  BY <1>1 DEF Begin, Move
<1>2. ASSUME NEW c \in Clients, Login(c)
      PROVE  SessionTypeOK'
  BY <1>2 DEF Login, LoggedIn, LoginFailed, Move, Hold, Mishap
<1>3. ASSUME NEW c \in Clients, Request(c)
      PROVE  SessionTypeOK'
  BY <1>3 DEF Request, Move, Hold, Mishap, Smooth, Alive
<1>4. ASSUME NEW c \in Clients, Reboot(c)
      PROVE  SessionTypeOK'
  <2>1. at[c] = "request" /\ call[c] = "reboot" /\ c # Poller
    BY <1>4 DEF Reboot
  <2>2. token' \in [Clients -> {"none", "live", "expired", "wiped"}]
    <3>1. CASE Wipe([token EXCEPT ![c] = "none"])
      BY <3>1 DEF Wipe
    <3>2. CASE Wipe(token)
      BY <3>2 DEF Wipe
    <3>3. CASE token' = [token EXCEPT ![c] = "none"] \/ token' = token
      BY <3>3
    <3>4. QED
      BY <1>4, <3>1, <3>2, <3>3 DEF Reboot, Drop, Forget, Hold
  <2>3. \A d \in Clients : token[d] = "none" => token'[d] = "none"
    BY <1>4 DEF Reboot, Alive, Drop, Forget, Hold, Wipe
  <2>4. /\ at' \in [Clients -> Stages]
        /\ at'[c] \in {"good", "bad"}
        /\ \A d \in Clients : d # c => at'[d] = at[d]
        /\ UNCHANGED <<call, releases, first>>
    BY <1>4 DEF Reboot, Move, Wipe, Drop, Forget, Hold
  <2>5. kept' \in SUBSET Tools
    BY <1>4, <2>1 DEF Reboot, Wipe, Drop, Forget, Hold
  <2>6. mishaps' \in 0..MaxMishaps
    BY <1>4 DEF Reboot, Mishap, Smooth
  <2>7. dropped' \in 0..MaxDropped
    BY <1>4 DEF Reboot, Drop
  <2>8. serving' \in BOOLEAN
    BY <1>4, Zenon DEF Reboot, Wipe
  <2>9. QED
    BY <2>1, <2>2, <2>3, <2>4, <2>5, <2>6, <2>7, <2>8
<1>5. ASSUME NEW c \in Clients, Logout(c)
      PROVE  SessionTypeOK'
  BY <1>5 DEF Logout, Move, Hold, Mishap, Smooth, Forget, Release
<1>6. ASSUME NEW c \in Clients, Finish(c)
      PROVE  SessionTypeOK'
  BY <1>6 DEF Finish, Move
<1>7. ASSUME NEW c \in Clients, CleanUp(c)
      PROVE  SessionTypeOK'
  BY <1>7 DEF CleanUp, Release, Forget, Hold, Mishap, Smooth
<1>8. ASSUME NEW c \in Clients, Kill(c)
      PROVE  SessionTypeOK'
  BY <1>8 DEF Kill, Move, Forget, Hold, Mishap
<1>9. ASSUME NEW c \in Clients, Expire(c)
      PROVE  SessionTypeOK'
  BY <1>9 DEF Expire, Hold, Mishap
<1>10. CASE StartPoll
  BY <1>10 DEF StartPoll, Move
<1>11. CASE Probe
  BY <1>11 DEF Probe, Move, Mishap, Smooth, Alive
<1>12. CASE EndPoll
  BY <1>12 DEF EndPoll, Move
<1>13. CASE Terminate
  BY <1>13 DEF Terminate, Move, Hold, Forget, Release, Drop, Mishap, Smooth
<1>14. CASE Restart
  BY <1>14 DEF Restart, Move
<1>15. CASE ExpireLost
  BY <1>15 DEF ExpireLost
<1>16. CASE PowerCut
  <2>1. /\ token' \in [Clients -> {"none", "live", "expired", "wiped"}]
        /\ \A c \in Clients : token[c] = "none" => token'[c] = "none"
        /\ serving' = FALSE
    BY <1>16 DEF PowerCut, Wipe
  <2>2. mishaps' \in 0..MaxMishaps
    BY <1>16 DEF PowerCut, Mishap
  <2>3. QED
    BY <1>16, <2>1, <2>2 DEF PowerCut
<1>17. CASE Boot
  BY <1>17 DEF Boot
<1> HIDE DEF SessionTypeOK, Clients, Methods
<1>18. ASSUME NEW c \in Clients,
              Proceed(c) \/ Finish(c) \/ CleanUp(c) \/ Kill(c) \/ Expire(c)
       PROVE  SessionTypeOK'
  BY <1>18, <1>2, <1>3, <1>4, <1>5, <1>6, <1>7, <1>8, <1>9 DEF Proceed
<1>19. QED
  BY <1>1, <1>10, <1>11, <1>12, <1>13, <1>14, <1>15, <1>16, <1>17, <1>18 DEF SessionNext

(* How the sessions that are live change with a client's token.            *)
LEMMA LiveIsFinite == IsFiniteSet(Live) /\ Cardinality(Live) \in Nat
<1>1. IsFiniteSet(Clients)
  BY FS_AddElement DEF Clients
<1>2. Live \subseteq Clients
  BY DEF Live
<1>3. QED
  BY <1>1, <1>2, FS_Subset, FS_CardinalityType

LEMMA LiveHold ==
    ASSUME SessionTypeOK, NEW c \in Clients, NEW t, Hold(c, t)
    PROVE  /\ t = "live" /\ token[c] # "live" => Cardinality(Live)' = Cardinality(Live) + 1
           /\ t # "live" /\ token[c] = "live" =>
                Cardinality(Live) >= 1 /\ Cardinality(Live)' = Cardinality(Live) - 1
           /\ t # "live" /\ token[c] # "live" => Cardinality(Live)' = Cardinality(Live)
<1>1. CASE t = "live" /\ token[c] # "live"
  <2>1. Live' = Live \cup {c} /\ c \notin Live
    BY <1>1 DEF SessionTypeOK, Live, Hold
  <2>2. QED
    BY <1>1, <2>1, LiveIsFinite, FS_AddElement
<1>2. CASE t # "live" /\ token[c] = "live"
  <2>1. Live' = Live \ {c} /\ c \in Live
    BY <1>2 DEF SessionTypeOK, Live, Hold
  <2>2. Cardinality(Live) # 0
    BY <2>1, LiveIsFinite, FS_EmptySet
  <2>3. Cardinality(Live \ {c}) = Cardinality(Live) - 1
    BY <2>1, LiveIsFinite, FS_RemoveElement
  <2>4. Cardinality(Live) \in Nat
    BY LiveIsFinite
  <2>5. Cardinality(Live)' = Cardinality(Live) - 1
    BY <2>1, <2>3
  <2>6. QED
    BY <1>2, <2>2, <2>4, <2>5
<1>3. CASE t # "live" /\ token[c] # "live"
  <2>1. Live' = Live
    BY <1>3 DEF SessionTypeOK, Live, Hold
  <2>2. QED
    BY <1>3, <2>1
<1>4. QED
  BY <1>1, <1>2, <1>3

LEMMA LiveWipe ==
    ASSUME NEW t, Wipe(t)
    PROVE  Cardinality(Live)' = 0 /\ table' = 0 /\ \A c \in Clients : token'[c] # "live"
<1>1. Live' = {} /\ \A c \in Clients : token'[c] # "live"
  BY DEF Wipe, Live
<1>2. QED
  BY <1>1, FS_EmptySet DEF Wipe

(* Logging out ends a session, or leaves it in the table for a mishap.     *)
LEMMA ReleaseSlots ==
    ASSUME SessionTypeOK, Tabled, SlotsAccounted, NEW c \in Clients, Release(c),
           UNCHANGED <<serving, dropped>>
    PROVE  Tabled' /\ SlotsAccounted' /\ table' \in 0..Slots
<1> USE DEF SessionTypeOK, Tabled, SlotsAccounted, Lost, Mishap, Smooth
<1>1. Hold(c, "none")
  BY DEF Release, Forget
<1>2. \A d \in Clients : token'[d] = "live" => token[d] = "live"
  BY <1>1 DEF Hold
<1>3. Cardinality(Live) \in Nat
  BY LiveIsFinite
<1>4. CASE token[c] = "live"
  BY <1>1, <1>2, <1>3, <1>4, LiveHold DEF Release, Forget
<1>5. CASE token[c] # "live"
  BY <1>1, <1>2, <1>3, <1>5, LiveHold DEF Release, Forget
<1>6. QED
  BY <1>4, <1>5

(* Forgetting a token leaves a session in the table that nobody has, which *)
(* something has to account for.                                           *)
LEMMA ForgetSlots ==
    ASSUME SessionTypeOK, Tabled, SlotsAccounted, NEW c \in Clients, Forget(c),
           UNCHANGED serving,
           \/ mishaps' = mishaps + 1 /\ dropped' = dropped
           \/ mishaps' = mishaps /\ dropped' = dropped + 1
           \/ token[c] # "live" /\ UNCHANGED <<mishaps, dropped>>
    PROVE  Tabled' /\ SlotsAccounted' /\ table' \in 0..Slots
<1> USE DEF SessionTypeOK, Tabled, SlotsAccounted, Lost
<1>1. Hold(c, "none") /\ table' = table
  BY DEF Forget
<1>2. \A d \in Clients : token'[d] = "live" => token[d] = "live"
  BY <1>1 DEF Hold
<1>3. Cardinality(Live) \in Nat
  BY LiveIsFinite
<1>4. CASE token[c] = "live"
  BY <1>1, <1>2, <1>3, <1>4, LiveHold
<1>5. CASE token[c] # "live"
  BY <1>1, <1>2, <1>3, <1>5, LiveHold
<1>6. QED
  BY <1>4, <1>5

(* The table holds what the clients hold, and what is lost has a cause.    *)
LEMMA SlotsStep ==
    ASSUME SessionTypeOK, Tabled, SlotsAccounted, SessionNext
    PROVE  Tabled' /\ SlotsAccounted' /\ table' \in 0..Slots
<1>0. Cardinality(Live) \in Nat /\ table \in 0..Slots /\ mishaps \in Nat /\ dropped \in Nat
  BY LiveIsFinite DEF SessionTypeOK
<1>1. CASE UNCHANGED <<token, table, dropped>> /\ (serving => serving')
             /\ (mishaps' = mishaps \/ mishaps' = mishaps + 1)
  BY <1>0, <1>1 DEF Tabled, SlotsAccounted, Lost, Live
<1>2. ASSUME NEW c \in Clients, NEW m \in Methods, Begin(c, m)
      PROVE  Tabled' /\ SlotsAccounted' /\ table' \in 0..Slots
  BY <1>1, <1>2 DEF Begin
<1>3. ASSUME NEW c \in Clients, Login(c)
      PROVE  Tabled' /\ SlotsAccounted' /\ table' \in 0..Slots
  <2>1. token[c] = "none" /\ serving' = serving /\ dropped' = dropped
    BY <1>3 DEF SessionTypeOK, Login, LoggedIn
  <2>2. CASE Hold(c, "live") /\ serving /\ table < Slots /\ table' = table + 1 /\ mishaps' = mishaps
    BY <1>0, <2>1, <2>2, LiveHold DEF Tabled, SlotsAccounted, Lost
  <2>3. CASE UNCHANGED <<token, table, mishaps>>
    BY <1>1, <2>1, <2>3
  <2>4. CASE table < Slots /\ Mishap /\ table' \in {table, table + 1} /\ token' = token
    BY <1>0, <2>1, <2>4 DEF Mishap, Tabled, SlotsAccounted, Lost, Live
  <2>5. QED
    BY <1>3, <2>2, <2>3, <2>4 DEF Login
<1>4. ASSUME NEW c \in Clients, Request(c)
      PROVE  Tabled' /\ SlotsAccounted' /\ table' \in 0..Slots
  <2>1. CASE token' = token
    BY <1>1, <1>4, <2>1 DEF Request, Mishap, Smooth
  <2>2. CASE token[c] = "expired" /\ Hold(c, "none") /\ Smooth
    BY <1>4, <2>2, ForgetSlots DEF Request, Forget, Smooth
  <2>3. QED
    BY <1>4, <2>1, <2>2 DEF Request
<1>5. ASSUME NEW c \in Clients, Reboot(c)
      PROVE  Tabled' /\ SlotsAccounted' /\ table' \in 0..Slots
  <2>1. ASSUME NEW t, Wipe(t), mishaps' \in Nat, dropped' \in Nat
        PROVE  Tabled' /\ SlotsAccounted' /\ table' \in 0..Slots
    BY <2>1, LiveWipe DEF Tabled, SlotsAccounted, Lost
  <2>2. CASE (Wipe([token EXCEPT ![c] = "none"]) \/ Wipe(token)) /\ (Mishap \/ Smooth) /\ dropped' = dropped
    BY <1>0, <2>1, <2>2 DEF Mishap, Smooth
  <2>3. CASE UNCHANGED <<serving, mishaps>> /\ Drop(c)
    BY <1>0, <2>3, ForgetSlots DEF Drop
  <2>4. CASE UNCHANGED <<serving, mishaps, dropped>> /\ Forget(c) /\ token[c] # "live"
    BY <1>0, <2>4, ForgetSlots
  <2>5. CASE UNCHANGED <<token, table, serving, dropped>> /\ (Mishap \/ Smooth)
    BY <1>1, <2>5 DEF Mishap, Smooth
  <2>6. QED
    BY <1>5, <2>2, <2>3, <2>4, <2>5 DEF Reboot, Smooth
<1>6. ASSUME NEW c \in Clients, Logout(c) \/ CleanUp(c)
      PROVE  Tabled' /\ SlotsAccounted' /\ table' \in 0..Slots
  BY <1>6, ReleaseSlots DEF Logout, CleanUp
<1>7. ASSUME NEW c \in Clients, Finish(c)
      PROVE  Tabled' /\ SlotsAccounted' /\ table' \in 0..Slots
  BY <1>1, <1>7 DEF Finish
<1>8. ASSUME NEW c \in Clients, Kill(c)
      PROVE  Tabled' /\ SlotsAccounted' /\ table' \in 0..Slots
  BY <1>8, ForgetSlots DEF Kill, Mishap
<1>9. ASSUME NEW c \in Clients, Expire(c)
      PROVE  Tabled' /\ SlotsAccounted' /\ table' \in 0..Slots
  <2>1. /\ Hold(c, "expired") /\ token[c] = "live" /\ table' = table - 1
        /\ mishaps' = mishaps + 1 /\ dropped' = dropped /\ serving' = serving
    BY <1>9 DEF Expire, Mishap
  <2>2. \A d \in Clients : token'[d] = "live" => token[d] = "live"
    BY <2>1 DEF Hold, SessionTypeOK
  <2>3. QED
    BY <1>0, <2>1, <2>2, LiveHold DEF Tabled, SlotsAccounted, Lost
<1>10. CASE StartPoll \/ Probe \/ EndPoll \/ Restart \/ Boot
  BY <1>1, <1>10 DEF StartPoll, Probe, EndPoll, Restart, Boot, Mishap, Smooth
<1>11. CASE Terminate
  <2>1. CASE Drop(Poller) /\ UNCHANGED <<serving, mishaps>>
    BY <2>1, ForgetSlots DEF Drop, Clients
  <2>2. CASE Release(Poller) /\ UNCHANGED <<serving, dropped>>
    BY <2>2, ReleaseSlots DEF Clients
  <2>3. QED
    BY <1>11, <2>1, <2>2 DEF Terminate
<1>12. CASE ExpireLost
  BY <1>0, <1>12 DEF ExpireLost, Tabled, SlotsAccounted, Lost, Live
<1>13. CASE PowerCut
  BY <1>0, <1>13, LiveWipe DEF PowerCut, Mishap, Tabled, SlotsAccounted, Lost
<1>14. QED
  BY <1>2, <1>3, <1>4, <1>5, <1>6, <1>7, <1>8, <1>9, <1>10, <1>11, <1>12, <1>13 DEF SessionNext, Proceed

(* A tool keeps a session only for as long as it has to give it up.        *)
LEMMA OwnedStep ==
    ASSUME SessionTypeOK, Owned, SessionNext
    PROVE  Owned'
<1> USE DEF Owned, Clients
<1>1. ASSUME NEW c \in Clients, NEW m \in Methods, Begin(c, m)
      PROVE  Owned'
  BY <1>1 DEF SessionTypeOK, Begin, Move, Methods
<1>2. ASSUME NEW c \in Clients, Login(c)
      PROVE  Owned'
  <2>1. CASE at[c] = "relogin"
    <3>1. c \notin Tools
      BY <2>1 DEF SessionTypeOK, InCall
    <3>2. /\ UNCHANGED <<call, kept, releases>>
          /\ \A d \in Tools : at'[d] = at[d] /\ token'[d] = token[d]
      BY <1>2, <2>1, <3>1 DEF SessionTypeOK, Login, Move, Hold
    <3>3. QED
      BY <3>2
  <2>2. CASE at[c] = "login" \/ at[c] = "renew"
    <3>1. /\ LoggedIn[at[c]] = "request"
          /\ LoginFailed[at[c]] = "bad"
      BY <2>2 DEF LoggedIn, LoginFailed
    <3>2. /\ UNCHANGED <<call, kept>>
          /\ \A d \in Clients : d # c => at'[d] = at[d] /\ token'[d] = token[d]
          /\ \/ /\ at'[c] = "bad" /\ token'[c] = token[c] /\ releases' = releases
             \/ /\ at'[c] = "request"
                /\ releases' = IF at[c] = "login" /\ c # Poller /\ call[c] # "reboot"
                               THEN releases \cup {c} ELSE releases
      BY <1>2, <3>1 DEF SessionTypeOK, Login, Move, Hold
    <3>3. QED
      BY <2>2, <3>2, ClientAssumption DEF SessionTypeOK, Methods
  <2>3. QED
    BY <1>2, <2>1, <2>2 DEF Login, LoggedIn
<1>3. ASSUME NEW c \in Clients, Request(c)
      PROVE  Owned'
  BY <1>3 DEF SessionTypeOK, Request, Move, Hold
<1>4. ASSUME NEW c \in Clients, Reboot(c)
      PROVE  Owned'
  <2>1. UNCHANGED releases /\ UNCHANGED call /\ at' = [at EXCEPT ![c] = at'[c]]
    BY <1>4 DEF Reboot, Move, SessionTypeOK
  <2>2. at[c] = "request" /\ at'[c] \in {"good", "bad"}
    BY <1>4 DEF Reboot, Move, SessionTypeOK
  <2>3. \A d \in Clients : token[d] = "none" => token'[d] = "none"
    BY <1>4 DEF SessionTypeOK, Reboot, Alive, Drop, Forget, Hold, Wipe
  <2>4. \/ c \in kept' /\ kept \subseteq kept'
        \/ token'[c] = "none" /\ kept' = kept \ {c}
    BY <1>4 DEF SessionTypeOK, Reboot, Alive, Drop, Forget, Hold, Wipe
  <2>5. QED
    BY <2>1, <2>2, <2>3, <2>4 DEF SessionTypeOK
<1>5. ASSUME NEW c \in Clients, Logout(c)
      PROVE  Owned'
  BY <1>5 DEF SessionTypeOK, Logout, Release, Move, Hold, Forget
<1>6. ASSUME NEW c \in Clients, Finish(c)
      PROVE  Owned'
  BY <1>6 DEF SessionTypeOK, Finish, Move
<1>7. ASSUME NEW c \in Clients, CleanUp(c)
      PROVE  Owned'
  BY <1>7 DEF SessionTypeOK, CleanUp, Release, Forget, Hold
<1>8. ASSUME NEW c \in Clients, Kill(c)
      PROVE  Owned'
  BY <1>8 DEF SessionTypeOK, Kill, Move, Forget, Hold
<1>9. ASSUME NEW c \in Clients, Expire(c)
      PROVE  Owned'
  BY <1>9 DEF SessionTypeOK, Expire, Hold
<1>10. ASSUME NEW c \in Clients,
              Proceed(c) \/ Finish(c) \/ CleanUp(c) \/ Kill(c) \/ Expire(c)
       PROVE  Owned'
  BY <1>2, <1>3, <1>4, <1>5, <1>6, <1>7, <1>8, <1>9, <1>10 DEF Proceed
<1>11. CASE StartPoll \/ Probe \/ EndPoll \/ Restart
  BY <1>11, ClientAssumption DEF SessionTypeOK, StartPoll, Probe, EndPoll, Restart, Move
<1>12. CASE Terminate
  BY <1>12, ClientAssumption DEF SessionTypeOK, Terminate, Move, Release, Drop, Hold, Forget
<1>13. CASE ExpireLost \/ Boot
  BY <1>13 DEF ExpireLost, Boot
<1>14. CASE PowerCut
  BY <1>14 DEF SessionTypeOK, PowerCut, Wipe
<1>15. QED
  BY <1>1, <1>10, <1>11, <1>12, <1>13, <1>14 DEF SessionNext

LEMMA SessionInitially == SessionInit => SessionIInv
<1> SUFFICES ASSUME SessionInit PROVE SessionIInv
  OBVIOUS
<1>1. SessionTypeOK /\ Owned
  BY DEF SessionInit, SessionTypeOK, Owned, Clients, Methods, InCall, Stages, Over
<1>2. Live = {} /\ Cardinality(Live) = 0
  BY FS_EmptySet DEF SessionInit, Live
<1>3. Tabled /\ SlotsAccounted
  BY <1>2 DEF SessionInit, Tabled, SlotsAccounted, Lost
<1>4. QED
  BY <1>1, <1>3 DEF SessionIInv

LEMMA SessionStep == SessionIInv /\ [SessionNext]_sessionVars => SessionIInv'
<1>1. CASE SessionNext
  BY <1>1, SessionTypeStep, SlotsStep, OwnedStep DEF SessionIInv
<1>2. CASE UNCHANGED sessionVars
  BY <1>2 DEF SessionIInv, SessionTypeOK, Tabled, SlotsAccounted, Lost, Live, Owned, sessionVars
<1>3. QED
  BY <1>1, <1>2

LEMMA SessionConsequences == SessionIInv => SessionTypeOK /\ SlotsAccounted /\ PerCallReleases
  BY DEF SessionIInv, Owned, PerCallReleases, SessionTypeOK, Clients

(* Sessions of any number of clients on an access point of any size keep   *)
(* the three invariants: types; no slot is lost but to a mishap, a Reboot  *)
(* that was refused or a SIGTERM in a first poll; a tool holds nothing     *)
(* between its calls, unless a Reboot of it got no answer.                 *)
THEOREM SessionsSafe == SessionSpec => [](SessionTypeOK /\ SlotsAccounted /\ PerCallReleases)
  BY SessionInitially, SessionStep, SessionConsequences, PTL DEF SessionSpec
=============================================================================
