-------------------------- MODULE WAX630ESessions --------------------------
(***************************************************************************)
(* The WAX630E client and the access point's session table.                *)
(*                                                                         *)
(* The access point has a few session slots and frees a slot that nobody   *)
(* holds only on a timeout; while the table is full every login is         *)
(* answered 401.  A tool logs in and out with each call.  The exporter     *)
(* (Poller) keeps one session, and at the start of each poll makes sure it *)
(* still has it: a restart of the access point wipes the table, and a      *)
(* token of before then gets HTML instead of JSON for ever.                *)
(*                                                                         *)
(* Each client holds its mutex for one call; `at' is how far that call or  *)
(* that poll has come.  The password is right throughout.                  *)
(***************************************************************************)
EXTENDS Integers, FiniteSets

CONSTANTS
    Tools,          \* clients that log in for each call
    Poller,         \* the exporter's client, which holds its session
    Slots,          \* session slots of the access point
    MaxMishaps,     \* bound on lost calls, kills, expiries and power cuts
    MaxDropped      \* bound on Reboots refused, and SIGTERMs in a first poll

ASSUME ClientAssumption == IsFiniteSet(Tools) /\ Poller \notin Tools
ASSUME SlotAssumption ==
    /\ Slots \in Nat \ {0}
    /\ MaxMishaps \in Nat
    /\ MaxDropped \in Nat

VARIABLES
    token,          \* what each client's token is worth
    at,             \* how far each client has come
    call,           \* the kind of call it is in
    releases,       \* clients whose call is to log out at its end
    kept,           \* tools left with a token by a Reboot that got no answer
    table,          \* sessions in the table of the access point
    serving,        \* the access point's API answers
    first,          \* the exporter is in its first poll
    mishaps,        \* what has gone wrong so far
    dropped         \* Reboots that were refused in a live session, and
                    \* SIGTERMs in a first poll

sessionVars == <<token, at, call, releases, kept, table, serving, first, mishaps, dropped>>

Clients == Tools \cup {Poller}

(* A call that logs in once more when its session has expired, one that    *)
(* does not (those of fwPost, and a call that already has), and Reboot.    *)
Methods == {"call", "once", "reboot"}
InCall == {"login", "renew", "request", "good", "bad"}
Stages == InCall \cup {"idle", "logout", "probe", "drop", "relogin", "ready", "killed", "ended"}
Over == {"killed", "ended"}

SessionTypeOK ==
    /\ token \in [Clients -> {"none", "live", "expired", "wiped"}]
    /\ at \in [Clients -> Stages]
    /\ \A c \in Tools : at[c] \in InCall \cup {"idle", "logout"}
    /\ at[Poller] \notin {"logout"}
    /\ \A c \in Clients : at[c] \in {"login", "renew", "relogin"} \cup Over => token[c] = "none"
    /\ call \in [Clients -> Methods]
    /\ call[Poller] # "reboot"
    /\ \A c \in Clients : at[c] = "renew" => call[c] = "once"
    /\ releases \in SUBSET Tools
    /\ kept \in SUBSET Tools
    /\ table \in 0..Slots
    /\ serving \in BOOLEAN
    /\ first \in BOOLEAN
    /\ mishaps \in 0..MaxMishaps
    /\ dropped \in 0..MaxDropped

SessionInit ==
    /\ token = [c \in Clients |-> "none"]
    /\ at = [c \in Clients |-> "idle"]
    /\ call = [c \in Clients |-> "call"]
    /\ releases = {}
    /\ kept = {}
    /\ table = 0
    /\ serving = TRUE
    /\ first = TRUE
    /\ mishaps = 0
    /\ dropped = 0

(* A session in the table is live for the client that has its token, and   *)
(* lost if nobody has.                                                     *)
Live == {c \in Clients : token[c] = "live"}
Lost == table - Cardinality(Live)
Move(c, s) == at' = [at EXCEPT ![c] = s]
Hold(c, t) == token' = [token EXCEPT ![c] = t]
Mishap == mishaps < MaxMishaps /\ mishaps' = mishaps + 1
Smooth == UNCHANGED mishaps
Alive(c) == token[c] = "live" /\ serving

(* The client's token is forgotten; the access point is not told.          *)
Forget(c) == Hold(c, "none") /\ UNCHANGED table

(* logoutLocked: the access point is asked to end the session and does, or *)
(* nothing is heard of it, which after a restart is nobody's fault; the    *)
(* token is forgotten in every case.                                       *)
Release(c) ==
    \/ /\ serving
       /\ Hold(c, "none")
       /\ table' = IF token[c] = "live" THEN table - 1 ELSE table
       /\ Smooth
    \/ Forget(c) /\ (IF serving THEN Mishap ELSE Smooth)

(* The token is dropped although nothing has gone wrong.                   *)
Drop(c) ==
    /\ Forget(c)
    /\ dropped < MaxDropped
    /\ dropped' = dropped + 1

(* Restarting wipes the session table.                                     *)
Wipe(t) ==
    /\ token' = [c \in Clients |-> IF t[c] = "none" THEN "none" ELSE "wiped"]
    /\ table' = 0
    /\ serving' = FALSE

-----------------------------------------------------------------------------
(* One call.                                                               *)

(* A call logs in if there is no token; otherwise it uses the one there    *)
(* is, whatever that is worth.                                             *)
Begin(c, m) ==
    /\ at[c] = IF c = Poller THEN "ready" ELSE "idle"
    /\ c = Poller => m = "call"
    /\ call' = [call EXCEPT ![c] = m]
    /\ Move(c, IF token[c] = "none" THEN "login" ELSE "request")
    /\ UNCHANGED <<token, releases, kept, table, serving, first, mishaps, dropped>>

(* Only a call that logged in itself logs out at its end, and Reboot never *)
(* does.  A login may also create a session and not come back with its     *)
(* token.                                                                  *)
LoggedIn == [login |-> "request", renew |-> "request", relogin |-> "ready"]
LoginFailed == [login |-> "bad", renew |-> "bad", relogin |-> "ready"]
Login(c) ==
    /\ at[c] \in DOMAIN LoggedIn
    /\ \/ /\ serving /\ table < Slots
          /\ Hold(c, "live")
          /\ table' = table + 1
          /\ Move(c, LoggedIn[at[c]])
          /\ releases' = IF at[c] = "login" /\ c # Poller /\ call[c] # "reboot"
                         THEN releases \cup {c} ELSE releases
          /\ UNCHANGED mishaps
       \/ /\ ~serving \/ table >= Slots
          /\ Move(c, LoginFailed[at[c]])
          /\ UNCHANGED <<token, releases, table, mishaps>>
       \/ /\ serving /\ table < Slots
          /\ Mishap
          /\ table' \in {table, table + 1}
          /\ Move(c, LoginFailed[at[c]])
          /\ UNCHANGED <<token, releases>>
    /\ UNCHANGED <<call, kept, serving, first, dropped>>

(* The request itself.  Of an expired session a Call is told so (status    *)
(* 100), logs in and repeats the request, once; another call takes that    *)
(* answer for the answer.  To a token of before a restart the access point *)
(* answers in HTML, which no call understands.                             *)
Request(c) ==
    /\ at[c] = "request" /\ call[c] # "reboot"
    /\ \/ Alive(c) /\ Move(c, "good") /\ Smooth /\ UNCHANGED <<token, call>>
       \/ Alive(c) /\ Mishap /\ Move(c, "bad") /\ UNCHANGED <<token, call>>
       \/ /\ ~serving \/ token[c] = "wiped"
          /\ Move(c, "bad")
          /\ UNCHANGED <<token, call, mishaps>>
       \/ /\ serving /\ token[c] = "expired" /\ call[c] = "call"
          /\ Move(c, "renew")
          /\ Hold(c, "none")
          /\ call' = [call EXCEPT ![c] = "once"]
          /\ Smooth
       \/ /\ serving /\ token[c] = "expired" /\ call[c] = "once"
          /\ \E s \in {"good", "bad"} : Move(c, s)
          /\ UNCHANGED <<token, call, mishaps>>
    /\ UNCHANGED <<releases, kept, table, serving, first, dropped>>

(* Reboot forgets its token on any answer, of a refusal too, whose session *)
(* is still there; and keeps it when there is none.                        *)
Reboot(c) ==
    /\ at[c] = "request" /\ call[c] = "reboot"
    /\ \/ /\ Alive(c)
          /\ Wipe([token EXCEPT ![c] = "none"])
          /\ Move(c, "good")
          /\ kept' = kept \ {c}
          /\ UNCHANGED <<mishaps, dropped>>
       \/ /\ Alive(c) /\ Mishap
          /\ Wipe(token)
          /\ Move(c, "bad")
          /\ kept' = kept \cup {c}
          /\ UNCHANGED dropped
       \/ /\ serving
          /\ IF token[c] = "live" THEN Drop(c) ELSE Forget(c) /\ UNCHANGED dropped
          /\ Move(c, "bad")
          /\ kept' = kept \ {c}
          /\ UNCHANGED <<serving, mishaps>>
       \/ /\ IF serving THEN Mishap ELSE Smooth
          /\ Move(c, "bad")
          /\ kept' = kept \cup {c}
          /\ UNCHANGED <<token, table, serving, dropped>>
    /\ UNCHANGED <<call, releases, first>>

(* The call returns.                                                       *)
FinishGoodOnly(c) ==
    /\ at[c] \in {"good", "bad"}
    /\ Move(c, IF c = Poller THEN "ready"
               ELSE IF c \in releases /\ at[c] = "good" THEN "logout" ELSE "idle")
    /\ call' = [call EXCEPT ![c] = "call"]
    /\ UNCHANGED <<token, releases, kept, table, serving, first, mishaps, dropped>>
Finish(c) ==
    /\ at[c] \in {"good", "bad"}
    /\ Move(c, IF c = Poller THEN "ready" ELSE IF c \in releases THEN "logout" ELSE "idle")
    /\ call' = [call EXCEPT ![c] = "call"]
    /\ UNCHANGED <<token, releases, kept, table, serving, first, mishaps, dropped>>

(* Logging out at the end of a call, or of a session that failed the probe. *)
Logout(c) ==
    /\ at[c] \in {"logout", "drop"}
    /\ Release(c)
    /\ Move(c, IF at[c] = "drop" THEN "relogin" ELSE "idle")
    /\ releases' = releases \ {c}
    /\ UNCHANGED <<call, kept, serving, first, dropped>>

(* The end of a run of Terraform: its clean-up logs out.                   *)
CleanUp(c) ==
    /\ c \in Tools /\ at[c] = "idle" /\ token[c] # "none"
    /\ Release(c)
    /\ kept' = kept \ {c}
    /\ UNCHANGED <<at, call, releases, serving, first, dropped>>

-----------------------------------------------------------------------------
(* The exporter's session.                                                 *)

StartPoll ==
    /\ at[Poller] = "idle"
    /\ Move(Poller, "probe")
    /\ UNCHANGED <<token, call, releases, kept, table, serving, first, mishaps, dropped>>
EndPoll ==
    /\ at[Poller] = "ready"
    /\ Move(Poller, "idle")
    /\ first' = FALSE
    /\ UNCHANGED <<token, call, releases, kept, table, serving, mishaps, dropped>>

(* A session that does not answer the probe is dropped and replaced; there *)
(* is no logging out without a token.                                      *)
ProbeTrusts ==
    /\ at[Poller] = "probe"
    /\ Move(Poller, "ready")
    /\ UNCHANGED <<token, call, releases, kept, table, serving, first, mishaps, dropped>>
Probe ==
    /\ at[Poller] = "probe"
    /\ \/ Alive(Poller) /\ Move(Poller, "ready") /\ Smooth
       \/ Alive(Poller) /\ Mishap /\ Move(Poller, "drop")
       \/ /\ ~Alive(Poller)
          /\ Move(Poller, IF token[Poller] = "none" THEN "relogin" ELSE "drop")
          /\ Smooth
    /\ UNCHANGED <<token, call, releases, kept, table, serving, first, dropped>>

(* SIGTERM: the session is released between two calls, and the process     *)
(* ends.  During the first poll, which runs before the signal is caught,   *)
(* the process just dies, and drops its session.                           *)
TerminateUnreleased ==
    /\ at[Poller] \notin Over
    /\ Forget(Poller)
    /\ Move(Poller, "ended")
    /\ call' = [call EXCEPT ![Poller] = "call"]
    /\ UNCHANGED <<releases, kept, serving, first, mishaps, dropped>>
Terminate ==
    /\ at[Poller] \notin Over
    /\ IF first
       THEN Drop(Poller) /\ UNCHANGED mishaps
       ELSE /\ at[Poller] \in {"idle", "probe", "drop", "ready"}
            /\ Release(Poller)
            /\ UNCHANGED dropped
    /\ Move(Poller, "ended")
    /\ call' = [call EXCEPT ![Poller] = "call"]
    /\ UNCHANGED <<releases, kept, serving, first>>

Restart ==
    /\ at[Poller] \in Over
    /\ Move(Poller, "idle")
    /\ first' = TRUE
    /\ UNCHANGED <<token, call, releases, kept, table, serving, mishaps, dropped>>

(* A process is killed: nothing deferred runs.                             *)
Kill(c) ==
    /\ at[c] \notin Over
    /\ Mishap
    /\ Forget(c)
    /\ Move(c, IF c = Poller THEN "killed" ELSE "idle")
    /\ releases' = releases \ {c}
    /\ kept' = kept \ {c}
    /\ call' = [call EXCEPT ![c] = "call"]
    /\ UNCHANGED <<serving, first, dropped>>

-----------------------------------------------------------------------------
(* The access point.                                                       *)

Expire(c) ==
    /\ token[c] = "live"
    /\ Mishap
    /\ Hold(c, "expired")
    /\ table' = table - 1
    /\ UNCHANGED <<at, call, releases, kept, serving, first, dropped>>
ExpireLost ==
    /\ Lost > 0
    /\ table' = table - 1
    /\ UNCHANGED <<token, at, call, releases, kept, serving, first, mishaps, dropped>>
PowerCut ==
    /\ serving
    /\ Mishap
    /\ Wipe(token)
    /\ UNCHANGED <<at, call, releases, kept, first, dropped>>
Boot ==
    /\ ~serving
    /\ serving' = TRUE
    /\ UNCHANGED <<token, at, call, releases, kept, table, first, mishaps, dropped>>

Proceed(c) == Login(c) \/ Request(c) \/ Reboot(c) \/ Logout(c)
SessionNext ==
    \/ \E c \in Clients, m \in Methods : Begin(c, m)
    \/ \E c \in Clients : Proceed(c) \/ Finish(c) \/ CleanUp(c) \/ Kill(c) \/ Expire(c)
    \/ StartPoll \/ Probe \/ EndPoll \/ Terminate \/ Restart
    \/ ExpireLost \/ PowerCut \/ Boot

SessionSpec == SessionInit /\ [][SessionNext]_sessionVars

-----------------------------------------------------------------------------
(* Properties.                                                             *)

(* Of the sessions in the table, no more are without a client than calls   *)
(* went unanswered or processes died, and than were dropped by a refused   *)
(* Reboot or a SIGTERM in a first poll: no other path through a call, a    *)
(* poll or a shutdown forgets a session it has not ended (client.go:461).  *)
SlotsAccounted == Lost <= mishaps + dropped

(* Between its calls a tool holds no session, however the last one ended,  *)
(* unless that was a Reboot without an answer.                             *)
PerCallReleases ==
    \A c \in Tools : at[c] = "idle" /\ token[c] # "none" => c \in kept
=============================================================================
