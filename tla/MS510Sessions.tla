---------------------------- MODULE MS510Sessions ----------------------------
(***************************************************************************)
(* The web sessions of the MS510TXUP: internal/ms510txup as used by the    *)
(* exporter, which keeps its session, by the Terraform provider, which     *)
(* gives it back after every call, and by cert-operator, which uploads a   *)
(* certificate with a client of its own.  They share a table of four slots *)
(* that the switch frees on a logout or after an idle timeout.             *)
(*                                                                         *)
(* A call is a sequence of requests made under the client's mutex, so the  *)
(* calls of one client follow each other.  The switch may drop a session   *)
(* at any time, requests fail, and processes are killed, a bounded number  *)
(* of times: mishaps are transient.                                        *)
(***************************************************************************)
EXTENDS Integers, Sequences, FiniteSets, Functions

CONSTANTS
    Reusers,        \* exporters: one session for the life of the process
    PerCall,        \* SetReleasePerCall(true): the Terraform provider
    Uploaders,      \* cert-operator: one client for each upload
    Slots,          \* sessions the switch can hold
    Expired404,     \* TRUE: a request in a dead session may be answered 404
    MaxMishaps,     \* bound on what goes wrong
    MaxUploads      \* bound on certificate uploads

Clients == Reusers \cup PerCall \cup Uploaders

ASSUME ClientsAssumption ==
    /\ IsFiniteSet(Clients)
    /\ Reusers \cap PerCall = {}
    /\ Uploaders \cap (Reusers \cup PerCall) = {}
ASSUME SlotsAssumption == Slots \in Nat \ {0}
ASSUME ReplyAssumption == Expired404 \in BOOLEAN
ASSUME BoundAssumption == MaxMishaps \in Nat /\ MaxUploads \in Nat

VARIABLES
    tabid,          \* the session a client holds: none, live, or one that
                    \* the switch has dropped
    xsrf,           \* whether it holds the write token of that session
    jar,            \* whether its cookie is one the switch answers
    at,             \* where its current call stands
    todo,           \* the requests left of it
    retried,        \* getLocked has logged in again
    stranded,       \* slots nobody can give back, by the client that took them
    rough,          \* clients whose session the switch dropped, whose
                    \* process was killed, or whose login or logout went
                    \* unanswered
    presumed,       \* clients that took a live session for dead
    mishaps,        \* what has gone wrong so far
    uploads         \* uploads begun

clientVars == <<tabid, xsrf, jar, at, todo, retried>>
vars == <<tabid, xsrf, jar, at, todo, retried, stranded, rough, presumed, mishaps,
          uploads>>

(* The requests of Get, Set and UploadCertificate: both files are posted,  *)
(* each is awaited, and the HTTPS row is read, switched off and on again.  *)
(* GetNothing is a Get of a command that the firmware answers with nothing.*)
Get == <<"read">>
Set == <<"write">>
GetNothing == <<"hollow">>
Upload == <<"firstPost", "read", "post", "read", "read", "write", "enable">>
Writes == {"firstPost", "write", "enable"}
Requests == Writes \cup {"read", "hollow", "post"}

Steps == {"idle", "session", "token", "request", "done", "failed"}

TypeOK ==
    /\ tabid \in [Clients -> {"none", "live", "dead"}]
    /\ xsrf \in [Clients -> {"none", "held"}]
    /\ jar \in [Clients -> {"good", "stale"}]
    /\ at \in [Clients -> Steps]
    /\ todo \in [Clients -> Seq(Requests)]
    /\ retried \in [Clients -> BOOLEAN]
    /\ stranded \in [Clients -> Nat]
    /\ rough \in SUBSET Clients
    /\ presumed \in SUBSET Clients
    /\ mishaps \in 0..MaxMishaps
    /\ uploads \in 0..MaxUploads

Init ==
    /\ tabid = [c \in Clients |-> "none"]
    /\ xsrf = [c \in Clients |-> "none"]
    /\ jar = [c \in Clients |-> "good"]
    /\ at = [c \in Clients |-> "idle"]
    /\ todo = [c \in Clients |-> <<>>]
    /\ retried = [c \in Clients |-> FALSE]
    /\ stranded = [c \in Clients |-> 0]
    /\ rough = {}
    /\ presumed = {}
    /\ mishaps = 0
    /\ uploads = 0

-----------------------------------------------------------------------------
(* The switch.                                                             *)

Used == SumFunctionOnSet(stranded, Clients) + Cardinality({c \in Clients : tabid[c] = "live"})

(* A request of a client is let through. *)
Answered(c) == tabid[c] = "live" /\ jar[c] = "good"

(* Something goes wrong. *)
Mishap ==
    /\ mishaps < MaxMishaps
    /\ mishaps' = mishaps + 1

(* The switch drops a session, which may leave the client with a cookie    *)
(* that it answers with nothing from then on.                              *)
Drop(cs) ==
    /\ tabid' = [c \in Clients |-> IF c \in cs /\ tabid[c] = "live" THEN "dead" ELSE tabid[c]]
    /\ \E stale \in SUBSET cs :
          jar' = [c \in Clients |->
                    IF c \in stale /\ tabid[c] = "live" THEN "stale" ELSE jar[c]]
    /\ rough' = rough \cup {c \in cs : tabid[c] = "live"}
    /\ UNCHANGED presumed

DropSession(c) ==
    /\ Mishap
    /\ tabid[c] = "live"
    /\ Drop({c})
    /\ UNCHANGED <<xsrf, at, todo, retried, stranded, uploads>>

ExpireAgain(c) ==
    /\ stranded' = [stranded EXCEPT ![c] = @ - 1]
    /\ UNCHANGED <<clientVars, rough, presumed, mishaps, uploads>>

(* The idle timeout frees a slot nobody uses. *)
Expire(c) ==
    /\ stranded[c] > 0
    /\ stranded' = [stranded EXCEPT ![c] = @ - 1]
    /\ UNCHANGED <<clientVars, rough, presumed, mishaps, uploads>>

-----------------------------------------------------------------------------
(* A call.                                                                 *)

Goto(c, step) == at' = [at EXCEPT ![c] = step]
SetToken(c, t) == xsrf' = [xsrf EXCEPT ![c] = t]
LeaveSlot(c) ==
    stranded' = [stranded EXCEPT ![c] = IF tabid[c] = "live" THEN @ + 1 ELSE @]

(* The exporter only reads (cgi.go). *)
CallsOf(c) ==
    IF c \in Uploaders THEN {Upload} ELSE IF c \in PerCall THEN {Get, Set} ELSE {Get}

Begin(c, call) ==
    /\ at[c] = "idle"
    /\ todo' = [todo EXCEPT ![c] = call]
    /\ retried' = [retried EXCEPT ![c] = FALSE]
    /\ Goto(c, "session")
    /\ UNCHANGED <<tabid, xsrf, jar, stranded, rough, presumed>>

Start(c) ==
    /\ \E call \in CallsOf(c) : Begin(c, call)
    /\ IF c \in Uploaders
       THEN uploads < MaxUploads /\ uploads' = uploads + 1
       ELSE UNCHANGED uploads
    /\ UNCHANGED mishaps

StartHollow(c) ==
    /\ c \in PerCall
    /\ Begin(c, GetNothing)
    /\ Mishap
    /\ UNCHANGED uploads

(* A slot is taken, or the login is refused or fails, or succeeds on the   *)
(* switch only.                                                            *)
Login(c) ==
    /\ SetToken(c, "none")
    /\ \/ /\ Used < Slots
          /\ tabid' = [tabid EXCEPT ![c] = "live"]
          /\ UNCHANGED <<at, stranded, rough, presumed, mishaps>>
       \/ /\ (Used >= Slots /\ UNCHANGED mishaps) \/ Mishap
          /\ Goto(c, "failed")
          /\ UNCHANGED <<tabid, stranded, rough, presumed>>
       \/ /\ Used < Slots
          /\ Mishap
          /\ Goto(c, "failed")
          /\ stranded' = [stranded EXCEPT ![c] = @ + 1]
          /\ rough' = rough \cup {c}
          /\ UNCHANGED <<tabid, presumed>>
    /\ UNCHANGED <<jar, todo, retried>>

ProceedUntokened(c) == Goto(c, "request")

(* The token is fetched only for a write that has none. *)
Proceed(c) ==
    Goto(c, IF Head(todo[c]) \in Writes /\ xsrf[c] = "none" THEN "token" ELSE "request")

(* ensure(): log in unless there is a session as far as the client knows. *)
Ensure(c) ==
    /\ at[c] = "session"
    /\ \/ tabid[c] = "none" /\ Login(c)
       \/ /\ tabid[c] # "none"
          /\ Proceed(c)
          /\ UNCHANGED <<tabid, xsrf, jar, todo, retried, stranded, rough, presumed, mishaps>>
    /\ UNCHANGED uploads

ForgetTokenOnly(c) ==
    /\ tabid' = [tabid EXCEPT ![c] = "none"]
    /\ xsrf' = [xsrf EXCEPT ![c] = "none"]
    /\ LeaveSlot(c)
    /\ UNCHANGED jar

(* dropSession: the session is forgotten and the cookie thrown away. *)
Forget(c) ==
    /\ tabid' = [tabid EXCEPT ![c] = "none"]
    /\ xsrf' = [xsrf EXCEPT ![c] = "none"]
    /\ jar' = [jar EXCEPT ![c] = "good"]
    /\ LeaveSlot(c)

(* On to the next request of the call.  UploadCertificate posts the key    *)
(* without another ensure().                                               *)
Continue(c) ==
    /\ todo' = [todo EXCEPT ![c] = Tail(@)]
    /\ retried' = [retried EXCEPT ![c] = FALSE]
    /\ Goto(c, IF Len(todo[c]) = 1 THEN "done"
               ELSE IF todo[c][2] = "post" THEN "request" ELSE "session")

(* The session is taken for dead, right or wrong; if wrong, its slot stays *)
(* taken, for nobody logs out of it.                                       *)
LoginAgain(c) ==
    /\ Forget(c)
    /\ presumed' = IF tabid[c] = "live" THEN presumed \cup {c} ELSE presumed
    /\ UNCHANGED rough
    /\ retried' = [retried EXCEPT ![c] = TRUE]
    /\ Goto(c, "session")
    /\ UNCHANGED <<todo, mishaps>>

ReadFails(c) ==
    /\ Goto(c, "failed")
    /\ UNCHANGED <<tabid, xsrf, jar, todo, retried, stranded, rough, presumed>>

Fruitful(c) == Answered(c) /\ Head(todo[c]) # "hollow"

ReadInsists(c, answered) ==
    \/ /\ Fruitful(c)
       /\ answered
       /\ UNCHANGED <<tabid, jar, stranded, rough, presumed, mishaps>>
    \/ ~Fruitful(c) /\ LoginAgain(c)
    \/ ReadFails(c) /\ Mishap

(* getLocked.  Nothing but an empty body is taken for a dead session, and  *)
(* it logs in again once.                                                  *)
Read(c, answered) ==
    \/ /\ Fruitful(c)
       /\ answered
       /\ UNCHANGED <<tabid, jar, stranded, rough, presumed, mishaps>>
    \/ ~Fruitful(c) /\ ~retried[c] /\ LoginAgain(c)
    \/ ~Fruitful(c) /\ retried[c] /\ ReadFails(c) /\ UNCHANGED mishaps
    \/ ~Answered(c) /\ Expired404 /\ ReadFails(c) /\ UNCHANGED mishaps
    \/ ReadFails(c) /\ Mishap

FetchToken(c) ==
    /\ at[c] = "token"
    /\ Read(c, SetToken(c, "held") /\ Goto(c, "request") /\ UNCHANGED <<todo, retried>>)
    /\ UNCHANGED uploads

(* The replies to a read may carry a token as well. *)
ReadRequest(c) ==
    /\ at[c] = "request"
    /\ Head(todo[c]) \in {"read", "hollow"}
    /\ Read(c, (UNCHANGED xsrf \/ SetToken(c, "held")) /\ Continue(c))
    /\ UNCHANGED uploads

(* The switch is switched to HTTPS: its web server restarts, and forgets   *)
(* every session.                                                          *)
RestartWeb ==
    /\ Drop(Clients)
    /\ stranded' = [c \in Clients |-> 0]

(* Set.  A write in a dead session comes back empty, or with `logout', on  *)
(* which the session is forgotten.                                         *)
WriteRequest(c) ==
    /\ at[c] = "request"
    /\ Head(todo[c]) \in {"write", "enable"}
    /\ \/ /\ Answered(c) /\ xsrf[c] = "held"
          /\ IF Head(todo[c]) = "enable"
             THEN RestartWeb
             ELSE UNCHANGED <<tabid, jar, stranded, rough, presumed>>
          /\ \/ Continue(c) /\ UNCHANGED mishaps
             \/ Mishap /\ Goto(c, "failed") /\ UNCHANGED <<todo, retried>>
          /\ UNCHANGED xsrf
       \/ /\ \/ ~(Answered(c) /\ xsrf[c] = "held") /\ UNCHANGED mishaps
             \/ Mishap
          /\ Goto(c, "failed")
          /\ UNCHANGED <<tabid, xsrf, jar, todo, retried, stranded, rough, presumed>>
       \/ /\ tabid[c] = "dead"
          /\ tabid' = [tabid EXCEPT ![c] = "none"]
          /\ SetToken(c, "none")
          /\ Goto(c, "failed")
          /\ UNCHANGED <<jar, todo, retried, stranded, rough, presumed, mishaps>>
    /\ UNCHANGED uploads

(* postUpload looks at the HTTP status only. *)
Post(c) ==
    /\ at[c] = "request"
    /\ Head(todo[c]) \in {"firstPost", "post"}
    /\ \/ Continue(c) /\ UNCHANGED mishaps
       \/ /\ \/ ~(Answered(c) /\ xsrf[c] = "held") /\ UNCHANGED mishaps
             \/ Mishap
          /\ Goto(c, "failed")
          /\ UNCHANGED <<todo, retried>>
    /\ UNCHANGED <<tabid, xsrf, jar, stranded, rough, presumed, uploads>>

(* The switch may refuse an uploaded file (awaitUploadLocked), or report   *)
(* no certificate.                                                         *)
Refuse(c) ==
    /\ c \in Uploaders
    /\ at[c] = "request"
    /\ Head(todo[c]) = "read"
    /\ Goto(c, "failed")
    /\ UNCHANGED <<tabid, xsrf, jar, todo, retried, stranded, rough, presumed, mishaps, uploads>>

-----------------------------------------------------------------------------
(* The end of a call.                                                      *)

LogoutFirstForgets(c) ==
    /\ tabid' = [tabid EXCEPT ![c] = "none"]
    /\ xsrf' = [xsrf EXCEPT ![c] = "none"]
    /\ LeaveSlot(c)
    /\ UNCHANGED <<rough, presumed, mishaps>>

(* logoutLocked: the session is forgotten whether or not the switch took   *)
(* the request.                                                            *)
Logout(c) ==
    /\ tabid' = [tabid EXCEPT ![c] = "none"]
    /\ xsrf' = [xsrf EXCEPT ![c] = "none"]
    /\ \/ Answered(c) /\ UNCHANGED <<stranded, rough, presumed, mishaps>>
       \/ ~Answered(c) /\ LeaveSlot(c) /\ UNCHANGED <<rough, presumed, mishaps>>
       \/ /\ tabid[c] = "live"
          /\ Mishap
          /\ LeaveSlot(c)
          /\ rough' = rough \cup {c}
          /\ UNCHANGED presumed

Idle(c) ==
    /\ Goto(c, "idle")
    /\ todo' = [todo EXCEPT ![c] = <<>>]
    /\ retried' = [retried EXCEPT ![c] = FALSE]

FinishDone(c) ==
    /\ at[c] \in {"done", "failed"}
    /\ c \notin Uploaders
    /\ IF c \in PerCall /\ at[c] = "done"
       THEN Logout(c)
       ELSE UNCHANGED <<tabid, xsrf, stranded, rough, presumed, mishaps>>
    /\ Idle(c)
    /\ UNCHANGED <<jar, uploads>>

(* releaseLocked, deferred: on every way out of Get and Set. *)
Finish(c) ==
    /\ at[c] \in {"done", "failed"}
    /\ c \notin Uploaders
    /\ IF c \in PerCall THEN Logout(c) ELSE UNCHANGED <<tabid, xsrf, stranded, rough, presumed, mishaps>>
    /\ Idle(c)
    /\ UNCHANGED <<jar, uploads>>

FreshJar(c) == jar' = [jar EXCEPT ![c] = "good"]

(* UploadCertificate logs out when all went well; the client is not used   *)
(* again in either case.                                                   *)
FinishUpload(c) ==
    /\ c \in Uploaders
    /\ \/ at[c] = "done" /\ Logout(c) /\ FreshJar(c)
       \/ at[c] = "failed" /\ Forget(c) /\ UNCHANGED <<rough, presumed, mishaps>>
    /\ Idle(c)
    /\ UNCHANGED uploads

(* A process is killed, and another one starts in its place. *)
Kill(c) ==
    /\ Mishap
    /\ Forget(c)
    /\ Idle(c)
    /\ rough' = rough \cup {c}
    /\ UNCHANGED <<presumed, uploads>>

(* The exporter and the provider log out when they stop cleanly (Cleanup). *)
Shutdown(c) ==
    /\ c \notin Uploaders
    /\ at[c] = "idle"
    /\ Logout(c)
    /\ FreshJar(c)
    /\ UNCHANGED <<at, todo, retried, uploads>>

Work(c) ==
    \/ Ensure(c)
    \/ FetchToken(c)
    \/ ReadRequest(c)
    \/ WriteRequest(c)
    \/ Post(c)
    \/ Refuse(c)
    \/ Finish(c)
    \/ FinishUpload(c)

Next ==
    \/ \E c \in Clients : Start(c) \/ StartHollow(c) \/ Work(c)
    \/ \E c \in Clients : DropSession(c) \/ Expire(c) \/ Kill(c) \/ Shutdown(c)

Spec == Init /\ [][Next]_vars

(* A call in progress goes on, the exporter's ticker fires, and the idle   *)
(* timeout runs.                                                           *)
Fairness ==
    /\ \A c \in Clients : WF_vars(Work(c)) /\ WF_vars(Expire(c))
    /\ \A c \in Reusers : WF_vars(Start(c))

FairSpec == Spec /\ Fairness

-----------------------------------------------------------------------------
(* Properties.                                                             *)

(* On no way out of a call does a client in per-call mode keep the session *)
(* it holds (client.go:118-125).                                           *)
PerCallLeavesNothing == \A c \in PerCall : at[c] = "idle" => tabid[c] = "none"

(* A call of the exporter or the provider that fails costs the switch a    *)
(* slot only if it was cut off (a killed process, a session dropped by the *)
(* switch, a login or logout whose reply was lost), or if an empty reply   *)
(* made it take a live session for dead and drop it without a logout       *)
(* (client.go:433-434).                                                    *)
FailuresStrandNothing ==
    \A c \in Clients \ Uploaders : stranded[c] > 0 => c \in rough \cup presumed

(* Every write of Set, and the first file of an upload, is sent with a     *)
(* token of the session it is sent in, also when the session was replaced  *)
(* while the token was fetched.                                            *)
WritesCarryToken ==
    \A c \in Clients :
        at[c] = "request" /\ Head(todo[c]) \in Writes => xsrf[c] = "held"

(* Every call comes to its end: a reply that is empty again and again does *)
(* not become a login loop (client.go:431).                                *)
CallsEnd == \A c \in Clients : at[c] # "idle" ~> at[c] = "idle"

(* The exporter reads the switch again, however its session was lost, and  *)
(* keeps doing so (client.go:373-386).                                     *)
ExporterRecovers == \A c \in Reusers : []<>(at[c] = "done")

(* "this logs out when done rather than stranding a slot" (upload.go:76):  *)
(* an upload strands no slot unless something cut it off.                  *)
UploadStrandsNothing == \A c \in Uploaders : stranded[c] > 0 => c \in rough
=============================================================================
