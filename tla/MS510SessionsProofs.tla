------------------------- MODULE MS510SessionsProofs -------------------------
(***************************************************************************)
(* Proofs about MS510Sessions, for any clients, slots and bounds: no call  *)
(* on any path leaves the provider with a session, no failing call costs a *)
(* slot, and no write is sent without its token.                           *)
(***************************************************************************)
EXTENDS MS510Sessions, SequenceTheorems, TLAPS

(* A call under way has a request to make, and one that is about to write  *)
(* has the token for it.                                                   *)
CallInv == \A c \in Clients : at[c] \in {"session", "token", "request"} => todo[c] # <<>>

(* What is lost for a reason is on record.                                 *)
DroppedInv == \A c \in Clients : tabid[c] = "dead" \/ jar[c] = "stale" => c \in rough
RoughInv == DroppedInv /\ FailuresStrandNothing

TypeInv == TypeOK /\ CallInv

LEMMA TypeInit == Init => TypeInv
  BY BoundAssumption DEF Init, TypeInv, TypeOK, CallInv, Steps, Requests, Writes

LEMMA TailType ==
  ASSUME NEW S, NEW s \in Seq(S), s # <<>>
  PROVE  Tail(s) \in Seq(S) /\ (Len(s) # 1 => Tail(s) # <<>>)
<1>1. Len(s) \in Nat \ {0}
  BY EmptySeq
<1>2. Tail(s) \in Seq(S) /\ Len(Tail(s)) = Len(s) - 1
  BY HeadTailProperties
<1>3. \A t \in Seq(S) : Len(t) # 0 => t # <<>>
  BY EmptySeq
<1> QED
  BY <1>1, <1>2, <1>3

LEMMA SecondOfTail ==
  ASSUME NEW S, NEW s \in Seq(S), s # <<>>, Len(s) # 1
  PROVE  Head(Tail(s)) = s[2]
<1>1. Len(s) \in Nat \ {0, 1}
  BY EmptySeq
<1>2. Len(Tail(s)) = Len(s) - 1 /\ \A i \in 1..Len(Tail(s)) : Tail(s)[i] = s[i + 1]
  BY HeadTailProperties
<1>3. 1 \in 1..Len(Tail(s)) /\ 1 + 1 = 2
  BY <1>1, <1>2
<1>4. Tail(s)[1] = s[2]
  BY <1>2, <1>3
<1>5. \A t \in Seq(S) : Head(t) = t[1]
  OBVIOUS
<1> QED
  BY <1>4, <1>5, HeadTailProperties

LEMMA ContinueType ==
  ASSUME TypeInv, NEW c \in Clients, at[c] = "request", Continue(c)
  PROVE  /\ todo' \in [Clients -> Seq(Requests)]
         /\ retried' \in [Clients -> BOOLEAN]
         /\ at' \in [Clients -> Steps]
         /\ CallInv'
         /\ at'[c] = "request" => Head(todo'[c]) = "post"
         /\ \A d \in Clients \ {c} : at'[d] = at[d] /\ todo'[d] = todo[d]
<1>1. todo[c] \in Seq(Requests) /\ todo[c] # <<>>
  BY DEF TypeInv, TypeOK, CallInv
<1>2. Tail(todo[c]) \in Seq(Requests) /\ (Len(todo[c]) # 1 => Tail(todo[c]) # <<>>)
  BY <1>1, TailType
<1>3. todo' \in [Clients -> Seq(Requests)] /\ retried' \in [Clients -> BOOLEAN]
  BY <1>2 DEF Continue, TypeInv, TypeOK
<1>4. at' \in [Clients -> Steps]
  BY DEF Continue, Goto, Steps, TypeInv, TypeOK
<1>5. \A d \in Clients \ {c} : at'[d] = at[d] /\ todo'[d] = todo[d]
  BY DEF Continue, Goto, TypeInv, TypeOK
<1>6. at'[c] \in {"session", "request"} => todo'[c] # <<>>
  BY <1>2 DEF Continue, Goto, TypeInv, TypeOK
<1>7. CallInv'
  <2>1. at'[c] # "token"
    BY DEF Continue, Goto, TypeInv, TypeOK
  <2> QED
    BY <1>5, <1>6, <2>1 DEF CallInv, TypeInv
<1>8. at'[c] = "request" => Head(todo'[c]) = "post"
  <2>1. SUFFICES ASSUME Len(todo[c]) # 1, todo[c][2] = "post"
                 PROVE  Head(Tail(todo[c])) = "post"
    BY DEF Continue, Goto, TypeInv, TypeOK
  <2> QED
    BY <1>1, <2>1, SecondOfTail
<1> QED
  BY <1>3, <1>4, <1>5, <1>7, <1>8

LEMMA CallsType ==
  \A call \in {Get, Set, GetNothing, Upload} : call \in Seq(Requests) /\ call # <<>>
<1>1. Get \in Seq(Requests) /\ Set \in Seq(Requests) /\ GetNothing \in Seq(Requests)
  BY DEF Get, Set, GetNothing, Requests, Writes
<1>2. Upload \in Seq(Requests)
  BY DEF Upload, Requests, Writes
<1>3. Len(Get) = 1 /\ Len(Set) = 1 /\ Len(GetNothing) = 1 /\ Len(Upload) = 7
  BY DEF Get, Set, GetNothing, Upload
<1> QED
  BY <1>1, <1>2, <1>3, EmptySeq

(* The bounded counters. *)
LEMMA MishapType ==
  ASSUME mishaps \in 0..MaxMishaps, Mishap \/ UNCHANGED mishaps
  PROVE  mishaps' \in 0..MaxMishaps
  BY BoundAssumption DEF Mishap

LEMMA LeaveSlotType ==
  ASSUME TypeOK, NEW c \in Clients, LeaveSlot(c)
  PROVE  /\ stranded' \in [Clients -> Nat]
         /\ \A d \in Clients : stranded'[d] # stranded[d] => d = c /\ tabid[c] = "live"
  BY DEF TypeOK, LeaveSlot

LEMMA ForgetType ==
  ASSUME TypeOK, NEW c \in Clients, Forget(c)
  PROVE  /\ tabid' \in [Clients -> {"none", "live", "dead"}]
         /\ xsrf' \in [Clients -> {"none", "held"}]
         /\ jar' \in [Clients -> {"good", "stale"}]
         /\ stranded' \in [Clients -> Nat]
<1>1. stranded' \in [Clients -> Nat]
  BY LeaveSlotType DEF Forget
<1> QED
  BY <1>1 DEF TypeOK, Forget

LEMMA DropType ==
  ASSUME TypeOK, NEW cs \in SUBSET Clients, Drop(cs)
  PROVE  /\ tabid' \in [Clients -> {"none", "live", "dead"}]
         /\ jar' \in [Clients -> {"good", "stale"}]
         /\ rough' \in SUBSET Clients /\ presumed' \in SUBSET Clients
<1>1. tabid' \in [Clients -> {"none", "live", "dead"}] /\ rough' \in SUBSET Clients /\ presumed' \in SUBSET Clients
  BY DEF TypeOK, Drop
<1>2. jar' \in [Clients -> {"good", "stale"}]
  BY DEF TypeOK, Drop
<1> QED
  BY <1>1, <1>2

LEMMA LogoutType ==
  ASSUME TypeOK, NEW c \in Clients, Logout(c)
  PROVE  /\ tabid' \in [Clients -> {"none", "live", "dead"}]
         /\ xsrf' \in [Clients -> {"none", "held"}]
         /\ stranded' \in [Clients -> Nat]
         /\ rough' \in SUBSET Clients /\ presumed' \in SUBSET Clients
         /\ mishaps' \in 0..MaxMishaps
<1>1. stranded' \in [Clients -> Nat]
  BY LeaveSlotType DEF Logout, TypeOK
<1>2. mishaps' \in 0..MaxMishaps
  BY MishapType DEF Logout, TypeOK
<1> QED
  BY <1>1, <1>2 DEF TypeOK, Logout

(* What moving a call on, without touching its requests, may do. *)
LEMMA GotoType ==
  ASSUME TypeInv, NEW c \in Clients, NEW step \in Steps, Goto(c, step), UNCHANGED todo,
         at[c] \in {"session", "token", "request"} \/ step \in {"idle", "done", "failed"}
  PROVE  at' \in [Clients -> Steps] /\ CallInv'
  BY DEF TypeInv, TypeOK, CallInv, Goto

LEMMA IdleType ==
  ASSUME TypeInv, NEW c \in Clients, Idle(c)
  PROVE  /\ at' \in [Clients -> Steps]
         /\ todo' \in [Clients -> Seq(Requests)]
         /\ retried' \in [Clients -> BOOLEAN]
         /\ CallInv'
<1>1. <<>> \in Seq(Requests)
  OBVIOUS
<1> QED
  BY <1>1 DEF TypeInv, TypeOK, CallInv, Idle, Goto, Steps

LEMMA LoginType ==
  ASSUME TypeInv, NEW c \in Clients, at[c] = "session", Login(c), UNCHANGED uploads
  PROVE  TypeInv'
<1>1. mishaps' \in 0..MaxMishaps
  BY MishapType DEF Login, TypeInv, TypeOK
<1>2. at' \in [Clients -> Steps] /\ CallInv'
  <2>1. CASE UNCHANGED <<at, todo>>
    BY <2>1 DEF TypeInv, TypeOK, CallInv
  <2>2. CASE Goto(c, "failed") /\ UNCHANGED todo
    BY <2>2, GotoType DEF Steps
  <2> QED
    BY <2>1, <2>2 DEF Login
<1>3. stranded' \in [Clients -> Nat] /\ rough' \in SUBSET Clients /\ presumed' \in SUBSET Clients
  <2>1. CASE stranded' = [stranded EXCEPT ![c] = @ + 1] /\ rough' = rough \cup {c} /\ UNCHANGED presumed
    BY <2>1 DEF TypeInv, TypeOK
  <2>2. CASE UNCHANGED <<stranded, rough, presumed>>
    BY <2>2 DEF TypeInv, TypeOK
  <2> QED
    BY <2>1, <2>2 DEF Login
<1>4. tabid' \in [Clients -> {"none", "live", "dead"}] /\ xsrf' \in [Clients -> {"none", "held"}]
  BY DEF TypeInv, TypeOK, Login, SetToken
<1> QED
  BY <1>1, <1>2, <1>3, <1>4 DEF TypeInv, TypeOK, Login

(* The ways a read ends without an answer. *)
LEMMA UnansweredType ==
  ASSUME TypeInv, NEW c \in Clients, at[c] \in {"token", "request"},
         UNCHANGED uploads, LoginAgain(c) \/ (ReadFails(c) /\ (Mishap \/ UNCHANGED mishaps))
  PROVE  TypeInv'
<1>1. mishaps' \in 0..MaxMishaps
  BY MishapType DEF LoginAgain, TypeInv, TypeOK
<1>2. at' \in [Clients -> Steps] /\ CallInv'
  BY GotoType DEF LoginAgain, ReadFails, Steps
<1>3. CASE LoginAgain(c)
  <2>1. Forget(c)
    BY <1>3 DEF LoginAgain
  <2> QED
    BY <1>1, <1>2, <1>3, <2>1, ForgetType DEF LoginAgain, TypeInv, TypeOK
<1>4. CASE ReadFails(c)
  BY <1>1, <1>2, <1>4 DEF ReadFails, TypeInv, TypeOK
<1> QED
  BY <1>3, <1>4

LEMMA TypeStep == TypeInv /\ [Next]_vars => TypeInv'
<1> SUFFICES ASSUME TypeInv, [Next]_vars
             PROVE  TypeInv'
  OBVIOUS
<1>a. TypeOK
  BY DEF TypeInv
<1>1. CASE UNCHANGED vars
  BY <1>1 DEF vars, TypeInv, TypeOK, CallInv
<1>2. ASSUME NEW c \in Clients, Start(c) \/ StartHollow(c)
      PROVE  TypeInv'
  <2>1. PICK call \in {Get, Set, GetNothing, Upload} : Begin(c, call)
    BY <1>2 DEF Start, StartHollow, CallsOf
  <2>2. call \in Seq(Requests) /\ call # <<>>
    BY CallsType
  <2>3. mishaps' \in 0..MaxMishaps
    BY <1>2, MishapType DEF Start, StartHollow, TypeInv, TypeOK
  <2>4. uploads' \in 0..MaxUploads
    BY <1>2, BoundAssumption DEF Start, StartHollow, TypeInv, TypeOK
  <2>5. at' \in [Clients -> Steps] /\ CallInv'
    BY <2>1, <2>2 DEF Begin, Goto, Steps, TypeInv, TypeOK, CallInv
  <2>6. todo' \in [Clients -> Seq(Requests)] /\ retried' \in [Clients -> BOOLEAN]
    BY <2>1, <2>2 DEF Begin, TypeInv, TypeOK
  <2> QED
    BY <2>1, <2>3, <2>4, <2>5, <2>6 DEF Begin, TypeInv, TypeOK
<1>3. ASSUME NEW c \in Clients, Ensure(c)
      PROVE  TypeInv'
  <2>1. CASE Login(c)
    BY <1>3, <2>1, LoginType DEF Ensure
  <2>2. CASE Proceed(c) /\ UNCHANGED <<tabid, xsrf, jar, todo, retried, stranded, rough, presumed, mishaps>>
    <3>1. at' \in [Clients -> Steps] /\ CallInv'
      BY <1>3, <2>2, GotoType DEF Ensure, Proceed, Steps
    <3> QED
      BY <1>3, <2>2, <3>1 DEF Ensure, TypeInv, TypeOK
  <2> QED
    BY <1>3, <2>1, <2>2 DEF Ensure
<1>4. ASSUME NEW c \in Clients, FetchToken(c)
      PROVE  TypeInv'
  <2>1. CASE LoginAgain(c) \/ (ReadFails(c) /\ (Mishap \/ UNCHANGED mishaps))
    BY <1>4, <2>1, UnansweredType DEF FetchToken
  <2>2. CASE /\ SetToken(c, "held")
             /\ Goto(c, "request")
             /\ UNCHANGED <<todo, retried, tabid, jar, stranded, rough, presumed, mishaps>>
    <3>1. at' \in [Clients -> Steps] /\ CallInv'
      BY <1>4, <2>2, GotoType DEF FetchToken, Steps
    <3> QED
      BY <1>4, <2>2, <3>1 DEF FetchToken, SetToken, TypeInv, TypeOK
  <2> QED
    BY <1>4, <2>1, <2>2 DEF FetchToken, Read
<1>5. ASSUME NEW c \in Clients, ReadRequest(c)
      PROVE  TypeInv'
  <2>1. CASE LoginAgain(c) \/ (ReadFails(c) /\ (Mishap \/ UNCHANGED mishaps))
    BY <1>5, <2>1, UnansweredType DEF ReadRequest
  <2>2. CASE /\ UNCHANGED xsrf \/ SetToken(c, "held")
             /\ Continue(c)
             /\ UNCHANGED <<tabid, jar, stranded, rough, presumed, mishaps>>
    <3>1. at[c] = "request"
      BY <1>5 DEF ReadRequest
    <3> QED
      BY <1>5, <2>2, <3>1, ContinueType DEF ReadRequest, SetToken, TypeInv, TypeOK
  <2> QED
    BY <1>5, <2>1, <2>2 DEF ReadRequest, Read
<1>6. ASSUME NEW c \in Clients, WriteRequest(c)
      PROVE  TypeInv'
  <2>1. /\ at' \in [Clients -> Steps]
        /\ CallInv'
        /\ todo' \in [Clients -> Seq(Requests)]
        /\ retried' \in [Clients -> BOOLEAN]
    <3>1. CASE Continue(c)
      BY <1>6, <3>1, ContinueType DEF WriteRequest
    <3>2. CASE Goto(c, "failed") /\ UNCHANGED <<todo, retried>>
      BY <1>6, <3>2, GotoType DEF WriteRequest, Steps, TypeInv, TypeOK
    <3> QED
      BY <1>6, <3>1, <3>2 DEF WriteRequest
  <2>2. mishaps' \in 0..MaxMishaps
    BY <1>6, <1>a, MishapType DEF WriteRequest, TypeOK
  <2>3. /\ tabid' \in [Clients -> {"none", "live", "dead"}]
        /\ jar' \in [Clients -> {"good", "stale"}]
        /\ stranded' \in [Clients -> Nat]
        /\ rough' \in SUBSET Clients /\ presumed' \in SUBSET Clients
    <3>1. CASE RestartWeb
      BY <1>a, <3>1, DropType DEF RestartWeb
    <3>2. CASE UNCHANGED <<tabid, jar, stranded, rough, presumed>>
      BY <1>a, <3>2 DEF TypeOK
    <3>3. CASE tabid' = [tabid EXCEPT ![c] = "none"] /\ UNCHANGED <<jar, stranded, rough, presumed>>
      BY <1>a, <3>3 DEF TypeOK
    <3> QED
      BY <1>6, <3>1, <3>2, <3>3 DEF WriteRequest
  <2>4. xsrf' \in [Clients -> {"none", "held"}]
    BY <1>6, <1>a DEF WriteRequest, SetToken, TypeOK
  <2> QED
    BY <1>6, <2>1, <2>2, <2>3, <2>4 DEF WriteRequest, TypeInv, TypeOK
<1>7. ASSUME NEW c \in Clients, Post(c)
      PROVE  TypeInv'
  <2>1. /\ at' \in [Clients -> Steps]
        /\ CallInv'
        /\ todo' \in [Clients -> Seq(Requests)]
        /\ retried' \in [Clients -> BOOLEAN]
    <3>1. CASE Continue(c)
      BY <1>7, <3>1, ContinueType DEF Post
    <3>2. CASE Goto(c, "failed") /\ UNCHANGED <<todo, retried>>
      BY <1>7, <3>2, GotoType DEF Post, Steps, TypeInv, TypeOK
    <3> QED
      BY <1>7, <3>1, <3>2 DEF Post
  <2>2. mishaps' \in 0..MaxMishaps
    BY <1>7, <1>a, MishapType DEF Post, TypeOK
  <2> QED
    BY <1>7, <2>1, <2>2 DEF Post, TypeInv, TypeOK
<1>8. ASSUME NEW c \in Clients, Refuse(c)
      PROVE  TypeInv'
  <2>1. at' \in [Clients -> Steps] /\ CallInv'
    BY <1>8, GotoType DEF Refuse, Steps
  <2> QED
    BY <1>8, <2>1 DEF Refuse, TypeInv, TypeOK
<1>9. ASSUME NEW c \in Clients, Finish(c) \/ FinishUpload(c)
      PROVE  TypeInv'
  <2>1. /\ at' \in [Clients -> Steps]
        /\ todo' \in [Clients -> Seq(Requests)]
        /\ retried' \in [Clients -> BOOLEAN]
        /\ CallInv'
    BY <1>9, IdleType DEF Finish, FinishUpload
  <2>2. jar' \in [Clients -> {"good", "stale"}]
    BY <1>9, <1>a DEF Finish, FinishUpload, FreshJar, Forget, TypeOK
  <2>3. CASE Logout(c)
    BY <1>9, <1>a, <2>1, <2>2, <2>3, LogoutType DEF Finish, FinishUpload, TypeInv, TypeOK
  <2>4. CASE Forget(c) /\ UNCHANGED <<rough, presumed, mishaps>>
    BY <1>9, <1>a, <2>1, <2>2, <2>4, ForgetType DEF Finish, FinishUpload, TypeInv, TypeOK
  <2>5. CASE UNCHANGED <<tabid, xsrf, stranded, rough, presumed, mishaps>>
    BY <1>9, <1>a, <2>1, <2>2, <2>5 DEF Finish, FinishUpload, TypeInv, TypeOK
  <2> QED
    BY <1>9, <2>3, <2>4, <2>5 DEF Finish, FinishUpload
<1>10. ASSUME NEW c \in Clients, DropSession(c)
       PROVE  TypeInv'
  <2>1. mishaps' \in 0..MaxMishaps
    BY <1>10, <1>a, MishapType DEF DropSession, TypeOK
  <2> QED
    BY <1>10, <1>a, <2>1, DropType DEF DropSession, TypeInv, TypeOK, CallInv
<1>11. ASSUME NEW c \in Clients, Expire(c)
       PROVE  TypeInv'
  BY <1>11 DEF Expire, clientVars, TypeInv, TypeOK, CallInv
<1>12. ASSUME NEW c \in Clients, Kill(c)
       PROVE  TypeInv'
  <2>1. mishaps' \in 0..MaxMishaps
    BY <1>12, <1>a, MishapType DEF Kill, TypeOK
  <2> QED
    BY <1>12, <1>a, <2>1, ForgetType, IdleType DEF Kill, TypeInv, TypeOK
<1>13. ASSUME NEW c \in Clients, Shutdown(c)
       PROVE  TypeInv'
  <2>1. jar' \in [Clients -> {"good", "stale"}]
    BY <1>13, <1>a DEF Shutdown, FreshJar, TypeOK
  <2> QED
    BY <1>13, <1>a, <2>1, LogoutType DEF Shutdown, TypeInv, TypeOK, CallInv
<1> QED
  BY <1>1, <1>2, <1>3, <1>4, <1>5, <1>6, <1>7, <1>8, <1>9, <1>10, <1>11, <1>12, <1>13
     DEF Next, Work

-----------------------------------------------------------------------------
(* Slots.                                                                  *)

LEMMA LogoutRough ==
  ASSUME TypeOK, RoughInv, NEW c \in Clients, Logout(c), jar' \in {jar, [jar EXCEPT ![c] = "good"]}
  PROVE  RoughInv'
<1>1. rough \subseteq rough' /\ presumed' = presumed
  BY DEF Logout
<1>2. DroppedInv'
  BY <1>1 DEF Logout, RoughInv, DroppedInv, TypeOK
<1>3. ASSUME NEW d \in Clients \ Uploaders, stranded'[d] > 0
      PROVE  d \in rough' \cup presumed'
  <2>1. CASE stranded'[d] = stranded[d]
    BY <1>1, <1>3, <2>1 DEF RoughInv, FailuresStrandNothing
  <2>2. CASE stranded'[d] # stranded[d]
    <3>1. LeaveSlot(c)
      BY <1>3, <2>2 DEF Logout
    <3>2. d = c /\ tabid[c] = "live"
      BY <1>3, <2>2, <3>1, LeaveSlotType
    <3>3. CASE ~Answered(c)
      BY <1>1, <3>2, <3>3 DEF Answered, RoughInv, DroppedInv, TypeOK
    <3>4. CASE Answered(c)
      BY <2>2, <3>2, <3>4 DEF Logout
    <3> QED
      BY <3>3, <3>4
  <2> QED
    BY <2>1, <2>2
<1> QED
  BY <1>2, <1>3 DEF RoughInv, FailuresStrandNothing

(* Forgetting a session costs a slot only if there was one, and then it is *)
(* on record or an upload's.                                               *)
LEMMA ForgetRough ==
  ASSUME TypeOK, RoughInv, NEW c \in Clients, Forget(c), rough \subseteq rough', presumed \subseteq presumed',
         c \in Uploaders \/ tabid[c] # "live" \/ c \in rough' \cup presumed'
  PROVE  RoughInv'
<1>1. DroppedInv'
  BY DEF Forget, RoughInv, DroppedInv, TypeOK
<1>2. ASSUME NEW d \in Clients \ Uploaders, stranded'[d] > 0
      PROVE  d \in rough' \cup presumed'
  <2>1. LeaveSlot(c)
    BY DEF Forget
  <2>2. stranded'[d] = stranded[d] \/ (d = c /\ tabid[c] = "live")
    BY <1>2, <2>1, LeaveSlotType
  <2> QED
    BY <1>2, <2>2 DEF RoughInv, FailuresStrandNothing
<1> QED
  BY <1>1, <1>2 DEF RoughInv, FailuresStrandNothing

LEMMA DropRough ==
  ASSUME TypeOK, RoughInv, NEW cs \in SUBSET Clients, Drop(cs),
         stranded' \in {stranded, [c \in Clients |-> 0]}
  PROVE  RoughInv'
<1>1. ASSUME NEW c \in Clients, tabid'[c] = "dead" \/ jar'[c] = "stale"
      PROVE  c \in rough'
  <2>1. tabid'[c] = tabid[c] \/ (c \in cs /\ tabid[c] = "live")
    BY DEF Drop
  <2>2. jar'[c] = jar[c] \/ (c \in cs /\ tabid[c] = "live")
    BY DEF Drop
  <2>3. rough' = rough \cup {d \in cs : tabid[d] = "live"}
    BY DEF Drop
  <2> QED
    BY <1>1, <2>1, <2>2, <2>3 DEF RoughInv, DroppedInv
<1>2. FailuresStrandNothing'
  BY DEF RoughInv, FailuresStrandNothing, Drop
<1> QED
  BY <1>1, <1>2 DEF RoughInv, DroppedInv

LEMMA RoughStep == TypeInv /\ RoughInv /\ [Next]_vars => RoughInv'
<1> SUFFICES ASSUME TypeInv, RoughInv, [Next]_vars
             PROVE  RoughInv'
  OBVIOUS
<1>a. TypeOK
  BY DEF TypeInv
<1>1. CASE UNCHANGED <<tabid, jar, stranded, rough, presumed>>
  BY <1>1 DEF RoughInv, DroppedInv, FailuresStrandNothing
<1>2. ASSUME NEW c \in Clients, Ensure(c)
      PROVE  RoughInv'
  <2>1. CASE Login(c)
    <3>1. DroppedInv'
      BY <1>a, <2>1 DEF Login, RoughInv, DroppedInv, TypeOK
    <3>2. FailuresStrandNothing'
      BY <1>a, <2>1 DEF Login, RoughInv, FailuresStrandNothing, TypeOK
    <3> QED
      BY <3>1, <3>2 DEF RoughInv
  <2> QED
    BY <1>1, <1>2, <2>1 DEF Ensure
<1>3. ASSUME NEW c \in Clients, FetchToken(c) \/ ReadRequest(c)
      PROVE  RoughInv'
  <2>1. CASE LoginAgain(c)
    BY <1>a, <2>1, ForgetRough DEF LoginAgain
  <2> QED
    BY <1>1, <1>3, <2>1 DEF FetchToken, ReadRequest, Read, ReadFails
<1>4. ASSUME NEW c \in Clients, WriteRequest(c)
      PROVE  RoughInv'
  <2>1. CASE RestartWeb
    BY <1>a, <2>1, DropRough DEF RestartWeb
  <2>2. CASE tabid' = [tabid EXCEPT ![c] = "none"] /\ UNCHANGED <<jar, stranded, rough, presumed>>
    BY <1>a, <2>2 DEF RoughInv, DroppedInv, FailuresStrandNothing, TypeOK
  <2> QED
    BY <1>1, <1>4, <2>1, <2>2 DEF WriteRequest
<1>5. ASSUME NEW c \in Clients, Finish(c) \/ FinishUpload(c) \/ Shutdown(c)
      PROVE  RoughInv'
  <2>1. CASE Logout(c)
    <3>1. jar' \in {jar, [jar EXCEPT ![c] = "good"]}
      BY <1>5, <2>1 DEF Finish, FinishUpload, Shutdown, FreshJar, Forget
    <3> QED
      BY <1>a, <2>1, <3>1, LogoutRough
  <2>2. CASE c \in Uploaders /\ Forget(c) /\ UNCHANGED <<rough, presumed>>
    BY <1>a, <2>2, ForgetRough
  <2> QED
    BY <1>1, <1>5, <2>1, <2>2 DEF Finish, FinishUpload, Shutdown
<1>6. ASSUME NEW c \in Clients, DropSession(c)
      PROVE  RoughInv'
  BY <1>a, <1>6, DropRough DEF DropSession
<1>7. ASSUME NEW c \in Clients, Expire(c)
      PROVE  RoughInv'
  BY <1>a, <1>7 DEF Expire, clientVars, RoughInv, DroppedInv, FailuresStrandNothing, TypeOK
<1>8. ASSUME NEW c \in Clients, Kill(c)
      PROVE  RoughInv'
  BY <1>a, <1>8, ForgetRough DEF Kill
<1>9. ASSUME NEW c \in Clients, Start(c) \/ StartHollow(c) \/ Post(c) \/ Refuse(c)
      PROVE  RoughInv'
  BY <1>1, <1>9 DEF Start, StartHollow, Begin, Post, Refuse
<1> QED
  BY <1>1, <1>2, <1>3, <1>4, <1>5, <1>6, <1>7, <1>8, <1>9 DEF Next, Work, vars

-----------------------------------------------------------------------------
(* The token.                                                              *)

LEMMA TokenStep == TypeInv /\ WritesCarryToken /\ [Next]_vars => WritesCarryToken'
<1> SUFFICES ASSUME TypeInv, WritesCarryToken, [Next]_vars,
                    NEW d \in Clients, at'[d] = "request", Head(todo'[d]) \in Writes
             PROVE  xsrf'[d] = "held"
  BY DEF WritesCarryToken
<1> DEFINE Same == at'[d] = at[d] /\ todo'[d] = todo[d] /\ xsrf'[d] = xsrf[d]
<1>1. CASE Same
  BY <1>1 DEF WritesCarryToken
<1>2. ASSUME NEW c \in Clients, Start(c) \/ StartHollow(c)
      PROVE  Same
  BY <1>2 DEF Start, StartHollow, Begin, Goto, TypeInv, TypeOK
<1>3. ASSUME NEW c \in Clients, Ensure(c), ~Same
      PROVE  xsrf'[d] = "held"
  <2>1. d = c
    BY <1>3 DEF Ensure, Login, Proceed, SetToken, Goto, TypeInv, TypeOK
  <2>2. at[d] = "session"
    BY <1>3, <2>1 DEF Ensure
  <2>3. ~Login(c)
    BY <2>1, <2>2 DEF Login, Goto, TypeInv, TypeOK
  <2> QED
    BY <1>3, <2>1, <2>3 DEF Ensure, Proceed, Goto, TypeInv, TypeOK
<1>4. ASSUME NEW c \in Clients, FetchToken(c), ~Same
      PROVE  xsrf'[d] = "held"
  <2>1. d = c
    BY <1>4 DEF FetchToken, Read, LoginAgain, ReadFails, Forget, SetToken, Goto, TypeInv, TypeOK
  <2>2. ~LoginAgain(c) /\ ~ReadFails(c)
    BY <2>1 DEF LoginAgain, ReadFails, Goto, TypeInv, TypeOK
  <2> QED
    BY <1>4, <2>1, <2>2 DEF FetchToken, Read, SetToken, TypeInv, TypeOK
<1>5. ASSUME NEW c \in Clients, Continue(c), at[c] = "request", d = c
      PROVE  FALSE
  BY <1>5, ContinueType DEF Writes
<1>6. ASSUME NEW c \in Clients, ReadRequest(c), ~Same
      PROVE  FALSE
  <2>1. CASE LoginAgain(c) \/ ReadFails(c)
    BY <1>6, <2>1 DEF LoginAgain, ReadFails, Forget, Goto, TypeInv, TypeOK
  <2>2. CASE Continue(c) /\ (UNCHANGED xsrf \/ SetToken(c, "held"))
    <3>1. at[c] = "request"
      BY <1>6 DEF ReadRequest
    <3>2. d # c
      BY <1>5, <2>2, <3>1
    <3> QED
      BY <1>6, <2>2, <3>1, <3>2, ContinueType DEF SetToken, TypeInv, TypeOK
  <2> QED
    BY <1>6, <2>1, <2>2 DEF ReadRequest, Read
<1>7. ASSUME NEW c \in Clients, WriteRequest(c) \/ Post(c), ~Same
      PROVE  FALSE
  <2>1. at[c] = "request"
    BY <1>7 DEF WriteRequest, Post
  <2>2. CASE Continue(c) /\ UNCHANGED xsrf
    BY <1>5, <1>7, <2>1, <2>2, ContinueType
  <2>3. CASE Goto(c, "failed") /\ UNCHANGED todo /\ (UNCHANGED xsrf \/ SetToken(c, "none"))
    BY <1>7, <2>3 DEF Goto, SetToken, TypeInv, TypeOK
  <2> QED
    BY <1>7, <2>2, <2>3 DEF WriteRequest, Post
<1>8. ASSUME NEW c \in Clients, Refuse(c)
      PROVE  Same
  BY <1>8 DEF Refuse, Goto, TypeInv, TypeOK
<1>9. ASSUME NEW c \in Clients, Finish(c) \/ FinishUpload(c) \/ Kill(c)
      PROVE  Same
  <2>1. Idle(c) /\ d # c
    BY <1>9 DEF Finish, FinishUpload, Kill, Idle, Goto, TypeInv, TypeOK
  <2> QED
    BY <1>9, <2>1 DEF Finish, FinishUpload, Kill, Idle, Goto, Forget, Logout, TypeInv, TypeOK
<1>10. ASSUME NEW c \in Clients, Shutdown(c)
       PROVE  Same
  BY <1>10 DEF Shutdown, Logout, TypeInv, TypeOK
<1>11. CASE UNCHANGED <<at, todo, xsrf>>
  BY <1>11, <1>1
<1>12. ASSUME NEW c \in Clients, DropSession(c) \/ Expire(c)
       PROVE  Same
  BY <1>12 DEF DropSession, Expire, clientVars
<1> QED
  BY <1>1, <1>2, <1>3, <1>4, <1>6, <1>7, <1>8, <1>9, <1>10, <1>11, <1>12 DEF Next, Work, vars

-----------------------------------------------------------------------------
(* The provider's session.                                                 *)

LEMMA ReleaseStep == TypeInv /\ PerCallLeavesNothing /\ [Next]_vars => PerCallLeavesNothing'
<1> SUFFICES ASSUME TypeInv, PerCallLeavesNothing, [Next]_vars,
                    NEW d \in PerCall, at'[d] = "idle", tabid'[d] # "none"
             PROVE  FALSE
  BY DEF PerCallLeavesNothing
<1>0. d \in Clients /\ d \notin Uploaders
  BY ClientsAssumption DEF Clients
<1> USE <1>0
<1> DEFINE Same == at'[d] = at[d] /\ tabid'[d] = tabid[d]
<1>1. CASE Same
  BY <1>1 DEF PerCallLeavesNothing
<1>2. ASSUME NEW c \in Clients, Start(c) \/ StartHollow(c)
      PROVE  Same
  BY <1>2 DEF Start, StartHollow, Begin, Goto, TypeInv, TypeOK
<1>3. ASSUME NEW c \in Clients, Ensure(c)
      PROVE  Same
  BY <1>3 DEF Ensure, Login, Proceed, Goto, TypeInv, TypeOK
<1>4. ASSUME NEW c \in Clients, FetchToken(c) \/ ReadRequest(c)
      PROVE  Same
  <2>1. CASE LoginAgain(c)
    BY <2>1 DEF LoginAgain, Forget, Goto, TypeInv, TypeOK
  <2>2. CASE ReadFails(c)
    BY <2>2 DEF ReadFails, Goto, TypeInv, TypeOK
  <2>3. CASE Goto(c, "request") /\ UNCHANGED tabid
    BY <2>3 DEF Goto, TypeInv, TypeOK
  <2>4. CASE Continue(c) /\ UNCHANGED tabid
    BY <2>4 DEF Continue, Goto, TypeInv, TypeOK
  <2> QED
    BY <1>4, <2>1, <2>2, <2>3, <2>4 DEF FetchToken, ReadRequest, Read
<1>5. ASSUME NEW c \in Clients, WriteRequest(c)
      PROVE  FALSE
  <2>1. d # c /\ at'[d] = at[d]
    BY <1>5 DEF WriteRequest, Continue, Goto, TypeInv, TypeOK
  <2>2. tabid[d] = "none"
    BY <2>1 DEF PerCallLeavesNothing
  <2>3. tabid'[d] = "none"
    BY <1>5, <2>1, <2>2 DEF WriteRequest, RestartWeb, Drop, TypeInv, TypeOK
  <2> QED
    BY <2>3
<1>6. ASSUME NEW c \in Clients, Post(c) \/ Refuse(c)
      PROVE  Same
  BY <1>6 DEF Post, Refuse, Continue, Goto, TypeInv, TypeOK
<1>7. ASSUME NEW c \in Clients, Finish(c) \/ FinishUpload(c) \/ Kill(c) \/ Shutdown(c)
      PROVE  Same
  <2>1. CASE d = c
    BY <1>7, <2>1 DEF Finish, FinishUpload, Kill, Shutdown, Logout, Forget, TypeInv, TypeOK
  <2>2. CASE d # c
    BY <1>7, <2>2 DEF Finish, FinishUpload, Kill, Shutdown, Logout, Forget, Idle, Goto, TypeInv, TypeOK
  <2> QED
    BY <2>1, <2>2
<1>8. ASSUME NEW c \in Clients, DropSession(c)
      PROVE  FALSE
  <2>1. tabid[d] = "none"
    BY <1>8 DEF DropSession, PerCallLeavesNothing
  <2> QED
    BY <1>8, <2>1 DEF DropSession, Drop
<1>9. CASE UNCHANGED <<at, tabid>>
  BY <1>1, <1>9
<1>10. ASSUME NEW c \in Clients, Expire(c)
       PROVE  Same
  BY <1>10 DEF Expire, clientVars
<1> QED
  BY <1>1, <1>2, <1>3, <1>4, <1>5, <1>6, <1>7, <1>8, <1>9, <1>10 DEF Next, Work, vars

-----------------------------------------------------------------------------
(* Theorems.                                                               *)

LEMMA TypeInvariant == Spec => []TypeInv
  BY TypeInit, TypeStep, PTL DEF Spec

(* The variables stay in their types.                                      *)
THEOREM TypeCorrect == Spec => []TypeOK
<1>1. TypeInv => TypeOK
  BY DEF TypeInv
<1> QED
  BY <1>1, TypeInvariant, PTL

(* The provider's client never keeps its session past a call, whatever     *)
(* became of the call (releaseLocked, deferred by Get and Set).            *)
THEOREM ProviderReleases == Spec => []PerCallLeavesNothing
<1>1. Init => PerCallLeavesNothing
  BY ClientsAssumption DEF Init, PerCallLeavesNothing, Clients
<1> QED
  BY <1>1, TypeInvariant, ReleaseStep, PTL DEF Spec

(* However many calls of exporters and providers fail, and wherever, a     *)
(* slot is only lost to a killed process, a lost login or logout, or a     *)
(* session that the switch dropped or that was taken for dead.             *)
THEOREM FailuresCostNoSlot == Spec => []FailuresStrandNothing
<1>1. Init => RoughInv
  BY DEF Init, RoughInv, DroppedInv, FailuresStrandNothing
<1>2. RoughInv => FailuresStrandNothing
  BY DEF RoughInv
<1> QED
  BY <1>1, <1>2, TypeInvariant, RoughStep, PTL DEF Spec

(* No write is sent without a token fetched in its own session.            *)
THEOREM EveryWriteHasToken == Spec => []WritesCarryToken
<1>1. Init => WritesCarryToken
  BY DEF Init, WritesCarryToken
<1> QED
  BY <1>1, TypeInvariant, TokenStep, PTL DEF Spec
=============================================================================
