------------------------ MODULE TerraformRowsProofs -------------------------
(***************************************************************************)
(* What becomes of the rows of the appliance, for any kinds of resources   *)
(* whose flags are true to their programs: fields of others, names that    *)
(* are taken twice, rules that are left dangling, rows that are deleted.   *)
(*                                                                         *)
(* Each property depends on what an operation has asked or read before it  *)
(* writes.  The invariants say what is still true of an answer while the   *)
(* operation goes on, with other operations and other people in between.   *)
(***************************************************************************)
EXTENDS TerraformApplyProofs

USE OwnerAssumption, BoundAssumption

-----------------------------------------------------------------------------
(* What the flags say of the word an operation has come to.                *)

LEMMA FlagFacts ==
    ASSUME TypeIInv, NEW o \in Owners, op[o] # "none"
    PROVE  /\ Word(o) \in RowWrites \ {"enable", "state", "try"} => This.collection
           /\ Word(o) = "state" => This.aside
           /\ Word(o) = "insert" /\ ~This.repeats => Guarded(This[op[o]], step[o], "refuse")
           /\ Word(o) \in {"delete", "deleteid"} /\ This.named
                => Guarded(This[op[o]], step[o], "unused")
           /\ ~This.clobbers => /\ Word(o) \in DOMAIN Form => Form[Word(o)].rest # "zero"
                                /\ Carries(Word(o)) => Fetched(This[op[o]], step[o])
           /\ This.repeats => Word(o) \notin {"add", "bare"}
           /\ Word(o) \in {"insert", "saveid"} /\ This.repeats
                => /\ op[o] = "create" /\ step[o] >= Len(This.create) - 1
                   /\ This.create[Len(This.create)] = "saveid"
<1>1. op[o] \in Ops /\ step[o] \in 1..Len(This[op[o]])
  BY WordFacts
<1>2. TrueToFlags(This)
  BY DEF TypeIInv, EnvType
<1>3. QED
  BY <1>1, <1>2 DEF TrueToFlags, Word

LEMMA GuardGrows ==
    ASSUME NEW p, NEW i \in Nat \ {0}, NEW w, Guarded(p, i + 1, w)
    PROVE  p[i] \in Asks /\ (p[i] = w \/ Guarded(p, i, w))
<1>1. PICK j \in 1..i : p[j] = w /\ \A n \in j..i : p[n] \in Asks
  BY DEF Guarded
<1>2. CASE j = i
  BY <1>1, <1>2
<1>3. CASE j # i
  BY <1>1, <1>3 DEF Guarded
<1>4. QED
  BY <1>2, <1>3

LEMMA FetchGrows ==
    ASSUME NEW p, NEW i \in Nat \ {0}, Fetched(p, i + 1)
    PROVE  p[i] \notin {"list", "peek"} /\ (p[i] = "fetch" \/ Fetched(p, i))
<1>1. PICK j \in 1..i : p[j] = "fetch" /\ \A n \in j..i : p[n] \notin {"list", "peek"}
  BY DEF Fetched
<1>2. CASE j = i
  BY <1>1, <1>2
<1>3. CASE j # i
  BY <1>1, <1>3 DEF Fetched
<1>4. QED
  BY <1>2, <1>3

LEMMA NothingYet ==
    ASSUME NEW p, NEW w
    PROVE  ~Guarded(p, 1, w) /\ ~Fetched(p, 1)
  BY DEF Guarded, Fetched

-----------------------------------------------------------------------------
(* What a call does to the operations.                                     *)

(* The others go on as they were, or end with the refresh.                 *)
Bystands(b) ==
    /\ saved'[b] = saved[b] /\ outcome'[b] = outcome[b]
    /\ \/ op'[b] = op[b] /\ step'[b] = step[b] /\ carry'[b] = carry[b] /\ drawn'[b] = drawn[b]
       \/ op'[b] = "none" /\ phase = "refresh"

(* The operation itself goes on, having read if it was to read, or ends.   *)
Proceeds(o) ==
    /\ Word(o) \in Asks \cup Writes
    /\ op'[o] = op[o] /\ step'[o] = step[o] + 1
    /\ saved'[o] = saved[o] /\ outcome'[o] = outcome[o]
    /\ Word(o) # "draw" => drawn'[o] = drawn[o]
    /\ Word(o) \notin {"fetch", "list", "peek"} => carry'[o] = carry[o]
    /\ Word(o) = "fetch" => \E r \in RowsOf(o) : carry'[o] = [mine |-> r.mine, rest |-> r.rest]

LEMMA CallEnds ==
    ASSUME NEW o \in Owners, Call(o)
    PROVE  /\ op[o] # "none" /\ Unread
           /\ \/ \E s : \E r \in {op[o], "error", outcome[o]} :
                    End(o, s, r) /\ Word(o) \notin Asks \cup Writes
              \/ Fail(o)
              \/ Continue(o) /\ Word(o) \in (Asks \cup Writes) \ {"fetch", "list", "peek", "draw"}
              \/ \E c, d : /\ Asked(o, c, d)
                           /\ Word(o) \in {"fetch", "list", "peek", "draw"}
                           /\ Word(o) # "draw" => d = drawn[o]
                           /\ Word(o) = "draw" => c = carry[o]
                           /\ Word(o) = "fetch" =>
                                \E r \in RowsOf(o) : c = [mine |-> r.mine, rest |-> r.rest]
<1> USE DEF Says
<1>1. CASE Refuse(o) \/ Known(o) \/ Unused(o) \/ On(o) \/ Compare(o)
  BY <1>1 DEF Refuse, Known, Unused, On, Compare, Check, Asks
<1>2. CASE Fetch(o) \/ ListServers(o)
  BY <1>2 DEF Fetch, ListServers
<1>3. CASE Peek(o)
  BY <1>3 DEF Peek
<1>4. CASE Draw(o)
  BY <1>4 DEF Draw
<1>5. CASE \/ Enable(o) \/ SetState(o) \/ Add(o) \/ Bare(o) \/ Insert(o) \/ Edit(o)
           \/ Delete(o) \/ DeleteId(o)
  <2>1. op[o] # "none" /\ Word(o) \in RowWrites
    BY <1>5 DEF Enable, SetState, Add, Bare, Insert, Edit, Delete, DeleteId, RowWrites
  <2>2. Refused(o) \/ Sent(o, Turn(o)) \/ \E R : Send(o, R)
    BY <1>5 DEF Enable, SetState, Add, Bare, AddRow, Insert, Edit, Delete, DeleteId
  <2>3. QED
    BY <2>1, <2>2 DEF Refused, Send, Sent, RowWrites, Writes
<1>6. CASE Write(o)
  <2>1. op[o] # "none" /\ Word(o) \in DOMAIN Form /\ ((Continue(o) /\ Unread) \/ \E R : Send(o, R))
    BY <1>6 DEF Write
  <2>2. QED
    BY <2>1, FormFacts DEF Send, Sent, Writes
<1>7. CASE Try(o)
  BY <1>7 DEF Try, Writes, RowWrites
<1>8. CASE Save(o) \/ SaveId(o) \/ SaveSame(o) \/ Trust(o) \/ Gone(o)
  <2>1. op[o] # "none" /\ Unread /\ Word(o) \notin Asks \cup Writes
    BY <1>8, FormFacts
       DEF Save, SaveId, SaveSame, Trust, Gone, NothingSent, Asks, Writes, RowWrites
  <2>2. Fail(o) \/ \E s : \E r \in {op[o], "error", outcome[o]} : End(o, s, r)
    BY <1>8 DEF Save, SaveId, SaveSame, Trust, Gone, Ended
  <2>3. QED
    BY <2>1, <2>2
<1>9. CASE Find(o) \/ FindId(o) \/ Show(o)
  <2>1. op[o] # "none" /\ Unread /\ Word(o) \notin Asks \cup Writes
    BY <1>9, FormFacts DEF Find, FindId, Show, NothingSent, Asks, Writes, RowWrites
  <2>2. Fail(o) \/ \E s : \E r \in {op[o], "error", outcome[o]} : End(o, s, r)
    BY <1>9 DEF Find, FindId, Show
  <2>3. QED
    BY <2>1, <2>2
<1>10. CASE CallFails(o)
  BY <1>10 DEF CallFails
<1>11. QED
  BY <1>1, <1>2, <1>3, <1>4, <1>5, <1>6, <1>7, <1>8, <1>9, <1>10 DEF Call

LEMMA CallControls ==
    ASSUME TypeIInv, NEW o \in Owners, Call(o)
    PROVE  /\ op[o] # "none" /\ UNCHANGED <<kind, goal, called, renamed, wish, raced>>
           /\ \A b \in Owners \ {o} : Bystands(b)
           /\ op'[o] = "none" \/ Proceeds(o)
<1> USE DEF TypeIInv, LocalType
<1>1. op[o] # "none" /\ UNCHANGED <<kind, goal, called, renamed, wish, raced>>
  BY CallEnds DEF Unread, configVars
<1>2. ASSUME NEW s, NEW r, End(o, s, r)
      PROVE  op'[o] = "none" /\ \A b \in Owners \ {o} : Bystands(b)
  BY <1>2 DEF End, Idle, Bystands
<1>3. ASSUME Fail(o)
      PROVE  op'[o] = "none" /\ \A b \in Owners \ {o} : Bystands(b)
  <2>1. CASE phase = "apply"
    BY <1>3, <2>1 DEF Fail, Idle, Bystands
  <2>2. CASE phase # "apply"
    BY <1>3, <2>2 DEF Fail, Bystands
  <2>3. QED
    BY <2>1, <2>2
<1>4. ASSUME Continue(o), ~Final(o), Word(o) \in (Asks \cup Writes) \ {"fetch", "list", "peek", "draw"}
      PROVE  Proceeds(o) /\ \A b \in Owners \ {o} : Bystands(b)
  BY <1>4 DEF Continue, Bystands, Proceeds
<1>5. ASSUME NEW c, NEW d, Asked(o, c, d),
             Word(o) \in {"fetch", "list", "peek", "draw"},
             Word(o) # "draw" => d = drawn[o],
             Word(o) = "draw" => c = carry[o],
             Word(o) = "fetch" => \E r \in RowsOf(o) : c = [mine |-> r.mine, rest |-> r.rest]
      PROVE  Proceeds(o) /\ \A b \in Owners \ {o} : Bystands(b)
  BY <1>5 DEF Asked, Bystands, Proceeds, Asks
<1>6. Continue(o) /\ Final(o) => \E s, r : End(o, s, r)
  BY DEF Continue
<1>7. QED
  BY <1>1, <1>2, <1>3, <1>4, <1>5, <1>6, CallEnds

(* A call that asks changes nothing on the appliance.                      *)
LEMMA AskReads ==
    ASSUME TypeIInv, NEW o \in Owners, Call(o), Word(o) \in Asks
    PROVE  UNCHANGED deviceVars
<1>1. Word(o) \notin RowWrites /\ Word(o) \notin DOMAIN Form
  BY FormFacts DEF Asks, RowWrites
<1>2. QED
  BY <1>1 DEF Call, Refuse, Known, Unused, On, Compare, Check, Fetch, ListServers, Peek, Draw,
              Enable, SetState, Add, Bare, Insert, Write, Try, Edit, Delete, DeleteId,
              Save, SaveId, SaveSame, Trust, Gone, Find, FindId, Show, CallFails, NothingSent,
              Says, RowWrites

(* A check that is gone on from was met.                                   *)
LEMMA Answers ==
    ASSUME TypeIInv, NEW o \in Owners, Call(o), op'[o] # "none"
    PROVE  /\ Word(o) = "refuse" => Named(o) = {}
           /\ Word(o) = "unused" => \A r \in RowsOf(o) : r.rest # "y"
<1>1. ~Fail(o)
  BY DEF Fail, Idle, TypeIInv, LocalType
<1>2. Word(o) \in {"refuse", "unused"} => Refuse(o) \/ Unused(o)
  BY <1>1, FormFacts
     DEF Call, Known, On, Compare, Fetch, ListServers, Peek, Draw, Enable, SetState, Add, Bare,
         Insert, Write, Try, Edit, Delete, DeleteId, Save, SaveId, SaveSame, Trust, Gone,
         Find, FindId, Show, CallFails, Says
<1>3. QED
  BY <1>1, <1>2 DEF Refuse, Unused, Check, Says

-----------------------------------------------------------------------------
(* What a call does to the rows.                                           *)

Alone(o) == \A r, s \in RowsOf(o) : r = s

(* The rows of another key: none is added, and none but their ids change.  *)
LEMMA OthersRows ==
    ASSUME TypeIInv, NEW o \in Owners, NEW k, k # o, NEW R, After(o, R)
    PROVE  /\ \A q \in Own(R, k) : \E r \in RowsOf(k) :
                q.name = r.name /\ q.mine = r.mine /\ q.rest = r.rest /\ (~This.renumbers => q = r)
           /\ Alone(k) => \A q, p \in Own(R, k) : q = p
<1>1. DeviceType
  BY DEF TypeIInv
<1>2. CASE Own(R, k) \subseteq RowsOf(k)
  BY <1>2 DEF Alone
<1>3. CASE R = rows \/ Grown(o, R) \/ Overwritten(o, R) \/ Rekeyed(o, R)
  BY <1>2, <1>3 DEF Grown, Overwritten, Rekeyed, Own, RowsOf
<1>4. CASE Refilled(o, R)
  <2>1. Own(R, k) = Own(rows, k)
    BY <1>1, <1>4, WrittenRows DEF Refilled
  <2>2. QED
    BY <1>2, <2>1 DEF Own, RowsOf
<1>5. CASE Deleted(o, R)
  <2>1. PICK d \in rows : R = Without(d)
    BY <1>5 DEF Deleted
  <2>2. CASE ~This.renumbers
    BY <1>2, <2>1, <2>2 DEF Without, Own, RowsOf
  <2>3. CASE This.renumbers
    <3>1. R = {Closed(d, r) : r \in rows \ {d}}
      BY <2>1, <2>3 DEF Without, Closed
    <3>2. \A r \in rows : /\ Closed(d, r).key = r.key /\ Closed(d, r).name = r.name
                          /\ Closed(d, r).mine = r.mine /\ Closed(d, r).rest = r.rest
      BY <1>1, ClosedFacts
    <3>3. \A q \in Own(R, k) : \E r \in RowsOf(k) : q = Closed(d, r)
      BY <3>1, <3>2 DEF Own, RowsOf
    <3>4. \A r \in RowsOf(k) : r \in rows
      BY DEF RowsOf
    <3>5. QED
      BY <2>3, <3>2, <3>3, <3>4 DEF Alone
  <2>4. QED
    BY <2>2, <2>3
<1>6. QED
  BY <1>3, <1>4, <1>5 DEF After

(* An id that leads to another key's row makes the call a trespass.        *)
LEMMA Untrespassed ==
    ASSUME TypeIInv, IsFiniteSet(rows), NEW o \in Owners, NEW R, Change(o, R), ~trespassed',
           NEW d \in rows
    PROVE  /\ ~trespassed
           /\ R = Without(d) => d.key = o
           /\ \A s : s.key = o /\ R = (rows \ {d}) \cup {s} => d.key = o
           /\ d.key # o => \E q \in R : q.key = d.key
<1>1. ~trespassed /\ \A k \in Keys \ {o} : Content(R, k) = Content(rows, k)
  BY Zenon DEF Change
<1>2. d.key \in Keys /\ DeviceType
  BY DEF TypeIInv, DeviceType, Row
<1>3. R = Without(d) => d.key = o
  BY <1>1, <1>2, WithoutTaken
<1>4. ASSUME NEW s, s.key = o, R = (rows \ {d}) \cup {s}, d.key # o
      PROVE  FALSE
  <2>1. Own(R, d.key) \subseteq rows \ {d}
    BY <1>4 DEF Own
  <2>2. Content(R, d.key) = Content(rows, d.key)
    BY <1>1, <1>2, <1>4
  <2>3. QED
    BY <2>1, <2>2, LostRow
<1>5. ASSUME d.key # o PROVE \E q \in R : q.key = d.key
  BY <1>1, <1>2, <1>5, SameContent
<1>6. QED
  BY <1>1, <1>3, <1>4, <1>5

LEMMA WithoutKeys ==
    ASSUME DeviceType, NEW d \in rows
    PROVE  \A q \in Without(d) : \E r \in rows \ {d} : r.key = q.key /\ r.name = q.name
<1>1. Without(d) = IF This.renumbers THEN {Closed(d, r) : r \in rows \ {d}} ELSE rows \ {d}
  BY DEF Without, Closed
<1>2. \A r \in rows : Closed(d, r).key = r.key /\ Closed(d, r).name = r.name
  BY ClosedFacts
<1>3. QED
  BY <1>1, <1>2

(* A block that has one row keeps one.                                     *)
LEMMA OwnRowAlone ==
    ASSUME TypeIInv, IsFiniteSet(rows), NEW o \in Owners, NEW R, Change(o, R), After(o, R),
           ~trespassed', Alone(o), Word(o) = "insert" => RowsOf(o) = {}
    PROVE  Alone(o)'
<1>1. rows' = R
  BY DEF Change
<1>2. SUFFICES \A q, p \in Own(R, o) : q = p
  BY <1>1 DEF Alone, RowsOf, Own
<1>3. CASE R = rows
  BY <1>3 DEF Alone, RowsOf, Own
<1>4. CASE Grown(o, R) \/ Overwritten(o, R)
  <2>1. RowsOf(o) = {}
    BY <1>4 DEF Grown, Overwritten
  <2>2. QED
    BY <1>4, <2>1 DEF Grown, Overwritten, RowsOf, Own
<1>5. CASE Refilled(o, R)
  <2>1. PICK w : R = Written(o, w)
    BY <1>5 DEF Refilled
  <2>2. \A q \in Own(R, o) : \E r \in RowsOf(o) : q = Rewrite(o, w, r)
    BY <2>1 DEF Written, Own, RowsOf
  <2>3. QED
    BY <2>2 DEF Alone
<1>6. CASE Rekeyed(o, R)
  <2>1. PICK r \in rows, s \in Row : s.key = o /\ R = (rows \ {r}) \cup {s}
    BY <1>6 DEF Rekeyed
  <2>2. r.key = o
    BY <2>1, Untrespassed
  <2>3. QED
    BY <2>1, <2>2 DEF Alone, RowsOf, Own
<1>7. CASE Deleted(o, R)
  <2>1. PICK d \in rows : R = Without(d)
    BY <1>7 DEF Deleted
  <2>2. d.key = o
    BY <2>1, Untrespassed
  <2>3. ASSUME NEW q \in Own(R, o) PROVE FALSE
    <3>1. PICK r \in rows \ {d} : r.key = q.key
      BY <2>1, <2>3, WithoutKeys DEF TypeIInv, Own
    <3>2. QED
      BY <2>2, <2>3, <3>1 DEF Alone, RowsOf, Own
  <2>4. QED
    BY <2>3
<1>8. QED
  BY <1>3, <1>4, <1>5, <1>6, <1>7 DEF After

(* A row that is alone and is taken away leaves none of its key.           *)
LEMMA NoneLeft ==
    ASSUME TypeIInv, NEW o \in Owners, Alone(o), NEW d \in rows, d.key = o, rows' = Without(d)
    PROVE  RowsOf(o)' = {}
<1>1. \A q \in rows' : \E r \in rows \ {d} : r.key = q.key
  BY WithoutKeys DEF TypeIInv
<1>2. QED
  BY <1>1 DEF Alone, RowsOf

-----------------------------------------------------------------------------
(* What somebody else does to the rows of a key.                           *)

LEMMA SomebodyElseRows ==
    ASSUME TypeIInv, SomebodyElse, NEW o \in Owners
    PROVE  /\ UNCHANGED <<kind, goal, called, renamed, saved, phase, op, step, carry, drawn,
                          outcome, trespassed, dangling, faults>>
           /\ raced => raced'
           /\ meddled \subseteq meddled'
           /\ \/ \A q \in RowsOf(o)' : \E r \in RowsOf(o) :
                    /\ q.name = r.name
                    /\ ~This.renumbers => q.id = r.id
                    /\ q.mine = r.mine \/ o \in meddled'
                    /\ q.rest = r.rest \/ op[o] = "none" \/ raced'
              \/ /\ ~This.collection /\ o = First /\ rows = {} /\ o \in meddled'
                 /\ \A q \in RowsOf(o)' : q.name = called[o] /\ q.rest = "x"
           /\ Alone(o) => Alone(o)'
<1>1. /\ UNCHANGED <<kind, goal, called, renamed, saved, phase, op, step, carry, drawn, outcome,
                     trespassed, dangling, faults>>
      /\ meddled \subseteq meddled'
  BY DEF SomebodyElse, SetMine, SetRest, Remove, Appear, SetBeside, Elsewhere, localVars,
         configVars, TypeIInv, DeviceType
<1>2. DeviceType
  BY DEF TypeIInv
<1> DEFINE Same == \A q \in RowsOf(o)' : \E r \in RowsOf(o) :
                       /\ q.name = r.name
                       /\ ~This.renumbers => q.id = r.id
                       /\ q.mine = r.mine \/ o \in meddled'
                       /\ q.rest = r.rest \/ op[o] = "none" \/ raced'
<1>3. ASSUME NEW r \in rows, NEW m \in Edits(r), SetMine(r, m)
      PROVE  Same /\ (Alone(o) => Alone(o)')
  <2> DEFINE s == [r EXCEPT !.mine = m]
  <2>1. rows' = (rows \ {r}) \cup {s} /\ (r.key = o => o \in meddled')
    BY <1>3 DEF SetMine
  <2>2. s.key = r.key /\ s.name = r.name /\ s.id = r.id /\ s.rest = r.rest
    BY <1>2 DEF DeviceType, Row
  <2> HIDE DEF s
  <2>3. QED
    BY <2>1, <2>2 DEF RowsOf, Alone
<1>4. ASSUME NEW r \in rows, NEW q \in {"x", "y"}, SetRest(r, q)
      PROVE  Same /\ (Alone(o) => Alone(o)')
  <2> DEFINE s == [r EXCEPT !.rest = q]
  <2>1. rows' = (rows \ {r}) \cup {s} /\ (r.key = o => op[o] = "none" \/ raced')
    BY <1>4 DEF SetRest
  <2>2. s.key = r.key /\ s.name = r.name /\ s.id = r.id /\ s.mine = r.mine
    BY <1>2 DEF DeviceType, Row
  <2> HIDE DEF s
  <2>3. QED
    BY <2>1, <2>2 DEF RowsOf, Alone
<1>5. ASSUME NEW d \in rows, Remove(d)
      PROVE  Same /\ (Alone(o) => Alone(o)')
  <2>1. rows' = IF This.renumbers THEN {Closed(d, r) : r \in rows \ {d}} ELSE rows \ {d}
    BY <1>5 DEF Remove, Without, Closed
  <2>2. \A r \in rows : /\ Closed(d, r).key = r.key /\ Closed(d, r).name = r.name
                        /\ Closed(d, r).mine = r.mine /\ Closed(d, r).rest = r.rest
    BY <1>2, ClosedFacts
  <2>3. CASE This.renumbers
    <3>1. \A q \in RowsOf(o)' : \E r \in RowsOf(o) : q = Closed(d, r)
      BY <2>1, <2>2, <2>3 DEF RowsOf
    <3>2. \A r \in RowsOf(o) : r \in rows
      BY DEF RowsOf
    <3>3. QED
      BY <2>2, <2>3, <3>1, <3>2 DEF Alone
  <2>4. CASE ~This.renumbers
    BY <2>1, <2>4 DEF RowsOf, Alone
  <2>5. QED
    BY <2>3, <2>4
<1>6. ASSUME Appear
      PROVE  /\ \/ Same
                \/ /\ ~This.collection /\ o = First /\ rows = {} /\ o \in meddled'
                   /\ \A q \in RowsOf(o)' : q.name = called[o] /\ q.rest = "x"
             /\ Alone(o) => Alone(o)'
  <2> DEFINE k == IF This.collection THEN Stranger ELSE First
             new == NewRow(Fresh, k, Both("off"))
  <2>1. rows' = rows \cup {new}
    BY <1>6 DEF Appear
  <2>2. new.key = k /\ new.rest = "x" /\ (k = o => new.name = called[o])
    BY DEF NewRow
  <2>3. ~This.collection => rows = {} /\ First \in meddled'
    BY <1>6 DEF Appear
  <2>4. k = o => ~This.collection /\ o = First
    OBVIOUS
  <2> HIDE DEF new, k
  <2>5. CASE k # o
    <3>1. RowsOf(o)' = RowsOf(o)
      BY <2>1, <2>2, <2>5 DEF RowsOf
    <3>2. QED
      BY <3>1 DEF Alone
  <2>6. CASE k = o
    <3>1. RowsOf(o)' \subseteq {new}
      BY <2>1, <2>3, <2>4, <2>6 DEF RowsOf
    <3>2. QED
      BY <2>2, <2>3, <2>4, <2>6, <3>1 DEF Alone
  <2>7. QED
    BY <2>5, <2>6
<1>7. raced => raced'
  BY Zenon DEF SomebodyElse, SetMine, SetRest, Remove, Appear, SetBeside
<1>8. ASSUME NEW v, SetBeside(v) PROVE Same /\ (Alone(o) => Alone(o)')
  BY <1>8 DEF SetBeside, RowsOf, Alone
<1>9. QED
  BY <1>1, <1>3, <1>4, <1>5, <1>6, <1>7, <1>8 DEF SomebodyElse

-----------------------------------------------------------------------------
(* Terraform itself writes nothing on the appliance; operations begin at   *)
(* their first word.  With a block's name it is another row that is the    *)
(* block's.                                                                *)
TerraformStep ==
    \/ StartRun \/ Plan \/ Kill
    \/ \E o \in Owners : Import(o)
    \/ \E o \in Owners, g \in Goals \cup {"none"}, n \in Labels : Configure(o, g, n)
Renaming(o) ==
    /\ This.collection /\ ~This.repeats
    /\ called'[o] # called[o] /\ outcome'[o] = "none"
    /\ IF saved[o] = NoState
       THEN /\ renamed' = renamed
            /\ \E S \in {{}} \cup {{r} : r \in RowsOf(Stranger)} :
                rows' = Relabelled(o, called'[o], S)
       ELSE renamed' = renamed \cup {o}
    /\ \A b \in Owners \ {o} : RowsOf(b)' = RowsOf(b) /\ called'[b] = called[b]

LEMMA TerraformQuiet ==
    ASSUME TypeIInv, TerraformStep
    PROVE  /\ UNCHANGED <<kind, wish, raced, trespassed, dangling>>
           /\ UNCHANGED <<rows, called, renamed>> \/ \E o \in Owners : Renaming(o)
           /\ faults' = 0 => faults = 0
           /\ \A o \in Owners : op'[o] # "none" => step'[o] = 1
<1> USE DEF TypeIInv, LocalType, Ready
<1>1. CASE StartRun
  BY <1>1 DEF StartRun, Resting, configVars
<1>2. CASE Plan
  BY <1>2 DEF Plan, configVars
<1>3. CASE Kill
  BY <1>3 DEF Kill, EnvType, configVars
<1>4. CASE \E o \in Owners : Import(o)
  BY <1>4 DEF Import, Resting, localVars, configVars
<1>5. ASSUME NEW o \in Owners, NEW g \in Goals \cup {"none"}, NEW n \in Labels, Configure(o, g, n)
      PROVE  /\ UNCHANGED <<kind, wish, raced, trespassed, dangling>>
             /\ UNCHANGED <<rows, called, renamed>> \/ Renaming(o)
             /\ faults' = 0 => faults = 0
             /\ \A b \in Owners : op'[b] # "none" => step'[b] = 1
  <2>1. /\ UNCHANGED <<kind, wish, raced, trespassed, dangling, faults>>
        /\ \A b \in Owners : op'[b] # "none" => step'[b] = 1
    BY <1>5 DEF Configure, Resting, localVars
  <2>2. called' = [called EXCEPT ![o] = n] /\ called \in [Owners -> Labels]
    BY <1>5 DEF Configure, EnvType
  <2>3. CASE n = called[o] /\ UNCHANGED <<rows, renamed>>
    BY <2>1, <2>2, <2>3
  <2>4. CASE /\ n # called[o] /\ This.renames
             /\ \E S \in {{}} \cup {{r} : r \in RowsOf(Stranger)} : rows' = Relabelled(o, n, S)
             /\ renamed' = IF saved[o] = NoState THEN renamed ELSE renamed \cup {o}
    <3>1. called'[o] = n /\ \A b \in Owners \ {o} : called'[b] = called[b]
      BY <2>2
    <3>2. \A b \in Owners \ {o} : RowsOf(b)' = RowsOf(b)
      <4>1. \A b \in Owners \ {o} : /\ \A r \in rows : r.key = b => r \in rows'
                                   /\ \A r \in rows' : r.key = b => r \in rows
        BY <1>5, ConfigureOthers
      <4>2. QED
        BY <4>1 DEF RowsOf
    <3>3. This.collection /\ ~This.repeats /\ outcome'[o] = "none"
      BY <1>5, <2>4 DEF EnvType, TrueToFlags, Configure
    <3>4. Renaming(o)
      BY <2>4, <3>1, <3>2, <3>3 DEF Renaming
    <3>5. QED
      BY <2>1, <3>4
  <2>5. QED
    BY <1>5, <2>3, <2>4 DEF Configure
<1>6. QED
  BY <1>1, <1>2, <1>3, <1>4, <1>5 DEF TerraformStep

-----------------------------------------------------------------------------
(* Names that are taken twice.                                             *)

(* An operation has the answer w, and has written nothing since.           *)
Knows(o, w) == op[o] # "none" /\ Guarded(This[op[o]], step[o], w)

(* The rows of a block have its name, unless it was given another while it *)
(* was in the state.                                                       *)
NameIInv == \A o \in Owners \ renamed : \A r \in RowsOf(o) : r.name = called[o]

LEMMA OwnRowNames ==
    ASSUME TypeIInv, NEW o \in Owners, NEW R, After(o, R), NEW q \in Own(R, o)
    PROVE  q.name = called[o] \/ \E r \in RowsOf(o) : q.name = r.name
<1>1. DeviceType
  BY DEF TypeIInv
<1>2. CASE R = rows \/ Grown(o, R) \/ Overwritten(o, R) \/ Rekeyed(o, R)
  BY <1>2 DEF Grown, Overwritten, Rekeyed, Own, RowsOf
<1>3. CASE Refilled(o, R)
  <2>1. PICK w : R = Written(o, w)
    BY <1>3 DEF Refilled
  <2>2. PICK r \in rows : q = IF r.key = o THEN Rewrite(o, w, r) ELSE r
    BY <2>1 DEF Written, Own
  <2>3. Rewrite(o, w, r).key = r.key /\ Rewrite(o, w, r).name = r.name
    BY <1>1, WrittenRows
  <2>4. QED
    BY <2>2, <2>3 DEF Own, RowsOf
<1>4. CASE Deleted(o, R)
  <2>1. PICK d \in rows : R = Without(d)
    BY <1>4 DEF Deleted
  <2>2. PICK r \in rows : r.key = q.key /\ r.name = q.name
    BY <1>1, <2>1, WithoutKeys DEF Own
  <2>3. QED
    BY <2>2 DEF Own, RowsOf
<1>5. QED
  BY <1>2, <1>3, <1>4 DEF After

LEMMA Relabels ==
    ASSUME TypeIInv, NEW o \in Owners, Renaming(o), saved[o] = NoState
    PROVE  (\A q \in RowsOf(o)' : q.name = called'[o]) /\ Alone(o)'
<1> DEFINE n == called'[o]
           Taken(r) == [r EXCEPT !.key = o, !.name = n]
           Left(r) == [r EXCEPT !.key = Stranger, !.name = 1]
<1>1. PICK S \in {{}} \cup {{r} : r \in RowsOf(Stranger)} : rows' = Relabelled(o, n, S)
  BY DEF Renaming
<1>2. /\ \A r \in rows : Taken(r).key = o /\ Taken(r).name = n /\ Left(r).key # o
      /\ S \subseteq rows /\ \A r, s \in S : r = s
  BY DEF RowsOf, TypeIInv, DeviceType, Row
<1>3. \A q \in rows' : \E r \in rows : q = IF r \in S THEN Taken(r) ELSE IF r.key = o THEN Left(r) ELSE r
  BY <1>1 DEF Relabelled
<1> HIDE DEF n, Taken, Left
<1>4. \A q \in RowsOf(o)' : \E r \in S : q = Taken(r)
  BY <1>2, <1>3 DEF RowsOf
<1>5. QED
  BY <1>2, <1>4 DEF Alone, n

LEMMA NameInductive == TrueFlags /\ Spec => []NameIInv
<1>1. Init => NameIInv
  <2> SUFFICES ASSUME Init, NEW o \in Owners, NEW r \in RowsOf(o) PROVE r.name = called[o]
    BY DEF NameIInv
  <2>1. called[o] = 1 /\ r.name = 1
    BY DEF Init, RowsOf
  <2>2. QED
    BY <2>1
<1>2. TypeIInv /\ NameIInv /\ [Next]_vars => NameIInv'
  <2> SUFFICES ASSUME TypeIInv, NameIInv, [Next]_vars PROVE NameIInv'
    OBVIOUS
  <2>1. ASSUME NEW o \in Owners, Call(o) PROVE NameIInv'
    <3>1. UNCHANGED <<called, renamed>>
      BY <2>1, CallControls
    <3>2. CASE Steady
      BY <3>1, <3>2 DEF Steady, NameIInv, RowsOf
    <3>3. ASSUME NEW R, Change(o, R), After(o, R), NEW b \in Owners \ renamed, NEW q \in Own(R, b)
          PROVE  q.name = called[b]
      <4>1. q.name = called[b] \/ \E r \in RowsOf(b) : q.name = r.name
        BY <3>3, OwnRowNames, OthersRows
      <4>2. QED
        BY <4>1 DEF NameIInv
    <3>4. QED
      BY <2>1, <3>1, <3>2, <3>3, CallChanges DEF Change, NameIInv, RowsOf, Own
  <2>2. CASE TerraformStep
    <3>1. CASE UNCHANGED <<rows, called, renamed>>
      BY <3>1 DEF NameIInv, RowsOf
    <3>2. ASSUME NEW o \in Owners, Renaming(o) PROVE NameIInv'
      <4>1. ASSUME NEW b \in Owners \ {o}, b \notin renamed'
            PROVE  \A r \in RowsOf(b)' : r.name = called'[b]
        BY <3>2, <4>1 DEF Renaming, NameIInv
      <4>2. o \notin renamed' => \A r \in RowsOf(o)' : r.name = called'[o]
        BY <3>2, Relabels DEF Renaming
      <4>3. QED
        BY <4>1, <4>2 DEF NameIInv
    <3>3. QED
      BY <2>2, <3>1, <3>2, TerraformQuiet
  <2>3. CASE SomebodyElse
    BY <2>3, SomebodyElseRows DEF NameIInv
  <2>4. CASE UNCHANGED vars
    BY <2>4 DEF vars, NameIInv, RowsOf
  <2>5. QED
    BY <2>1, <2>2, <2>3, <2>4 DEF Next, TerraformStep
<1>3. QED
  BY <1>1, <1>2, TypeInductive, PTL DEF Spec

(* Such a block has one row at most, and a Create that has looked has none *)
(* yet.                                                                    *)
AloneIInv ==
    ~This.repeats /\ ~trespassed =>
        \A o \in Owners \ renamed :
            Alone(o) /\ (This.collection /\ Knows(o, "refuse") => RowsOf(o) = {})

LEMMA KnowsGrows ==
    ASSUME TypeIInv, NEW o \in Owners, Call(o), NEW w, Knows(o, w)'
    PROVE  Word(o) \in Asks /\ (Word(o) = w \/ Knows(o, w))
<1>1. op[o] # "none" /\ Proceeds(o) /\ This' = This
  BY CallControls DEF Knows, This
<1>2. Guarded(This[op[o]], step[o] + 1, w)
  BY <1>1 DEF Knows, Proceeds
<1>3. step[o] \in Nat \ {0}
  BY <1>1, WordFacts
<1>4. QED
  BY <1>1, <1>2, <1>3, GuardGrows DEF Knows, Word

LEMMA AloneCall ==
    ASSUME TypeIInv, FollowIInv, NameIInv, AloneIInv, NEW o \in Owners, Call(o)
    PROVE  AloneIInv'
<1>1. Steady \/ \E R : Change(o, R) /\ After(o, R)
  BY CallChanges
<1>2. /\ op[o] # "none" /\ This' = This /\ renamed' = renamed
      /\ \A b \in Owners \ {o} : Bystands(b)
  BY CallControls DEF This
<1>3. SUFFICES ASSUME ~This.repeats, ~trespassed', NEW b \in Owners \ renamed
               PROVE  Alone(b)' /\ (This.collection /\ Knows(b, "refuse")' => RowsOf(b)' = {})
  BY <1>2 DEF AloneIInv
<1>4. ~trespassed
  BY <1>1, <1>3, Zenon DEF Steady, Change
<1>5. Alone(b) /\ (This.collection /\ Knows(b, "refuse") => RowsOf(b) = {})
  BY <1>3, <1>4 DEF AloneIInv
<1>6. CASE Steady /\ b # o
  <2>1. Knows(b, "refuse")' => Knows(b, "refuse")
    BY <1>2, <1>6 DEF Bystands, Knows
  <2>2. QED
    BY <1>5, <1>6, <2>1 DEF Steady, Alone, RowsOf
<1>7. ASSUME NEW R, Change(o, R), After(o, R), b # o
      PROVE  Alone(b)' /\ (This.collection /\ Knows(b, "refuse")' => RowsOf(b)' = {})
  <2>1. Knows(b, "refuse")' => Knows(b, "refuse")
    BY <1>2, <1>7 DEF Bystands, Knows
  <2>2. RowsOf(b)' = Own(R, b)
    BY <1>7 DEF Change, RowsOf, Own
  <2>3. QED
    BY <1>5, <1>7, <2>1, <2>2, OthersRows DEF Alone
<1>8. CASE b = o
  <2>1. Alone(o)'
    <3>1. CASE Steady
      BY <1>5, <1>8, <3>1 DEF Steady, Alone, RowsOf
    <3>2. ASSUME NEW R, Change(o, R), After(o, R)
          PROVE  Alone(o)'
      <4>1. Word(o) = "insert" => RowsOf(o) = {}
        BY <1>2, <1>3, <1>5, <1>8, FlagFacts DEF Knows, RowWrites
      <4>2. IsFiniteSet(rows)
        BY DEF FollowIInv
      <4>3. QED
        BY <1>3, <1>5, <1>8, <3>2, <4>1, <4>2, OwnRowAlone
    <3>3. QED
      BY <1>1, <3>1, <3>2
  <2>2. ASSUME This.collection, Knows(o, "refuse")'
        PROVE  RowsOf(o)' = {}
    <3>1. Word(o) \in Asks /\ (Word(o) = "refuse" \/ Knows(o, "refuse"))
      BY <2>2, KnowsGrows
    <3>2. rows' = rows
      BY <3>1, AskReads DEF deviceVars
    <3>3. Word(o) = "refuse" => RowsOf(o) = {}
      BY <1>3, <1>8, <2>2, Answers DEF Knows, NameIInv, Named
    <3>4. QED
      BY <1>5, <1>8, <2>2, <3>1, <3>2, <3>3 DEF RowsOf
  <2>3. QED
    BY <1>8, <2>1, <2>2
<1>9. QED
  BY <1>1, <1>6, <1>7, <1>8

LEMMA AloneInductive == TrueFlags /\ Spec => []AloneIInv
<1>1. Init => AloneIInv
  <2> SUFFICES ASSUME Init PROVE AloneIInv
    OBVIOUS
  <2>1. PICK r : rows = {r}
    BY DEF Init
  <2>2. \A o \in Owners : op[o] = "none"
    BY DEF Init
  <2>3. QED
    BY <2>1, <2>2 DEF AloneIInv, Alone, RowsOf, Knows
<1>2. TypeIInv /\ FollowIInv /\ NameIInv /\ AloneIInv /\ [Next]_vars => AloneIInv'
  <2> SUFFICES ASSUME TypeIInv, FollowIInv, NameIInv, AloneIInv, [Next]_vars PROVE AloneIInv'
    OBVIOUS
  <2>1. CASE \E o \in Owners : Call(o)
    BY <2>1, AloneCall
  <2>2. CASE TerraformStep
    <3>1. /\ UNCHANGED <<kind, trespassed>>
          /\ \A o \in Owners : op'[o] # "none" => step'[o] = 1
      BY <2>2, TerraformQuiet
    <3>2. \A o \in Owners : ~Knows(o, "refuse")'
      BY <3>1, NothingYet DEF Knows
    <3>3. CASE UNCHANGED <<rows, called, renamed>>
      BY <3>1, <3>2, <3>3 DEF AloneIInv, Alone, RowsOf, This
    <3>4. ASSUME NEW o \in Owners, Renaming(o), ~This.repeats, ~trespassed,
                 NEW b \in Owners, b \notin renamed'
          PROVE  Alone(b)'
      <4>1. CASE b = o
        BY <3>4, <4>1, Relabels DEF Renaming
      <4>2. CASE b # o
        BY <3>4, <4>2 DEF Renaming, AloneIInv, Alone
      <4>3. QED
        BY <4>1, <4>2
    <3>5. QED
      BY <2>2, <3>1, <3>2, <3>3, <3>4, TerraformQuiet DEF AloneIInv, This
  <2>3. CASE SomebodyElse
    <3>1. UNCHANGED <<kind, renamed, op, step, trespassed>>
      BY <2>3, SomebodyElseRows
    <3>2. This' = This /\ \A o \in Owners : Knows(o, "refuse")' => Knows(o, "refuse")
      BY <3>1 DEF Knows, This
    <3>3. ASSUME NEW o \in Owners
          PROVE  /\ Alone(o) => Alone(o)'
                 /\ This.collection /\ RowsOf(o) = {} => RowsOf(o)' = {}
      BY <2>3, SomebodyElseRows
    <3>4. QED
      BY <3>1, <3>2, <3>3 DEF AloneIInv
  <2>4. CASE UNCHANGED vars
    BY <2>4 DEF vars, AloneIInv, Alone, RowsOf, Knows, This
  <2>5. QED
    BY <2>1, <2>2, <2>3, <2>4 DEF Next, TerraformStep
<1>3. QED
  BY <1>1, <1>2, TypeInductive, FollowInductive, NameInductive, PTL DEF Spec

(* No block has two rows, as long as Create looks for its name before it   *)
(* adds and no operation trespasses: whatever is lost, killed or changed   *)
(* by others between the look and the row, and whatever names it has had   *)
(* before it was in the state.  Not for a block that was given another     *)
(* name while it was: Update does not look for a row that has it.          *)
THEOREM OneRowPerName == TrueFlags /\ Spec => []NoDuplicateRows
<1>1. AloneIInv => NoDuplicateRows
  BY DEF AloneIInv, Alone, NoDuplicateRows
<1>2. QED
  BY <1>1, AloneInductive, PTL

-----------------------------------------------------------------------------
(* Fields of others.                                                       *)

(* A setting is one row.  What an operation has read of its other fields   *)
(* is what they were last set to.                                          *)
RestIInv ==
    ~This.collection =>
        /\ \A r, s \in rows : r = s
        /\ \A r \in rows : r.key = First
        /\ ~This.clobbers /\ ~raced =>
            /\ \A r \in rows : r.rest = wish
            /\ op[First] # "none" /\ Fetched(This[op[First]], step[First])
                => carry[First].rest = wish

(* A setting's row is neither made nor taken by a call; its other fields   *)
(* are left alone, or sent as they were read.                              *)
LEMMA SettingRows ==
    ASSUME TypeIInv, RestIInv, ~This.collection, NEW o \in Owners, Call(o)
    PROVE  /\ \A p, q \in rows' : p = q
           /\ \A q \in rows' : q.key = First
           /\ ~This.clobbers /\ ~raced => \A q \in rows' : q.rest = wish
<1>1. op[o] # "none"
  BY CallControls
<1>2. Steady \/ \E R : Change(o, R) /\ After(o, R)
  BY CallChanges
<1>3. CASE Steady
  BY <1>3 DEF Steady, RestIInv
<1>4. ASSUME NEW R, Change(o, R), After(o, R)
      PROVE  /\ \A p, q \in R : p = q
             /\ \A q \in R : q.key = First
             /\ ~This.clobbers /\ ~raced => \A q \in R : q.rest = wish
  <2>1. Word(o) \notin RowWrites \ {"enable", "state", "try"}
    BY <1>1, FlagFacts
  <2>2. ~Grown(o, R) /\ ~Overwritten(o, R) /\ ~Rekeyed(o, R) /\ ~Deleted(o, R)
    BY <2>1 DEF Grown, Overwritten, Rekeyed, Deleted, RowWrites
  <2>3. CASE R = rows
    BY <2>3 DEF RestIInv
  <2>4. CASE Refilled(o, R)
    <3>1. PICK w \in DOMAIN Form : /\ Word(o) = w \/ (Word(o) = "try" /\ w = "merge")
                                  /\ R = Written(o, w)
      BY <2>4 DEF Refilled
    <3>2. \A r \in rows : Rewrite(o, w, r).key = r.key
      BY WrittenRows DEF TypeIInv
    <3>3. ASSUME ~This.clobbers, ~raced, NEW r \in rows, r.key = o
          PROVE  Rewrite(o, w, r).rest = wish
      <4>1. o = First /\ r.rest = wish /\ r \in Row
        BY <3>3 DEF RestIInv, TypeIInv, DeviceType
      <4>2. /\ Word(o) \in DOMAIN Form => Form[Word(o)].rest # "zero"
            /\ Carries(Word(o)) => Fetched(This[op[o]], step[o])
        BY <1>1, <3>3, FlagFacts
      <4>3. Form[w].rest = "carried" => carry[o].rest = wish
        BY <1>1, <3>1, <3>3, <4>1, <4>2 DEF RestIInv, Carries
      <4>4. Form[w].rest \in {"kept", "carried"}
        BY <3>1, <4>2 DEF Form
      <4>5. QED
        BY <4>1, <4>3, <4>4 DEF Rewrite, Row
    <3>4. QED
      BY <3>1, <3>2, <3>3 DEF Written, RestIInv
  <2>5. QED
    BY <1>4, <2>2, <2>3, <2>4 DEF After
<1>5. QED
  BY <1>2, <1>3, <1>4 DEF Change

LEMMA RestCall ==
    ASSUME TypeIInv, RestIInv, NEW o \in Owners, Call(o)
    PROVE  RestIInv'
<1>1. op[o] # "none" /\ UNCHANGED <<kind, wish, raced>> /\ This' = This
  BY CallControls DEF This
<1>2. SUFFICES ASSUME ~This.collection
               PROVE  ~This.clobbers /\ ~raced /\ op'[First] # "none"
                        /\ Fetched(This[op'[First]], step'[First]) => carry'[First].rest = wish
  BY <1>1, SettingRows DEF RestIInv
<1>3. CASE o # First
  BY <1>2, <1>3, CallControls DEF Bystands, RestIInv
<1>4. CASE o = First
  <2> SUFFICES ASSUME ~This.clobbers, ~raced, op'[o] # "none", Fetched(This[op'[o]], step'[o])
               PROVE  carry'[o].rest = wish
    BY <1>4
  <2>1. Proceeds(o)
    BY CallControls
  <2>2. Word(o) \notin {"list", "peek"} /\ (Word(o) = "fetch" \/ Fetched(This[op[o]], step[o]))
    <3>1. step[o] \in Nat \ {0} /\ Fetched(This[op[o]], step[o] + 1)
      BY <1>1, <2>1, WordFacts DEF Proceeds
    <3>2. QED
      BY <3>1, FetchGrows DEF Word
  <2>3. CASE Word(o) = "fetch"
    <3>1. PICK r \in rows : carry'[o] = [mine |-> r.mine, rest |-> r.rest]
      BY <2>1, <2>3 DEF Proceeds, RowsOf
    <3>2. r.rest = wish
      BY <1>2 DEF RestIInv
    <3>3. QED
      BY <3>1, <3>2
  <2>4. CASE Word(o) # "fetch"
    BY <1>1, <1>2, <1>4, <2>1, <2>2, <2>4 DEF Proceeds, RestIInv
  <2>5. QED
    BY <2>3, <2>4
<1>5. QED
  BY <1>3, <1>4

LEMMA RestSomebodyElse ==
    ASSUME TypeIInv, RestIInv, SomebodyElse
    PROVE  RestIInv'
<1>1. UNCHANGED <<kind, op, step, carry>> /\ This' = This
  BY DEF SomebodyElse, SetMine, SetRest, Remove, Appear, SetBeside, Elsewhere, localVars, This
<1>2. SUFFICES ASSUME ~This.collection
               PROVE  /\ \A r, s \in rows' : r = s
                      /\ \A r \in rows' : r.key = First
                      /\ ~This.clobbers /\ ~raced' =>
                          /\ \A r \in rows' : r.rest = wish'
                          /\ op[First] # "none" /\ Fetched(This[op[First]], step[First])
                                => carry[First].rest = wish'
  BY <1>1 DEF RestIInv
<1>3. /\ \A r, s \in rows : r = s
      /\ \A r \in rows : r \in Row /\ r.key = First
      /\ ~This.clobbers /\ ~raced =>
          /\ \A r \in rows : r.rest = wish
          /\ op[First] # "none" /\ Fetched(This[op[First]], step[First])
                => carry[First].rest = wish
  BY <1>2 DEF RestIInv, TypeIInv, DeviceType
<1>4. ASSUME NEW r \in rows, NEW m, SetMine(r, m)
      PROVE  /\ rows' = {[r EXCEPT !.mine = m]} /\ UNCHANGED <<wish, raced>>
             /\ [r EXCEPT !.mine = m].key = r.key
             /\ [r EXCEPT !.mine = m].rest = r.rest
  <2>1. rows' = (rows \ {r}) \cup {[r EXCEPT !.mine = m]} /\ rows = {r} /\ r \in Row
    BY <1>3, <1>4 DEF SetMine
  <2>2. UNCHANGED <<wish, raced>>
    BY <1>4 DEF SetMine
  <2>3. QED
    BY <2>1, <2>2 DEF Row
<1>5. ASSUME NEW r \in rows, NEW q \in {"x", "y"}, SetRest(r, q)
      PROVE  /\ rows' = {[r EXCEPT !.rest = q]} /\ wish' = q
             /\ raced' = (raced \/ op[First] # "none")
             /\ [r EXCEPT !.rest = q].key = r.key
             /\ [r EXCEPT !.rest = q].rest = q
  <2>1. rows' = (rows \ {r}) \cup {[r EXCEPT !.rest = q]} /\ rows = {r} /\ r \in Row
    BY <1>3, <1>5 DEF SetRest
  <2>2. r.key = First
    BY <1>3
  <2>3. wish' = q /\ raced' = (raced \/ op[First] # "none")
    BY <1>2, <1>5, <2>2 DEF SetRest
  <2>4. QED
    BY <2>1, <2>3 DEF Row
<1>6. ASSUME NEW d \in rows, Remove(d)
      PROVE  rows' = {} /\ UNCHANGED <<wish, raced>>
  <2>1. rows' = Without(d) /\ UNCHANGED <<wish, raced>>
    BY <1>6 DEF Remove
  <2>2. QED
    BY <1>3, <2>1, WithoutKeys DEF TypeIInv
<1>7. CASE Appear
  <2> DEFINE new == NewRow(Fresh, First, Both("off"))
  <2>1. rows' = {new} /\ wish' = "x" /\ raced' = (raced \/ op[First] # "none")
    BY <1>2, <1>7 DEF Appear
  <2>2. new.key = First /\ new.rest = "x"
    BY DEF NewRow
  <2> HIDE DEF new
  <2>3. QED
    BY <2>1, <2>2
<1>8. CASE \E r \in rows : \E m \in Edits(r) : SetMine(r, m)
  <2>1. PICK r \in rows : \E m \in Edits(r) : SetMine(r, m)
    BY <1>8
  <2>2. PICK m : SetMine(r, m)
    BY <2>1
  <2> DEFINE s == [r EXCEPT !.mine = m]
  <2>3. rows' = {s} /\ s.key = r.key /\ s.rest = r.rest /\ UNCHANGED <<wish, raced>>
    BY <1>4, <2>2
  <2> HIDE DEF s
  <2>4. QED
    BY <1>3, <2>3
<1>9. CASE \E r \in rows : \E q \in {"x", "y"} : SetRest(r, q)
  <2>1. PICK r \in rows, q \in {"x", "y"} : SetRest(r, q)
    BY <1>9
  <2> DEFINE s == [r EXCEPT !.rest = q]
  <2>2. /\ rows' = {s} /\ s.key = r.key /\ s.rest = q /\ wish' = q
        /\ raced' = (raced \/ op[First] # "none")
    BY <1>5, <2>1
  <2> HIDE DEF s
  <2>3. QED
    BY <1>3, <2>2
<1>10. CASE \E d \in rows : Remove(d)
  BY <1>3, <1>6, <1>10
<1>11. CASE \E v : SetBeside(v)
  BY <1>3, <1>11 DEF SetBeside
<1>12. QED
  BY <1>7, <1>8, <1>9, <1>10, <1>11 DEF SomebodyElse

LEMMA RestInductive == TrueFlags /\ Spec => []RestIInv
<1>1. Init => RestIInv
  <2> SUFFICES ASSUME Init, ~This.collection PROVE RestIInv
    BY DEF RestIInv
  <2>1. PICK r : rows = {r} /\ r.key = First /\ r.rest = "x" /\ wish = "x"
    BY DEF Init
  <2>2. op[First] = "none"
    BY DEF Init
  <2>3. QED
    BY <2>1, <2>2 DEF RestIInv
<1>2. TypeIInv /\ RestIInv /\ [Next]_vars => RestIInv'
  <2> SUFFICES ASSUME TypeIInv, RestIInv, [Next]_vars PROVE RestIInv'
    OBVIOUS
  <2>1. CASE \E o \in Owners : Call(o)
    BY <2>1, RestCall
  <2>2. CASE TerraformStep
    <3>1. /\ UNCHANGED <<kind, wish, raced>> /\ (~This.collection => rows' = rows)
          /\ op'[First] # "none" => step'[First] = 1
      BY <2>2, TerraformQuiet DEF Renaming
    <3>2. QED
      BY <3>1, NothingYet DEF RestIInv, This
  <2>3. CASE SomebodyElse
    BY <2>3, RestSomebodyElse
  <2>4. CASE UNCHANGED vars
    BY <2>4 DEF vars, RestIInv, This
  <2>5. QED
    BY <2>1, <2>2, <2>3, <2>4 DEF Next, TerraformStep
<1>3. QED
  BY <1>1, <1>2, TypeInductive, PTL DEF Spec

(* What a setting does not manage stays as it was last set on the same     *)
(* object, whatever is lost, killed or discarded, unless it was set in the *)
(* middle of an operation: every kind that does not clobber leaves the     *)
(* rest out or sends back what it has read.  The kinds that send constants *)
(* for the rest, such as the switch's SNTP form, are said to clobber.      *)
THEOREM OtherFieldsKept == TrueFlags /\ Spec => []RestKept
<1>1. RestIInv => RestKept
  BY DEF RestIInv, RestKept
<1>2. QED
  BY <1>1, RestInductive, PTL

-----------------------------------------------------------------------------
(* Rules that name a row.                                                  *)

(* From the check to the delete no rule names the row.                     *)
RuleIInv ==
    /\ NoDanglingRule
    /\ This.named /\ ~raced /\ ~trespassed =>
        \A o \in Owners : Knows(o, "unused") => \A r \in RowsOf(o) : r.rest # "y"

LEMMA RuleDangles ==
    ASSUME TypeIInv, FollowIInv, RuleIInv, NEW o \in Owners, op[o] # "none",
           NEW R, Change(o, R), After(o, R), ~raced, ~trespassed'
    PROVE  ~dangling'
<1>1. IsFiniteSet(rows)
  BY DEF FollowIInv
<1>2. ~trespassed
  BY Zenon DEF Change
<1>3. ~dangling
  BY <1>2 DEF RuleIInv, NoDanglingRule
<1>4. ASSUME This.named, NEW r \in rows, r.rest = "y", \A q \in R : q.key # r.key
      PROVE  FALSE
  <2>1. r.key = o
    BY <1>1, <1>4, Untrespassed
  <2>2. CASE R = rows \/ Grown(o, R) \/ Overwritten(o, R) \/ Rekeyed(o, R)
    BY <1>4, <2>1, <2>2 DEF Grown, Overwritten, Rekeyed
  <2>3. CASE Refilled(o, R)
    <3>1. PICK w : R = Written(o, w)
      BY <2>3 DEF Refilled
    <3>2. Rewrite(o, w, r) \in R /\ Rewrite(o, w, r).key = r.key
      BY <2>1, <3>1, WrittenRows DEF Written, TypeIInv
    <3>3. QED
      BY <1>4, <3>2
  <2>4. CASE Deleted(o, R)
    <3>1. Knows(o, "unused")
      BY <1>4, <2>4, FlagFacts DEF Deleted, Knows
    <3>2. QED
      BY <1>2, <1>4, <2>1, <3>1 DEF RuleIInv, RowsOf
  <2>5. QED
    BY <2>2, <2>3, <2>4 DEF After
<1>5. dangling' = (dangling \/ \E r \in rows :
                       This.named /\ r.rest = "y" /\ \A q \in R : q.key # r.key)
  BY DEF Change
<1>6. QED
  BY <1>3, <1>4, <1>5

LEMMA RuleCall ==
    ASSUME TypeIInv, FollowIInv, RuleIInv, NEW o \in Owners, Call(o)
    PROVE  RuleIInv'
<1>1. Steady \/ \E R : Change(o, R) /\ After(o, R)
  BY CallChanges
<1>2. /\ op[o] # "none" /\ raced' = raced /\ This' = This
      /\ \A b \in Owners \ {o} : Bystands(b)
  BY CallControls DEF This
<1>3. NoDanglingRule'
  <2>1. CASE Steady
    BY <1>2, <2>1 DEF Steady, RuleIInv, NoDanglingRule
  <2>2. ASSUME NEW R, Change(o, R), After(o, R)
        PROVE  NoDanglingRule'
    BY <1>2, <2>2, RuleDangles DEF NoDanglingRule
  <2>3. QED
    BY <1>1, <2>1, <2>2
<1>4. SUFFICES ASSUME This.named, ~raced, ~trespassed', NEW b \in Owners, Knows(b, "unused")'
               PROVE  \A q \in RowsOf(b)' : q.rest # "y"
  BY <1>2, <1>3 DEF RuleIInv
<1>5. ~trespassed
  BY <1>1, <1>4, Zenon DEF Steady, Change
<1>6. CASE b # o
  <2>1. Knows(b, "unused")
    BY <1>2, <1>4, <1>6 DEF Bystands, Knows
  <2>2. \A r \in RowsOf(b) : r.rest # "y"
    BY <1>4, <1>5, <2>1 DEF RuleIInv
  <2>3. CASE Steady
    BY <2>2, <2>3 DEF Steady, RowsOf
  <2>4. ASSUME NEW R, Change(o, R), After(o, R)
        PROVE  \A q \in RowsOf(b)' : q.rest # "y"
    <3>1. RowsOf(b)' = Own(R, b)
      BY <2>4 DEF Change, RowsOf, Own
    <3>2. QED
      BY <1>6, <2>2, <2>4, <3>1, OthersRows
  <2>5. QED
    BY <1>1, <2>3, <2>4
<1>7. CASE b = o
  <2>1. Word(o) \in Asks /\ (Word(o) = "unused" \/ Knows(o, "unused"))
    BY <1>4, <1>7, KnowsGrows
  <2>2. rows' = rows
    BY <2>1, AskReads DEF deviceVars
  <2>3. Word(o) = "unused" => \A r \in RowsOf(o) : r.rest # "y"
    BY <1>4, <1>7, Answers DEF Knows
  <2>4. QED
    BY <1>4, <1>5, <1>7, <2>1, <2>2, <2>3 DEF RuleIInv, RowsOf
<1>8. QED
  BY <1>6, <1>7

LEMMA RuleInductive == TrueFlags /\ Spec => []RuleIInv
<1>1. Init => RuleIInv
  BY DEF Init, RuleIInv, NoDanglingRule, Knows
<1>2. TypeIInv /\ FollowIInv /\ RuleIInv /\ [Next]_vars => RuleIInv'
  <2> SUFFICES ASSUME TypeIInv, FollowIInv, RuleIInv, [Next]_vars PROVE RuleIInv'
    OBVIOUS
  <2>1. CASE \E o \in Owners : Call(o)
    BY <2>1, RuleCall
  <2>2. CASE TerraformStep
    <3>1. /\ UNCHANGED <<kind, raced, trespassed, dangling>>
          /\ \A o \in Owners : op'[o] # "none" => step'[o] = 1
      BY <2>2, TerraformQuiet
    <3>2. \A o \in Owners : ~Knows(o, "unused")'
      BY <3>1, NothingYet DEF Knows
    <3>3. QED
      BY <3>1, <3>2 DEF RuleIInv, NoDanglingRule
  <2>3. CASE SomebodyElse
    <3>1. UNCHANGED <<kind, op, step, trespassed, dangling>> /\ (raced => raced')
      BY <2>3, SomebodyElseRows
    <3>2. This' = This /\ \A o \in Owners : Knows(o, "unused")' => Knows(o, "unused")
      BY <3>1 DEF Knows, This
    <3>3. NoDanglingRule'
      BY <3>1 DEF RuleIInv, NoDanglingRule
    <3>4. ASSUME NEW o \in Owners, op[o] # "none", ~raced', \A r \in RowsOf(o) : r.rest # "y"
          PROVE  \A q \in RowsOf(o)' : q.rest # "y"
      BY <2>3, <3>4, SomebodyElseRows
    <3>5. QED
      BY <3>1, <3>2, <3>3, <3>4 DEF RuleIInv, Knows
  <2>4. CASE UNCHANGED vars
    BY <2>4 DEF vars, RuleIInv, NoDanglingRule, RowsOf, Knows, This
  <2>5. QED
    BY <2>1, <2>2, <2>3, <2>4 DEF Next, TerraformStep
<1>3. QED
  BY <1>1, <1>2, TypeInductive, FollowInductive, PTL DEF Spec

(* A named row is deleted only when no rule names it, unless the rule came *)
(* between the check and the delete, or ids named the wrong rows.          *)
THEOREM NoRuleDangles == TrueFlags /\ Spec => []NoDanglingRule
<1>1. RuleIInv => NoDanglingRule
  BY DEF RuleIInv
<1>2. QED
  BY <1>1, RuleInductive, PTL

-----------------------------------------------------------------------------
(* What has been deleted.                                                  *)

(* Only a block that is out of the configuration is deleted; only one that *)
(* is not in the state is created, and only one that is, is read.          *)
PlanIInv ==
    \A o \in Owners : /\ op[o] = "delete" => goal[o] = "none"
                      /\ op[o] = "create" => saved[o] = NoState
                      /\ op[o] = "read" => saved[o] # NoState

LEMMA PlanCall ==
    ASSUME TypeIInv, PlanIInv, NEW o \in Owners, Call(o)
    PROVE  PlanIInv'
<1>1. goal' = goal /\ \A b \in Owners \ {o} : Bystands(b)
  BY CallControls
<1>2. op'[o] = "none" \/ Proceeds(o)
  BY CallControls
<1>3. QED
  BY <1>1, <1>2 DEF PlanIInv, Bystands, Proceeds

LEMMA PlanInductive == TrueFlags /\ Spec => []PlanIInv
<1>1. Init => PlanIInv
  BY DEF Init, PlanIInv
<1>2. TypeIInv /\ PlanIInv /\ [Next]_vars => PlanIInv'
  <2> SUFFICES ASSUME TypeIInv, PlanIInv, [Next]_vars PROVE PlanIInv'
    OBVIOUS
  <2>1. CASE \E o \in Owners : Call(o)
    BY <2>1, PlanCall
  <2>2. CASE StartRun \/ Kill
    BY <2>2 DEF StartRun, Kill, configVars, PlanIInv
  <2>3. CASE Plan
    BY <2>3 DEF Plan, Todo, configVars, PlanIInv
  <2>4. CASE \/ \E o \in Owners : Import(o)
             \/ \E o \in Owners, g \in Goals \cup {"none"}, n \in Labels : Configure(o, g, n)
    BY <2>4 DEF Import, configVars, Configure, Resting, localVars, PlanIInv
  <2>5. CASE SomebodyElse
    <3>1. UNCHANGED <<goal, saved, op>>
      BY <2>5, SomebodyElseRows, OwnerAssumption
    <3>2. QED
      BY <3>1 DEF PlanIInv
  <2>6. CASE UNCHANGED vars
    BY <2>6 DEF vars, PlanIInv
  <2>7. QED
    BY <2>1, <2>2, <2>3, <2>4, <2>5, <2>6 DEF Next
<1>3. QED
  BY <1>1, <1>2, TypeInductive, PTL DEF Spec

(* What can go wrong in a call only adds up.                               *)
LEMMA CallCounts ==
    ASSUME TypeIInv, NEW o \in Owners, Call(o)
    PROVE  /\ faults' = 0 => faults = 0 /\ faults' = faults
           /\ ~trespassed' => ~trespassed
           /\ meddled \subseteq meddled'
<1>1. faults' = faults \/ faults' = faults + 1
  BY Zenon DEF Call, Refuse, Known, Unused, On, Compare, Check, Fetch, ListServers, Peek, Draw,
         Enable, SetState, Add, Bare, AddRow, Insert, Write, Try, Edit, Delete, DeleteId,
         Save, SaveId, SaveSame, Trust, Gone, Find, FindId, Show, CallFails, NothingSent,
         Refused, Send, Sent
<1>2. faults \in Nat
  BY DEF TypeIInv, EnvType
<1>3. ~trespassed' => ~trespassed
  <2>1. CASE Steady
    BY <2>1 DEF Steady
  <2>2. ASSUME NEW R, Change(o, R) PROVE ~trespassed' => ~trespassed
    BY <2>2, Zenon DEF Change
  <2>3. QED
    BY <2>1, <2>2, CallChanges
<1>4. Affects(o)
  BY Zenon DEF Call, Refuse, Known, Unused, On, Compare, Check, Fetch, ListServers, Peek, Draw,
         Enable, SetState, Add, Bare, AddRow, Insert, Write, Try, Edit, Delete, DeleteId,
         Save, SaveId, SaveSame, Trust, Gone, Find, FindId, Show, CallFails, NothingSent,
         Refused, Send, Sent, Affects
<1>5. meddled \subseteq meddled'
  BY <1>4 DEF Affects, Change, Turn, deviceVars
<1>6. QED
  BY <1>1, <1>2, <1>3, <1>5

(* A call that does not write leaves the rows.                             *)
LEMMA ReadsKeepRows ==
    ASSUME TypeIInv, NEW o \in Owners, Call(o), Word(o) \notin Writes
    PROVE  rows' = rows
<1>1. \A w \in DOMAIN Form : w \in Writes
  BY DEF Writes
<1>2. \A w \in {"add", "bare", "insert", "try", "edit", "delete", "deleteid"} : w \in Writes
  BY DEF Writes, RowWrites
<1>3. ASSUME NEW R, After(o, R) PROVE R = rows
  BY <1>1, <1>2, <1>3 DEF After, Grown, Refilled, Overwritten, Rekeyed, Deleted
<1>4. QED
  BY <1>3, CallChanges DEF Change, Steady

(* A call of a Delete that is neither lost nor refused.                    *)
LEMMA DeleteEffect ==
    ASSUME TypeIInv, NEW o \in Owners, Call(o), op[o] = "delete", faults' = faults,
           op'[o] # "none" \/ outcome'[o] # "error"
    PROVE  /\ Word(o) \in {"delete", "deleteid"} =>
                \/ RowsOf(o) = {} /\ rows' = rows
                \/ \E d \in rows : Change(o, Without(d))
           /\ Word(o) \in DOMAIN Form =>
                /\ Form[Word(o)].to = "off"
                /\ \/ rows' = Written(o, Word(o))
                   \/ /\ rows' = rows /\ Form[Word(o)].spare
                      /\ \A i \in Form[Word(o)].parts : carry[o].mine[i] \in {goal[o], "off"}
           /\ Word(o) \notin {"delete", "deleteid"} \cup DOMAIN Form => rows' = rows
<1>1. ~Fail(o)
  BY DEF TypeIInv, LocalType, Fail, Idle
<1>2. faults # faults + 1
  BY DEF TypeIInv, EnvType
<1>3. ASSUME NEW R, Send(o, R) PROVE Change(o, R)
  BY <1>1, <1>2, <1>3 DEF Send, Sent
<1>4. Word(o) \in Writes => Word(o) \in Removals
  BY WordFacts
<1>5. CASE Word(o) \in {"delete", "deleteid"}
  <2>1. Word(o) \notin DOMAIN Form
    BY <1>5, FormFacts
  <2>2. Delete(o) \/ DeleteId(o)
    BY <1>1, <1>5, FormFacts
       DEF Call, Refuse, Known, Unused, On, Compare, Fetch, ListServers, Peek, Draw, Enable,
           SetState, Add, Bare, Insert, Write, Try, Edit, Save, SaveId, SaveSame, Trust, Gone,
           Find, FindId, Show, CallFails, Says
  <2>3. \/ RowsOf(o) = {} /\ Send(o, rows)
        \/ \E d \in rows : Send(o, Without(d))
    BY <1>1, <2>2 DEF Delete, DeleteId, Refused, RowsOf, RowsAt
  <2>4. QED
    BY <1>3, <1>5, <2>1, <2>3 DEF Change
<1>6. CASE Word(o) \in DOMAIN Form
  <2>1. Word(o) \notin {"delete", "deleteid"}
    BY <1>6, FormFacts
  <2>2. Form[Word(o)].to = "off"
    <3>1. Word(o) \in Removals /\ Word(o) \notin {"enable", "delete", "deleteid"}
      BY <1>4, <1>6, FormFacts DEF Writes
    <3>2. QED
      BY <3>1 DEF Removals
  <2>3. Write(o)
    BY <1>1, <1>6, FormFacts
       DEF Call, Refuse, Known, Unused, On, Compare, Fetch, ListServers, Peek, Draw, Enable,
           SetState, Add, Bare, Insert, Try, Edit, Delete, DeleteId, Save, SaveId, SaveSame,
           Trust, Gone, Find, FindId, Show, CallFails, Says
  <2>4. Target(o, Word(o)) = "off"
    BY <2>2 DEF Target
  <2>5. \/ Send(o, Written(o, Word(o)))
        \/ /\ UNCHANGED deviceVars /\ Form[Word(o)].spare
           /\ \A i \in Form[Word(o)].parts : carry[o].mine[i] \in {goal[o], "off"}
    BY <2>3, <2>4 DEF Write
  <2>6. QED
    BY <1>3, <1>6, <2>1, <2>2, <2>5 DEF Change, deviceVars
<1>7. CASE Word(o) \notin {"delete", "deleteid"} \cup DOMAIN Form
  <2>1. CASE Word(o) \in Writes
    <3>1. Word(o) = "enable"
      BY <1>4, <1>7, <2>1 DEF Removals
    <3>2. Word(o) \notin {"add", "bare", "insert", "try", "edit"}
      BY <3>1
    <3>3. ASSUME NEW R, After(o, R) PROVE R = rows
      BY <1>7, <3>2, <3>3 DEF After, Grown, Refilled, Overwritten, Rekeyed, Deleted
    <3>4. rows' = rows
      BY <3>3, CallChanges DEF Change, Steady
    <3>5. QED
      BY <1>7, <3>4
  <2>2. CASE Word(o) \notin Writes
    BY <1>7, <2>2, ReadsKeepRows
  <2>3. QED
    BY <2>1, <2>2
<1>8. QED
  BY <1>5, <1>6, <1>7

(* A call that fails by itself has changed nothing.                        *)
LEMMA FailKeepsRows ==
    ASSUME TypeIInv, NEW o \in Owners, Call(o), Fail(o), faults' = faults
    PROVE  rows' = rows
<1>1. op[o] # "none" /\ op[o] \in Ops
  BY CallControls, WordFacts
<1>2. ~Continue(o)
  <2>1. op'[o] = "none" /\ outcome'[o] = "error"
    BY DEF TypeIInv, LocalType, Fail, Idle
  <2>2. CASE Final(o) /\ Continue(o)
    BY <1>1, <2>1, <2>2 DEF Continue, End, TypeIInv, LocalType, Ops
  <2>3. CASE ~Final(o) /\ Continue(o)
    BY <1>1, <2>1, <2>3 DEF Continue
  <2>4. QED
    BY <2>2, <2>3
<1>3. faults # faults + 1
  BY DEF TypeIInv, EnvType
<1>4. (\A R : ~Send(o, R)) /\ ~Sent(o, Turn(o))
  BY <1>2, <1>3 DEF Send, Sent
<1>5. CASE Word(o) \notin Writes
  BY <1>5, ReadsKeepRows
<1>6. CASE Word(o) \in RowWrites
  <2>1. \/ Enable(o) \/ SetState(o) \/ Add(o) \/ Bare(o) \/ Insert(o) \/ Try(o) \/ Edit(o)
        \/ Delete(o) \/ DeleteId(o) \/ CallFails(o)
    BY <1>6, FormFacts
       DEF Call, Refuse, Known, Unused, On, Compare, Fetch, ListServers, Peek, Draw, Write,
           Save, SaveId, SaveSame, Trust, Gone, Find, FindId, Show, Says, RowWrites
  <2>2. Refused(o) \/ CallFails(o)
    BY <1>2, <1>4, <2>1 DEF Enable, SetState, Add, Bare, AddRow, Insert, Try, Edit, Delete, DeleteId
  <2>3. QED
    BY <2>2 DEF Refused, CallFails, deviceVars
<1>7. CASE Word(o) \in DOMAIN Form
  <2>1. Write(o) \/ CallFails(o)
    BY <1>7, FormFacts
       DEF Call, Refuse, Known, Unused, On, Compare, Fetch, ListServers, Peek, Draw, Enable,
           SetState, Add, Bare, Insert, Try, Edit, Delete, DeleteId, Save, SaveId, SaveSame,
           Trust, Gone, Find, FindId, Show, Says
  <2>2. CallFails(o)
    BY <1>2, <1>4, <2>1 DEF Write
  <2>3. QED
    BY <2>2 DEF CallFails, deviceVars
<1>8. QED
  BY <1>5, <1>6, <1>7 DEF Writes

(* The row is gone, or the setting is off.                                 *)
Undone(o) == \A r \in RowsOf(o) : ~This.collection /\ r.mine[1] = "off"
HasUndone(o) == op[o] = "delete" /\ \E i \in 1..(step[o] - 1) : Undoes(This, i)
Undisturbed(o) ==
    /\ faults = 0 /\ ~trespassed /\ ~This.lingers /\ o \notin renamed
    /\ This.collection \/ o \notin meddled

(* The state has the id of the block's row, or is about to be given it.    *)
IdKept(o) ==
    /\ Alone(o)
    /\ \A r \in RowsOf(o) : r.id = saved[o].id \/ (Says(o, "saveid") /\ r.id = drawn[o])

(* Where nothing has gone wrong: what has been undone, or is said to have  *)
(* been, still is; a setting is as it was read, or off; and a kind whose   *)
(* Create does not look for the name has one row, which the state follows. *)
Undo(o) ==
    /\ outcome[o] = "delete" => Undone(o)
    /\ HasUndone(o) => Undone(o)
    /\ ~This.collection /\ op[o] = "delete" /\ Fetched(This.delete, step[o])
        => \A r \in RowsOf(o) : r.mine[1] \in {carry[o].mine[1], "off"}
    /\ This.repeats => IdKept(o)
UndoIInv == \A o \in Owners : Undisturbed(o) => Undo(o)

LEMMA RepeatFacts ==
    ASSUME TypeIInv
    PROVE  /\ This.repeats =>
                This.collection /\ ~This.renumbers /\ This.read[Len(This.read)] = "findid"
           /\ ~This.lingers => \E i \in 1..Len(This.delete) : Undoes(This, i)
  BY DEF TypeIInv, EnvType, TrueToFlags

LEMMA CalmBefore ==
    ASSUME TypeIInv, NEW o \in Owners, Call(o), NEW b \in Owners, Undisturbed(b)'
    PROVE  Undisturbed(b) /\ faults' = faults /\ ~trespassed' /\ This' = This
<1>1. This' = This /\ renamed' = renamed
  BY CallControls DEF This
<1>2. QED
  BY <1>1, CallCounts DEF Undisturbed

(* The other blocks.                                                       *)
LEMMA UndoOthers ==
    ASSUME TypeIInv, FollowIInv, UndoIInv, NEW o \in Owners, Call(o),
           NEW b \in Owners \ {o}, Undisturbed(b)'
    PROVE  Undo(b)'
<1>1. Undo(b) /\ This' = This /\ Bystands(b)
  BY CalmBefore, CallControls DEF UndoIInv
<1>2. /\ \A q \in RowsOf(b)' : \E r \in RowsOf(b) :
            q.mine = r.mine /\ (~This.renumbers => q = r)
      /\ Alone(b) => Alone(b)'
  <2>1. CASE Steady
    BY <2>1 DEF Steady, RowsOf, Alone
  <2>2. ASSUME NEW R, Change(o, R), After(o, R)
        PROVE  /\ \A q \in RowsOf(b)' : \E r \in RowsOf(b) :
                    q.mine = r.mine /\ (~This.renumbers => q = r)
               /\ Alone(b) => Alone(b)'
    <3>1. RowsOf(b)' = Own(R, b)
      BY <2>2 DEF Change, RowsOf, Own
    <3>2. QED
      BY <2>2, <3>1, OthersRows DEF Alone
  <2>3. QED
    BY <2>1, <2>2, CallChanges
<1>3. Undone(b) => Undone(b)'
  BY <1>1, <1>2 DEF Undone
<1>4. outcome'[b] = "delete" => Undone(b)'
  BY <1>1, <1>3 DEF Undo, Bystands
<1>5. HasUndone(b)' => Undone(b)'
  BY <1>1, <1>3 DEF Undo, Bystands, HasUndone
<1>6. ~This.collection /\ op'[b] = "delete" /\ Fetched(This.delete, step'[b])
        => \A q \in RowsOf(b)' : q.mine[1] \in {carry'[b].mine[1], "off"}
  BY <1>1, <1>2 DEF Undo, Bystands
<1>7. This.repeats => IdKept(b)'
  <2> SUFFICES ASSUME This.repeats PROVE IdKept(b)'
    OBVIOUS
  <2>1. IdKept(b) /\ ~This.renumbers
    BY <1>1, RepeatFacts DEF Undo
  <2>2. Says(b, "saveid") => Says(b, "saveid")' /\ drawn'[b] = drawn[b]
    <3> SUFFICES ASSUME Says(b, "saveid") PROVE Says(b, "saveid")' /\ drawn'[b] = drawn[b]
      OBVIOUS
    <3>1. op[b] = "create"
      BY FlagFacts DEF Says
    <3>2. phase # "refresh"
      BY <3>1 DEF FollowIInv
    <3>3. QED
      BY <1>1, <3>2 DEF Bystands, Says, Word
  <2>3. QED
    BY <1>1, <1>2, <2>1, <2>2 DEF IdKept, Bystands
<1>8. QED
  BY <1>1, <1>4, <1>5, <1>6, <1>7 DEF Undo

(* A call of a Delete that is neither lost nor refused: the one that       *)
(* undoes, does; and none puts anything on.                                *)
LEMMA DeleteStep ==
    ASSUME TypeIInv, FollowIInv, AloneIInv, PlanIInv, UndoIInv, NEW o \in Owners, Call(o),
           Undisturbed(o)', op[o] = "delete", op'[o] # "none" \/ outcome'[o] # "error"
    PROVE  /\ HasUndone(o) \/ Undoes(This, step[o]) => Undone(o)'
           /\ ~This.collection =>
                \A q \in RowsOf(o)' : \E r \in RowsOf(o) : q.mine[1] \in {r.mine[1], "off"}
<1> DEFINE w == Word(o)
<1>1. /\ Undisturbed(o) /\ Undo(o) /\ faults' = faults /\ This' = This
      /\ ~trespassed /\ ~trespassed' /\ goal[o] = "none"
      /\ w = This.delete[step[o]] /\ op[o] # "none"
  BY CalmBefore DEF UndoIInv, PlanIInv, Undisturbed, Word
<1>2. Alone(o)
  BY <1>1 DEF AloneIInv, Undo, Undisturbed, IdKept
<1>3. IsFiniteSet(rows) /\ DeviceType
  BY DEF FollowIInv, TypeIInv
<1>4. /\ w \in {"delete", "deleteid"} => \/ RowsOf(o) = {} /\ rows' = rows
                                         \/ \E d \in rows : Change(o, Without(d))
      /\ w \in DOMAIN Form => /\ Form[w].to = "off"
                              /\ \/ rows' = Written(o, w)
                                 \/ /\ rows' = rows /\ Form[w].spare
                                    /\ \A i \in Form[w].parts : carry[o].mine[i] \in {goal[o], "off"}
      /\ w \notin {"delete", "deleteid"} \cup DOMAIN Form => rows' = rows
  BY <1>1, DeleteEffect
<1>5. ASSUME NEW q \in RowsOf(o)', rows' = Written(o, w), w \in DOMAIN Form
      PROVE  \E r \in RowsOf(o) : q.mine[1] = IF 1 \in Form[w].parts THEN "off" ELSE r.mine[1]
  <2>1. PICK r \in rows : q = IF r.key = o THEN Rewrite(o, w, r) ELSE r
    BY <1>5 DEF RowsOf, Written
  <2>2. r.key = o /\ q = Rewrite(o, w, r) /\ r \in Row
    BY <1>3, <1>5, <2>1 DEF RowsOf, DeviceType
  <2>3. Target(o, w) = "off"
    BY <1>4, <1>5 DEF Target
  <2>4. q.mine[1] = IF 1 \in Form[w].parts THEN "off" ELSE r.mine[1]
    BY <2>2, <2>3 DEF Rewrite, Row
  <2>5. QED
    BY <2>2, <2>4 DEF RowsOf
<1>6. CASE This.collection
  <2>1. \A q \in rows' : \E r \in rows : r.key = q.key
    <3>1. CASE rows' = rows
      BY <3>1
    <3>2. CASE \E d \in rows : Change(o, Without(d))
      BY <1>3, <3>2, WithoutKeys DEF Change
    <3>3. CASE rows' = Written(o, w)
      BY <1>3, <3>3, WrittenRows DEF Written
    <3>4. QED
      BY <1>4, <3>1, <3>2, <3>3
  <2>2. HasUndone(o) => RowsOf(o)' = {}
    BY <1>1, <1>6, <2>1 DEF Undo, Undone, RowsOf
  <2>3. Undoes(This, step[o]) => RowsOf(o)' = {}
    <3> SUFFICES ASSUME Undoes(This, step[o]) PROVE RowsOf(o)' = {}
      OBVIOUS
    <3>1. w \in {"delete", "deleteid"}
      BY <1>1, <1>6 DEF Undoes
    <3>2. ASSUME NEW d \in rows, Change(o, Without(d)) PROVE RowsOf(o)' = {}
      <4>1. rows' = Without(d)
        BY <3>2 DEF Change
      <4>2. d.key = o
        BY <1>1, <1>3, <3>2, Untrespassed
      <4>3. QED
        BY <1>2, <4>1, <4>2, NoneLeft
    <3>3. QED
      BY <1>4, <3>1, <3>2 DEF RowsOf
  <2>4. QED
    BY <1>1, <1>6, <2>2, <2>3 DEF Undone
<1>7. CASE ~This.collection
  <2>1. w \notin {"delete", "deleteid"}
    BY <1>1, <1>7, FlagFacts DEF RowWrites
  <2>2. \A q \in RowsOf(o)' : \E r \in RowsOf(o) : q.mine[1] \in {r.mine[1], "off"}
    <3>1. CASE rows' = rows
      BY <3>1 DEF RowsOf
    <3>2. CASE rows' = Written(o, w) /\ w \in DOMAIN Form
      BY <1>5, <3>2
    <3>3. QED
      BY <1>4, <2>1, <3>1, <3>2
  <2>3. HasUndone(o) => Undone(o)'
    BY <1>1, <1>7, <2>2 DEF Undo, Undone
  <2>4. Undoes(This, step[o]) => Undone(o)'
    <3> SUFFICES ASSUME Undoes(This, step[o]) PROVE Undone(o)'
      OBVIOUS
    <3>1. w \in DOMAIN Form /\ 1 \in Form[w].parts /\ (Form[w].spare => Fetched(This.delete, step[o]))
      BY <1>1, <1>7 DEF Undoes
    <3>2. CASE rows' = Written(o, w)
      BY <1>1, <1>5, <1>7, <3>1, <3>2 DEF Undone
    <3>3. CASE rows' = rows /\ Form[w].spare /\ carry[o].mine[1] \in {"none", "off"}
      <4>1. \A r \in RowsOf(o) : r.mine[1] \in {carry[o].mine[1], "off"}
        BY <1>1, <1>7, <3>1, <3>3 DEF Undo
      <4>2. \A r \in RowsOf(o) : r.mine[1] # "none"
        BY <1>3 DEF RowsOf, DeviceType, Row, Mine, Values, Goals
      <4>3. QED
        BY <1>1, <1>7, <3>3, <4>1, <4>2 DEF Undone, RowsOf
    <3>4. QED
      BY <1>1, <1>4, <3>1, <3>2, <3>3
  <2>5. QED
    BY <2>2, <2>3, <2>4
<1>8. QED
  BY <1>6, <1>7

(* What is reported of a Delete comes from its last call.                  *)
LEMMA ReportedDelete ==
    ASSUME TypeIInv, RealIInv, NEW o \in Owners, Call(o), outcome'[o] = "delete"
    PROVE  \/ outcome[o] = "delete" /\ rows' = rows
           \/ op[o] = "delete" /\ Final(o)
<1>1. op[o] # "none" /\ op[o] \in Ops
  BY CallControls, WordFacts
<1>2. outcome[o] = "delete" => rows' = rows
  <2> SUFFICES ASSUME outcome[o] = "delete" PROVE rows' = rows
    OBVIOUS
  <2>1. op[o] = "read"
    BY <1>1 DEF RealIInv, Real, Ops
  <2>2. Word(o) \notin Writes
    BY <1>1, <2>1, WordFacts
  <2>3. QED
    BY <2>2, ReadsKeepRows
<1>3. ASSUME NEW s, NEW r \in {op[o], "error", outcome[o]}, End(o, s, r),
             Word(o) \notin Asks \cup Writes
      PROVE  outcome[o] = "delete" \/ (op[o] = "delete" /\ Final(o))
  <2>1. outcome'[o] = r
    BY <1>3 DEF TypeIInv, LocalType, End
  <2>2. Final(o)
    BY <1>1, <1>3, WordFacts
  <2>3. QED
    BY <1>3, <2>1, <2>2
<1>4. ~Fail(o)
  BY DEF TypeIInv, LocalType, Fail
<1>5. ASSUME Continue(o), Word(o) \in Asks \cup Writes
      PROVE  outcome[o] = "delete" \/ (op[o] = "delete" /\ Final(o))
  BY <1>1, <1>5, Places DEF Continue
<1>6. ASSUME NEW c, NEW d, Asked(o, c, d) PROVE outcome[o] = "delete"
  BY <1>6 DEF Asked
<1>7. QED
  BY <1>2, <1>3, <1>4, <1>5, <1>6, CallEnds

(* The ids of a block's rows after a call of its own, where Create does    *)
(* not look for the name.                                                  *)
LEMMA OwnIds ==
    ASSUME TypeIInv, FollowIInv, NEW o \in Owners, Call(o), ~trespassed', This.repeats,
           NEW q \in RowsOf(o)'
    PROVE  \/ \E r \in RowsOf(o) : q.id = r.id
           \/ Word(o) = "edit" /\ q.id = saved[o].id
           \/ Word(o) = "insert" /\ q.id = drawn[o]
<1>1. op[o] # "none" /\ DeviceType /\ ~This.renumbers
  BY CallControls, RepeatFacts DEF TypeIInv
<1>2. CASE rows' = rows
  BY <1>2 DEF RowsOf
<1>3. ASSUME NEW R, rows' = R, Grown(o, R) \/ Overwritten(o, R)
      PROVE  (\E r \in RowsOf(o) : q.id = r.id) \/ (Word(o) = "insert" /\ q.id = drawn[o])
  BY <1>1, <1>3, FlagFacts DEF Grown, Overwritten, RowsOf
<1>4. ASSUME NEW w, rows' = Written(o, w)
      PROVE  \E r \in RowsOf(o) : q.id = r.id
  <2>1. PICK r \in rows : q = IF r.key = o THEN Rewrite(o, w, r) ELSE r
    BY <1>4 DEF RowsOf, Written
  <2>2. Rewrite(o, w, r).id = r.id /\ q.key = o
    BY <1>1, <2>1, WrittenRows DEF RowsOf
  <2>3. QED
    BY <2>1, <2>2 DEF RowsOf
<1>5. ASSUME NEW R, rows' = R, Rekeyed(o, R)
      PROVE  (\E r \in RowsOf(o) : q.id = r.id) \/ (Word(o) = "edit" /\ q.id = saved[o].id)
  BY <1>5 DEF Rekeyed, RowsOf
<1>6. ASSUME NEW R, rows' = R, Deleted(o, R)
      PROVE  \E r \in RowsOf(o) : q.id = r.id
  BY <1>1, <1>6 DEF Deleted, Without, RowsOf
<1>7. ASSUME NEW R, rows' = R, After(o, R)
      PROVE  \/ \E r \in RowsOf(o) : q.id = r.id
             \/ Word(o) = "edit" /\ q.id = saved[o].id
             \/ Word(o) = "insert" /\ q.id = drawn[o]
  BY <1>2, <1>3, <1>4, <1>5, <1>6, <1>7 DEF After, Refilled
<1>8. QED
  BY <1>2, <1>7, CallChanges DEF Change, Steady

(* The id an operation leaves in the state.                                *)
LEMMA EndIds ==
    ASSUME TypeIInv, NEW o \in Owners, Call(o), Word(o) \notin Asks \cup Writes
    PROVE  \/ Fail(o) /\ (Word(o) = "saveid" /\ faults' = faults => RowsAt(drawn[o]) = {})
           \/ Word(o) # "saveid" /\ \E r \in RowsOf(o) : saved'[o].id = r.id
           \/ Word(o) = "saveid" /\ saved'[o].id = drawn[o]
           \/ Word(o) # "saveid" /\ (saved'[o].id = saved[o].id \/ saved[o].id = -1)
           \/ Word(o) # "saveid" /\ (RowsOf(o) = {} \/ RowsAt(saved[o].id) = {})
           \/ Word(o) = "find"
           \/ Word(o) = "gone" /\ outcome'[o] = op[o]
<1> USE DEF Says
<1>1. ASSUME NEW s, NEW r, End(o, s, r) PROVE saved'[o] = s /\ outcome'[o] = r
  BY <1>1 DEF TypeIInv, LocalType, End
<1>2. ASSUME NEW r PROVE StateOf(o, r).id = r.id
  BY DEF StateOf
<1>3. CASE Save(o) \/ SaveSame(o)
  <2>1. Word(o) # "saveid" /\ (Fail(o) \/ \E r \in RowsOf(o) : Ended(o, r))
    BY <1>3 DEF Save, SaveSame, Named
  <2>2. QED
    BY <1>1, <1>2, <2>1 DEF Ended
<1>4. CASE SaveId(o)
  <2>1. Word(o) = "saveid" /\ \/ RowsAt(drawn[o]) = {} /\ Fail(o)
                              \/ \E r \in RowsAt(drawn[o]) : Ended(o, r)
    BY <1>4 DEF SaveId
  <2>2. QED
    BY <1>1, <1>2, <2>1 DEF Ended, RowsAt
<1>5. CASE Trust(o)
  <2>1. Word(o) # "saveid" /\ saved'[o] = Planned(o)
    BY <1>1, <1>5 DEF Trust
  <2>2. QED
    BY <2>1 DEF Planned
<1>6. CASE Gone(o)
  BY <1>1, <1>6 DEF Gone
<1>7. CASE Find(o)
  BY <1>7 DEF Find
<1>8. CASE FindId(o)
  <2>1. Word(o) # "saveid" /\ \/ RowsAt(saved[o].id) = {}
                              \/ \E r \in RowsAt(saved[o].id) : End(o, StateOf(o, r), outcome[o])
    BY <1>8 DEF FindId
  <2>2. QED
    BY <1>1, <1>2, <2>1 DEF RowsAt
<1>9. CASE Show(o)
  <2>1. Word(o) # "saveid" /\ \/ Fail(o)
                              \/ \E r \in RowsOf(o) : End(o, StateOf(o, r), outcome[o])
    BY <1>9 DEF Show
  <2>2. QED
    BY <1>1, <1>2, <2>1
<1>10. CASE CallFails(o)
  BY <1>10 DEF CallFails, TypeIInv, EnvType
<1>11. QED
  BY <1>3, <1>4, <1>5, <1>6, <1>7, <1>8, <1>9, <1>10, FormFacts
     DEF Call, Refuse, Known, Unused, On, Compare, Fetch, ListServers, Peek, Draw, Enable,
         SetState, Add, Bare, Insert, Write, Try, Edit, Delete, DeleteId, Asks, Writes, RowWrites

(* The block's own id.                                                     *)
LEMMA OwnIdKept ==
    ASSUME TypeIInv, FollowIInv, PlanIInv, UndoIInv, NEW o \in Owners, Call(o),
           Undisturbed(o)', This.repeats, outcome'[o] = "delete" => RowsOf(o)' = {}
    PROVE  IdKept(o)'
<1>1. /\ IdKept(o) /\ faults' = faults /\ ~trespassed' /\ This' = This
      /\ op[o] # "none" /\ op[o] \in Ops /\ IsFiniteSet(rows)
  BY CalmBefore, CallControls, WordFacts DEF UndoIInv, Undo, FollowIInv
<1>2. \A r \in rows : r.id \in Ids /\ r.id # -1
  BY DEF TypeIInv, DeviceType, Row, Ids
<1>3. Word(o) \in {"insert", "saveid"} =>
          /\ op[o] = "create" /\ saved[o].id = -1
          /\ step[o] >= Len(This.create) - 1 /\ This.create[Len(This.create)] = "saveid"
  BY <1>1, FlagFacts DEF PlanIInv, NoState
<1>4. Word(o) = "insert" => RowsOf(o) = {}
  BY <1>1, <1>2, <1>3 DEF IdKept, Says, RowsOf
<1>5. Alone(o)'
  <2>1. CASE Steady
    BY <1>1, <2>1 DEF Steady, RowsOf, Alone, IdKept
  <2>2. ASSUME NEW R, Change(o, R), After(o, R) PROVE Alone(o)'
    BY <1>1, <1>4, <2>2, OwnRowAlone DEF IdKept
  <2>3. QED
    BY <2>1, <2>2, CallChanges
<1>6. SUFFICES ASSUME NEW q \in RowsOf(o)'
               PROVE  q.id = saved'[o].id \/ (Says(o, "saveid")' /\ q.id = drawn'[o])
  BY <1>5 DEF IdKept
<1>7. CASE op'[o] # "none"
  <2>1. Proceeds(o)
    BY <1>7, CallControls
  <2>2. Word(o) # "saveid"
    BY <2>1, FormFacts DEF Proceeds, Asks, Writes, RowWrites
  <2>3. \A r \in RowsOf(o) : r.id = saved[o].id
    BY <1>1, <2>2 DEF IdKept, Says
  <2>4. q.id = saved[o].id \/ (Word(o) = "insert" /\ q.id = drawn[o])
    BY <1>1, <2>3, OwnIds
  <2>5. Word(o) = "insert" => Says(o, "saveid")' /\ drawn'[o] = drawn[o]
    <3> SUFFICES ASSUME Word(o) = "insert" PROVE Says(o, "saveid")' /\ drawn'[o] = drawn[o]
      OBVIOUS
    <3>1. op[o] = "create" /\ ~Final(o) /\ step[o] \in 1..Len(This.create) /\ Len(This.create) \in Nat
      BY <1>1, <1>3, Places, WordFacts DEF RowWrites
    <3>2. step'[o] = Len(This.create)
      BY <1>3, <2>1, <3>1 DEF Proceeds, Final
    <3>3. QED
      BY <1>1, <1>3, <2>1, <3>1, <3>2 DEF Proceeds, Says, Word
  <2>6. QED
    BY <2>1, <2>4, <2>5 DEF Proceeds
<1>8. CASE Fail(o)
  <2>1. rows' = rows /\ saved'[o] = saved[o]
    BY <1>1, <1>8, FailKeepsRows DEF Fail
  <2>2. Says(o, "saveid") => RowsAt(drawn[o]) = {}
    <3> SUFFICES ASSUME Says(o, "saveid") PROVE RowsAt(drawn[o]) = {}
      OBVIOUS
    <3>1. SaveId(o) \/ CallFails(o)
      BY FormFacts
         DEF Call, Refuse, Known, Unused, On, Compare, Fetch, ListServers, Peek, Draw, Enable,
             SetState, Add, Bare, Insert, Write, Try, Edit, Delete, DeleteId, Save, SaveSame,
             Trust, Gone, Find, FindId, Show, Says
    <3>2. SaveId(o)
      BY <1>1, <3>1 DEF CallFails, TypeIInv, EnvType
    <3>3. \A r \in RowsAt(drawn[o]) : ~Ended(o, r)
      <4>1. saved'[o] = saved[o] /\ saved[o] = NoState
        BY <1>1, <1>8, FlagFacts DEF Fail, PlanIInv, Says
      <4>2. ASSUME NEW r \in rows, Ended(o, r) PROVE FALSE
        BY <1>2, <4>1, <4>2 DEF Ended, End, TypeIInv, LocalType, StateOf, NoState
      <4>3. QED
        BY <4>2 DEF RowsAt
    <3>4. QED
      BY <3>2, <3>3 DEF SaveId
  <2>3. QED
    BY <1>1, <2>1, <2>2 DEF IdKept, RowsOf, RowsAt
<1>9. CASE op'[o] = "none" /\ Word(o) \notin Asks \cup Writes /\ ~Fail(o)
  <2>1. rows' = rows /\ q \in RowsOf(o) /\ q \in rows
    BY <1>9, ReadsKeepRows DEF RowsOf
  <2>2. q.id = saved[o].id \/ (Word(o) = "saveid" /\ q.id = drawn[o])
    BY <1>1, <2>1 DEF IdKept, Says
  <2>3. CASE Word(o) = "saveid"
    BY <1>2, <1>3, <1>9, <2>1, <2>2, <2>3, EndIds
  <2>4. CASE Word(o) = "gone"
    <3>1. op[o] = "delete"
      BY <1>1, <2>4, WordFacts, FormFacts DEF Asks, Writes, RowWrites, Saves, Looks, Ops
    <3>2. outcome'[o] # "delete"
      BY <1>6
    <3>3. Gone(o)
      BY <1>9, <2>4, FormFacts
         DEF Call, Refuse, Known, Unused, On, Compare, Fetch, ListServers, Peek, Draw, Enable,
             SetState, Add, Bare, Insert, Write, Try, Edit, Delete, DeleteId, Save, SaveId,
             SaveSame, Trust, Find, FindId, Show, Says, CallFails
    <3>4. QED
      BY <3>1, <3>2, <3>3 DEF Gone, End, TypeIInv, LocalType
  <2>5. CASE Word(o) \notin {"saveid", "gone"}
    <3>1. Word(o) # "find"
      <4> SUFFICES ASSUME Word(o) = "find" PROVE FALSE
        OBVIOUS
      <4>1. Final(o) /\ op[o] = "read"
        BY <1>1, <1>9, WordFacts, Places DEF Looks
      <4>2. Word(o) = This.read[Len(This.read)]
        BY <4>1 DEF Final, Word
      <4>3. QED
        BY <4>2, RepeatFacts
    <3>2. \/ \E r \in RowsOf(o) : saved'[o].id = r.id
          \/ saved'[o].id = saved[o].id \/ saved[o].id = -1
          \/ RowsOf(o) = {} \/ RowsAt(saved[o].id) = {}
      BY <1>9, <2>5, <3>1, EndIds
    <3>3. q.id = saved[o].id /\ \A r \in RowsOf(o) : r = q
      BY <1>1, <2>1, <2>2, <2>5 DEF IdKept, Alone
    <3>4. QED
      BY <1>2, <2>1, <3>2, <3>3 DEF RowsAt
  <2>6. QED
    BY <2>3, <2>4, <2>5
<1>10. CASE op'[o] = "none" /\ Word(o) \in Asks \cup Writes /\ ~Fail(o)
  <2>1. Continue(o) /\ Final(o)
    BY <1>1, <1>10, CallEnds DEF Continue, Asked
  <2>2. op[o] = "delete"
    BY <1>1, <1>10, <2>1, Places
  <2>3. outcome'[o] = "delete"
    BY <2>1, <2>2 DEF Continue, End, TypeIInv, LocalType
  <2>4. QED
    BY <1>6, <2>3
<1>11. QED
  BY <1>7, <1>8, <1>9, <1>10

LEMMA UndoCall ==
    ASSUME TypeIInv, RealIInv, FollowIInv, AloneIInv, PlanIInv, UndoIInv,
           NEW o \in Owners, Call(o)
    PROVE  UndoIInv'
<1>1. SUFFICES ASSUME Undisturbed(o)' PROVE Undo(o)'
  BY UndoOthers DEF UndoIInv
<1>2. Undo(o) /\ This' = This /\ Undisturbed(o) /\ op[o] # "none"
  BY <1>1, CalmBefore, CallControls DEF UndoIInv
<1>3. op[o] = "delete" /\ (op'[o] # "none" \/ outcome'[o] # "error")
        => /\ HasUndone(o) \/ Undoes(This, step[o]) => Undone(o)'
           /\ ~This.collection =>
                \A q \in RowsOf(o)' : \E r \in RowsOf(o) : q.mine[1] \in {r.mine[1], "off"}
  BY <1>1, DeleteStep
<1>4. outcome'[o] = "delete" => Undone(o)'
  <2> SUFFICES ASSUME outcome'[o] = "delete" PROVE Undone(o)'
    OBVIOUS
  <2>1. CASE outcome[o] = "delete" /\ rows' = rows
    BY <1>2, <2>1 DEF Undo, Undone, RowsOf
  <2>2. CASE op[o] = "delete" /\ Final(o)
    <3>1. PICK i \in 1..Len(This.delete) : Undoes(This, i)
      BY <1>2, RepeatFacts DEF Undisturbed
    <3>2. step[o] = Len(This.delete) /\ Len(This.delete) \in Nat \ {0}
      BY <1>2, <2>2, WordFacts DEF Final
    <3>3. HasUndone(o) \/ Undoes(This, step[o])
      BY <2>2, <3>1, <3>2 DEF HasUndone
    <3>4. QED
      BY <1>3, <2>2, <3>3
  <2>3. QED
    BY <2>1, <2>2, ReportedDelete
<1>5. op'[o] = "delete" => Proceeds(o) /\ op[o] = "delete" /\ step[o] \in Nat \ {0}
  BY <1>2, CallControls, WordFacts DEF Proceeds
<1>6. HasUndone(o)' => Undone(o)'
  <2> SUFFICES ASSUME HasUndone(o)' PROVE Undone(o)'
    OBVIOUS
  <2>1. op'[o] = "delete" /\ op[o] = "delete" /\ step[o] \in Nat \ {0} /\ step'[o] = step[o] + 1
    BY <1>5 DEF HasUndone, Proceeds
  <2>2. PICK i \in 1..step[o] : Undoes(This, i)
    BY <1>2, <2>1 DEF HasUndone
  <2>3. HasUndone(o) \/ Undoes(This, step[o])
    BY <2>1, <2>2 DEF HasUndone
  <2>4. QED
    BY <1>3, <2>1, <2>3
<1>7. ASSUME ~This.collection, op'[o] = "delete", Fetched(This.delete, step'[o]),
             NEW q \in RowsOf(o)'
      PROVE  q.mine[1] \in {carry'[o].mine[1], "off"}
  <2>1. Proceeds(o) /\ op[o] = "delete" /\ step[o] \in Nat \ {0} /\ step'[o] = step[o] + 1
    BY <1>5, <1>7 DEF Proceeds
  <2>2. Word(o) \notin {"list", "peek"} /\ (Word(o) = "fetch" \/ Fetched(This.delete, step[o]))
    BY <1>7, <2>1, FetchGrows DEF Word
  <2>3. PICK r \in RowsOf(o) : q.mine[1] \in {r.mine[1], "off"}
    BY <1>3, <1>7, <2>1
  <2>4. CASE Word(o) = "fetch"
    <3>1. PICK s \in RowsOf(o) : carry'[o] = [mine |-> s.mine, rest |-> s.rest]
      BY <2>1, <2>4 DEF Proceeds
    <3>2. ~This.repeats
      BY <1>7, RepeatFacts
    <3>3. r = s
      BY <1>2, <3>2 DEF AloneIInv, Alone, Undisturbed
    <3>4. QED
      BY <2>3, <3>1, <3>3
  <2>5. CASE Word(o) # "fetch"
    <3>1. carry'[o] = carry[o] /\ Fetched(This.delete, step[o])
      BY <2>1, <2>2, <2>5 DEF Proceeds
    <3>2. r.mine[1] \in {carry[o].mine[1], "off"}
      BY <1>2, <1>7, <2>1, <3>1 DEF Undo
    <3>3. QED
      BY <2>3, <3>1, <3>2
  <2>6. QED
    BY <2>4, <2>5
<1>8. This.repeats => IdKept(o)'
  <2> SUFFICES ASSUME This.repeats PROVE IdKept(o)'
    OBVIOUS
  <2>1. outcome'[o] = "delete" => RowsOf(o)' = {}
    BY <1>2, <1>4, RepeatFacts DEF Undone
  <2>2. QED
    BY <1>1, <2>1, OwnIdKept
<1>9. QED
  BY <1>2, <1>4, <1>6, <1>7, <1>8 DEF Undo

LEMMA UndoTerraform ==
    ASSUME TypeIInv, UndoIInv, TerraformStep
    PROVE  UndoIInv'
<1>1. /\ UNCHANGED <<kind, trespassed>> /\ This' = This
      /\ UNCHANGED <<rows, called, renamed>> \/ \E o \in Owners : Renaming(o)
      /\ faults' = 0 => faults = 0
      /\ \A o \in Owners : op'[o] # "none" => step'[o] = 1
  BY TerraformQuiet DEF This
<1>2. CASE Kill
  <2>1. faults' # 0
    BY <1>2 DEF Kill, TypeIInv, EnvType
  <2>2. QED
    BY <2>1 DEF UndoIInv, Undisturbed
<1>3. CASE ~Kill
  <2> SUFFICES ASSUME NEW o \in Owners, Undisturbed(o)' PROVE Undo(o)'
    BY DEF UndoIInv
  <2>1. ~HasUndone(o)' /\ (op'[o] = "delete" => ~Fetched(This.delete, step'[o]))
    BY <1>1, NothingYet DEF HasUndone
  <2>2. op[o] = "none"
    BY <1>3 DEF TerraformStep, StartRun, Plan, Import, Configure, Resting
  <2>3. outcome'[o] \in {outcome[o], "none"}
    BY <1>3 DEF TerraformStep, StartRun, Plan, Import, Configure, TypeIInv, LocalType
  <2>4. /\ o \notin renamed
        /\ This.repeats \/ outcome'[o] = "delete" => RowsOf(o)' = RowsOf(o)
    <3>1. CASE UNCHANGED <<rows, called, renamed>>
      BY <3>1 DEF RowsOf, Undisturbed
    <3>2. ASSUME NEW b \in Owners, Renaming(b)
          PROVE  /\ o \notin renamed
                 /\ This.repeats \/ outcome'[o] = "delete" => RowsOf(o)' = RowsOf(o)
      <4>1. o \notin renamed /\ ~This.repeats
        BY <3>2 DEF Renaming, Undisturbed
      <4>2. o = b => outcome'[o] = "none"
        BY <3>2 DEF Renaming, TypeIInv, LocalType
      <4>3. QED
        BY <3>2, <4>1, <4>2 DEF Renaming
    <3>3. QED
      BY <1>1, <3>1, <3>2
  <2>5. This.repeats \/ outcome'[o] = "delete" => Undisturbed(o)
    <3> SUFFICES ASSUME outcome'[o] = "delete" PROVE o \in meddled => o \in meddled'
      BY <1>1, <2>4, RepeatFacts DEF Undisturbed
    <3>1. CASE Plan
      BY <3>1 DEF Plan
    <3>2. CASE ~Plan
      BY <1>3, <3>2 DEF TerraformStep, StartRun, Import, Configure
    <3>3. QED
      BY <3>1, <3>2
  <2>6. outcome'[o] = "delete" => Undone(o)'
    BY <1>1, <2>3, <2>4, <2>5 DEF UndoIInv, Undo, Undone
  <2>7. This.repeats => IdKept(o)'
    <3> SUFFICES ASSUME This.repeats PROVE IdKept(o)'
      OBVIOUS
    <3>1. Alone(o) /\ \A r \in RowsOf(o) : r.id = saved[o].id
      BY <2>2, <2>5 DEF UndoIInv, Undo, IdKept, Says
    <3>2. saved'[o] = saved[o] \/ \E r \in RowsOf(o) : saved'[o].id = r.id
      <4>1. CASE \E b \in Owners : Import(b)
        <5>1. PICK b \in Owners : \E r \in RowsOf(b) : saved' = [saved EXCEPT ![b] = StateOf(b, r)]
          BY <4>1 DEF Import
        <5>2. \A r : StateOf(b, r).id = r.id
          BY DEF StateOf
        <5>3. QED
          BY <5>1, <5>2 DEF TypeIInv, LocalType
      <4>2. CASE ~\E b \in Owners : Import(b)
        BY <1>3, <4>2 DEF TerraformStep, StartRun, Plan, Configure
      <4>3. QED
        BY <4>1, <4>2
    <3>3. QED
      BY <2>4, <3>1, <3>2 DEF IdKept, Alone
  <2>8. QED
    BY <1>1, <2>1, <2>6, <2>7 DEF Undo
<1>4. QED
  BY <1>2, <1>3

LEMMA UndoSomebodyElse ==
    ASSUME TypeIInv, UndoIInv, SomebodyElse
    PROVE  UndoIInv'
<1> SUFFICES ASSUME NEW o \in Owners, Undisturbed(o)' PROVE Undo(o)'
  BY DEF UndoIInv
<1>1. /\ UNCHANGED <<kind, renamed, saved, op, step, carry, drawn, outcome, trespassed, faults>>
      /\ meddled \subseteq meddled' /\ This' = This
      /\ Alone(o) => Alone(o)'
  BY SomebodyElseRows DEF This
<1>2. Undo(o)
  BY <1>1 DEF UndoIInv, Undisturbed
<1>3. \A q \in RowsOf(o)' : \E r \in RowsOf(o) :
        /\ ~This.renumbers => q.id = r.id
        /\ ~This.collection => q.mine = r.mine
  <2>1. \/ \A q \in RowsOf(o)' : \E r \in RowsOf(o) :
                /\ ~This.renumbers => q.id = r.id
                /\ q.mine = r.mine \/ o \in meddled'
        \/ ~This.collection /\ o \in meddled'
    BY SomebodyElseRows
  <2>2. This.collection \/ o \notin meddled'
    BY <1>1 DEF Undisturbed
  <2>3. QED
    BY <2>1, <2>2
<1>4. Undone(o) => Undone(o)'
  BY <1>1, <1>3 DEF Undone
<1>5. This.repeats /\ IdKept(o) => IdKept(o)'
  BY <1>1, <1>3, RepeatFacts DEF IdKept, Says, Word
<1>6. HasUndone(o)' => HasUndone(o)
  BY <1>1 DEF HasUndone
<1>7. QED
  BY <1>1, <1>2, <1>3, <1>4, <1>5, <1>6 DEF Undo

LEMMA UndoInductive == TrueFlags /\ Spec => []UndoIInv
<1>1. TypeIInv /\ Init => UndoIInv
  <2> SUFFICES ASSUME TypeIInv, Init, NEW o \in Owners PROVE Undo(o)
    BY DEF UndoIInv
  <2>1. op[o] = "none" /\ outcome[o] = "none"
    BY DEF Init
  <2>2. This.collection => RowsOf(o) = {}
    BY DEF Init, RowsOf
  <2>3. QED
    BY <2>1, <2>2, RepeatFacts DEF Undo, HasUndone, IdKept, Alone
<1>2. /\ TypeIInv /\ RealIInv /\ FollowIInv /\ AloneIInv /\ PlanIInv /\ UndoIInv
      /\ [Next]_vars
      => UndoIInv'
  <2> SUFFICES ASSUME TypeIInv, RealIInv, FollowIInv, AloneIInv, PlanIInv, UndoIInv, [Next]_vars
               PROVE  UndoIInv'
    OBVIOUS
  <2>1. CASE Next
    BY <2>1, UndoCall, UndoTerraform, UndoSomebodyElse DEF Next, TerraformStep
  <2>2. CASE UNCHANGED vars
    BY <2>2 DEF vars, UndoIInv, Undisturbed, Undo, Undone, HasUndone, IdKept, Alone, RowsOf,
                Says, Word, This
  <2>3. QED
    BY <2>1, <2>2
<1>3. QED
  BY <1>1, <1>2, TypeInductive, RealInductive, FollowInductive, AloneInductive, PlanInductive, PTL
     DEF Spec

(* After a Delete that met no fault, with no trespass and nobody else at   *)
(* that row, the row is gone or the setting is off: Delete undoes what is  *)
(* there, whatever other operations do, and nothing puts it back before    *)
(* the block is configured again.  Not for a block that has changed its    *)
(* name while it was in the state: it may have had two rows.               *)
THEOREM DeletedIsGone == TrueFlags /\ Spec => []DestroyedIsGone
<1>1. UndoIInv => DestroyedIsGone
  BY DEF UndoIInv, Undisturbed, Undo, Undone, DestroyedIsGone
<1>2. QED
  BY <1>1, UndoInductive, PTL

-----------------------------------------------------------------------------
(* What is as configured.                                                  *)

(* Two plans in a row show no difference: a block that is as configured,   *)
(* and has nothing to do but to be read, stays so through the calls of     *)
(* other blocks and through its own refresh, whatever call fails and       *)
(* whenever a run is killed.  It takes another configuration, somebody     *)
(* else, an operation that turns the flag the blocks share, or ids that    *)
(* name other rows: those that are ambiguous, and those that have moved in *)
(* a table that renumbers, until the next refresh.                         *)
Disturbs(o) ==
    \/ goal'[o] # goal[o] \/ called'[o] # called[o] \/ SomebodyElse
    \/ This.aside /\ beside' # beside
    \/ trespassed' \/ Ambiguous \/ (This.renumbers /\ shifted')
StaysSettled ==
    [][\A o \in Owners :
        Settled(o) /\ op[o] \in {"none", "read"} /\ ~Settled(o)' => Disturbs(o)]_vars

(* A key that reads as before and has no row that is new has all its rows. *)
LEMMA AllRowsKept ==
    ASSUME NEW R, NEW S, IsFiniteSet(S), NEW k, Own(R, k) \subseteq Own(S, k),
           Content(R, k) = Content(S, k), NEW r \in Own(S, k)
    PROVE  r \in Own(R, k)
<1>1. r \in S /\ r.key = k
  BY DEF Own
<1>2. r \notin Own(R, k) => Own(R, k) \subseteq S \ {r}
  BY DEF Own
<1>3. ~(Own(R, k) \subseteq S \ {r})
  BY <1>1, LostRow
<1>4. QED
  BY <1>2, <1>3

(* Another block's call leaves a row, its id and its fields.               *)
LEMMA RowStays ==
    ASSUME TypeIInv, FollowIInv, NEW o \in Owners, Call(o), NEW b \in Owners \ {o},
           ~trespassed', ~(This.renumbers /\ shifted'), NEW r \in RowsOf(b)
    PROVE  r \in rows'
<1>1. r \in rows /\ r.key = b /\ IsFiniteSet(rows) /\ b \in Keys /\ DeviceType
  BY DEF RowsOf, FollowIInv, Keys, TypeIInv
<1>2. CASE Steady
  BY <1>1, <1>2 DEF Steady
<1>3. ASSUME NEW R, Change(o, R), After(o, R)
      PROVE  r \in R
  <2>1. Content(R, b) = Content(rows, b)
    BY <1>1, <1>3 DEF Change
  <2>2. CASE R = rows \/ Grown(o, R) \/ Overwritten(o, R) \/ Rekeyed(o, R)
    <3>1. Own(R, b) \subseteq Own(rows, b)
      BY <2>2 DEF Grown, Overwritten, Rekeyed, Own
    <3>2. r \in Own(rows, b)
      BY <1>1 DEF Own
    <3>3. r \in Own(R, b)
      BY <1>1, <2>1, <3>1, <3>2, AllRowsKept
    <3>4. QED
      BY <3>3 DEF Own
  <2>3. CASE Refilled(o, R)
    BY <1>1, <2>3 DEF Refilled, Written
  <2>4. CASE Deleted(o, R)
    <3>1. PICK d \in rows : R = Without(d)
      BY <2>4 DEF Deleted
    <3>2. d.key = o
      BY <1>1, <1>3, <3>1, Untrespassed
    <3>3. CASE ~This.renumbers
      BY <1>1, <3>1, <3>2, <3>3 DEF Without
    <3>4. CASE This.renumbers
      <4>1. \A m \in rows : \E q \in R : q.id = m.id
        BY <1>3, <3>4 DEF Change
      <4>2. ~(r.id > d.id)
        BY <1>1, <3>1, <3>4, <4>1, MovedShifts
      <4>3. [r EXCEPT !.id = IF r.id > d.id THEN r.id - 1 ELSE r.id] = r
        BY <1>1, <4>2 DEF DeviceType, Row
      <4>4. QED
        BY <1>1, <3>1, <3>2, <3>4, <4>3 DEF Without
    <3>5. QED
      BY <3>3, <3>4
  <2>5. QED
    BY <1>3, <2>2, <2>3, <2>4 DEF After
<1>4. QED
  BY <1>2, <1>3, CallChanges DEF Change

(* A refresh finds the row that is in the state.                           *)
LEMMA RefreshAgrees ==
    ASSUME TypeIInv, RestIInv, NEW o \in Owners, Call(o), op[o] = "read", ~Ambiguous,
           NEW r \in RowsOf(o), r.id = saved[o].id, r.name = saved[o].name
    PROVE  rows' = rows /\ (saved'[o] = saved[o] \/ saved'[o] = StateOf(o, r))
<1>1. rows' = rows
  BY WordFacts, ReadsKeepRows
<1>2. r \in rows /\ r.key = o /\ \A x \in rows : x.id = r.id => x = r
  BY DEF Ambiguous, RowsOf
<1>3. ASSUME NEW s, NEW q, End(o, s, q) PROVE saved'[o] = s
  BY <1>3 DEF End, TypeIInv, LocalType
<1>4. CASE Find(o)
  <2>1. {x \in {y \in RowsOf(o) : y.name = saved[o].name} : x.id = saved[o].id} = {r}
    BY <1>2 DEF RowsOf
  <2>2. End(o, StateOf(o, r), outcome[o])
    BY <1>4, <2>1 DEF Find
  <2>3. QED
    BY <1>1, <1>3, <2>2
<1>5. CASE FindId(o)
  <2>1. RowsAt(saved[o].id) = {r}
    BY <1>2 DEF RowsAt
  <2>2. End(o, StateOf(o, r), outcome[o])
    BY <1>5, <2>1 DEF FindId
  <2>3. QED
    BY <1>1, <1>3, <2>2
<1>6. CASE Show(o)
  <2>1. Word(o) = "show" /\ Word(o) \notin Asks \cup Writes
    BY <1>6, FormFacts DEF Show, Says, Asks, Writes, RowWrites
  <2>2. Word(o) = This.read[Len(This.read)]
    BY <2>1, WordFacts DEF Final, Word
  <2>3. ~This.collection
    BY <2>1, <2>2 DEF TypeIInv, EnvType, TrueToFlags
  <2>4. RowsOf(o) = {r}
    BY <1>2, <2>3 DEF RestIInv, RowsOf
  <2>5. Fail(o) \/ End(o, StateOf(o, r), outcome[o])
    BY <1>6, <2>4 DEF Show
  <2>6. QED
    BY <1>1, <1>3, <2>5 DEF Fail
<1>7. CASE Onward(o) \/ Failing(o)
  BY <1>1, <1>7 DEF Onward, Failing
<1>8. QED
  BY <1>4, <1>5, <1>6, <1>7, CallGoesOn

LEMMA SettledByCalls ==
    ASSUME TypeIInv, FollowIInv, RestIInv, PlanIInv, NEW b \in Owners, Call(b),
           NEW o \in Owners, Settled(o), op[o] \in {"none", "read"}, This.aside => beside' = beside,
           ~trespassed', ~Ambiguous, ~(This.renumbers /\ shifted')
    PROVE  Settled(o)'
<1>1. /\ goal' = goal /\ called' = called /\ This' = This
      /\ op[b] # "none" /\ (b # o => Bystands(o))
  BY CallControls DEF This
<1>2. CASE goal[o] = "none"
  <2>1. saved[o] = NoState /\ b # o
    BY <1>1, <1>2 DEF Settled, PlanIInv
  <2>2. QED
    BY <1>1, <1>2, <2>1 DEF Settled, Bystands
<1>3. CASE goal[o] # "none"
  <2>1. PICK r \in Named(o) : r.id = saved[o].id /\ r.mine = Both(goal[o])
    BY <1>3 DEF Settled
  <2>2. As(o, saved[o]) /\ (This.aside => beside = goal[o])
    BY <1>3 DEF Settled
  <2>3. r \in RowsOf(o) /\ r \in rows /\ r.key = o /\ r.name = called[o]
    BY DEF Named, RowsOf
  <2>4. CASE b # o
    <3>1. saved'[o] = saved[o]
      BY <1>1, <2>4 DEF Bystands
    <3>2. r \in rows'
      BY <2>3, <2>4, RowStays
    <3>3. As(o, saved[o])'
      BY <1>1, <2>2, <3>1 DEF As
    <3>4. QED
      BY <1>1, <1>3, <2>1, <2>2, <2>3, <3>1, <3>2, <3>3 DEF Settled, Named, RowsOf
  <2>5. CASE b = o
    <3>1. rows' = rows /\ (saved'[o] = saved[o] \/ saved'[o] = StateOf(o, r))
      BY <1>1, <2>1, <2>2, <2>3, <2>5, RefreshAgrees DEF As
    <3>2. As(o, StateOf(o, r)) /\ StateOf(o, r).id = r.id
      BY <2>1, <2>2, <2>3 DEF StateOf, As
    <3>3. As(o, saved'[o]) /\ saved'[o].id = r.id
      BY <2>1, <2>2, <3>1, <3>2
    <3>4. As(o, saved[o])'
      BY <1>1, <3>3 DEF As
    <3>5. QED
      BY <1>1, <1>3, <2>1, <2>2, <2>3, <3>1, <3>3, <3>4 DEF Settled, Named, RowsOf
  <2>6. QED
    BY <2>4, <2>5
<1>4. QED
  BY <1>2, <1>3

(* For any kinds: repeated runs leave alone what is as configured, but for *)
(* the flag that blocks share: a collector that is switched off switches   *)
(* it off for the others.                                                  *)
THEOREM NothingDrifts == TrueFlags /\ Spec => StaysSettled
<1> DEFINE Kept(o) == Settled(o) /\ op[o] \in {"none", "read"} /\ ~Settled(o)' => Disturbs(o)
<1>1. TypeIInv /\ FollowIInv /\ RestIInv /\ PlanIInv /\ [Next]_vars
        => [\A o \in Owners : Kept(o)]_vars
  <2> SUFFICES ASSUME TypeIInv, FollowIInv, RestIInv, PlanIInv, Next,
                      NEW o \in Owners, Settled(o), op[o] \in {"none", "read"}, ~Disturbs(o)
               PROVE  Settled(o)'
    OBVIOUS
  <2>1. /\ goal'[o] = goal[o] /\ called'[o] = called[o] /\ ~SomebodyElse
        /\ ~trespassed' /\ ~Ambiguous /\ (This.aside => beside' = beside)
        /\ ~(This.renumbers /\ shifted')
    BY DEF Disturbs
  <2>2. CASE \E b \in Owners : Call(b)
    BY <2>1, <2>2, SettledByCalls
  <2>3. CASE TerraformStep
    <3>1. kind' = kind /\ RowsOf(o)' = RowsOf(o)
      BY <2>1, <2>3, TerraformQuiet DEF RowsOf, Renaming
    <3>2. saved'[o] = saved[o]
      <4>1. ~Import(o)
        BY DEF Import, Settled, As, NoState, TypeIInv, EnvType, Labels
      <4>2. \A b \in Owners \ {o} : Import(b) => saved'[o] = saved[o]
        BY DEF Import
      <4>3. QED
        BY <2>3, <4>1, <4>2 DEF TerraformStep, StartRun, Plan, Kill, Configure
    <3>3. QED
      BY <2>1, <3>1, <3>2 DEF Settled, As, Named, This
  <2>4. QED
    BY <2>1, <2>2, <2>3 DEF Next, TerraformStep
<1>2. QED
  BY <1>1, TypeInductive, FollowInductive, RestInductive, PlanInductive, PTL
     DEF Spec, StaysSettled

=============================================================================
