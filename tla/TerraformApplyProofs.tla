------------------------ MODULE TerraformApplyProofs ------------------------
(***************************************************************************)
(* What plan and apply keep for any kinds of resources, any blocks and any *)
(* number of faults and edits.                                             *)
(***************************************************************************)
EXTENDS TerraformApply, FiniteSetTheorems, WellFoundedInduction, TLAPS

State == [id : Ids \cup {-1}, name : Labels \cup {0}, mine : Mine \cup {Nothing}, aside : Values]
Carry == [mine : Mine \cup {Nothing}, rest : Rest]
Outcomes == Ops \cup {"none", "error"}

(* What the steps of an operation change, what writes change, and the      *)
(* rest.                                                                   *)
LocalType ==
    /\ saved \in [Owners -> State]
    /\ phase \in {"refresh", "apply"}
    /\ op \in [Owners -> Ops \cup {"none"}]
    /\ step \in [Owners -> Nat]
    /\ carry \in [Owners -> Carry]
    /\ drawn \in [Owners -> Ids \cup {-1}]
    /\ outcome \in [Owners -> Outcomes]
DeviceType ==
    /\ rows \in SUBSET Row
    /\ beside \in Values
    /\ meddled \in SUBSET Owners
    /\ shifted \in BOOLEAN /\ trespassed \in BOOLEAN /\ dangling \in BOOLEAN
EnvType ==
    /\ kind \in DOMAIN Kinds
    /\ TrueToFlags(This)
    /\ goal \in [Owners -> Goals \cup {"none"}]
    /\ called \in [Owners -> Labels]
    /\ renamed \in SUBSET Owners
    /\ wish \in Rest
    /\ raced \in BOOLEAN
    /\ faults \in 0..MaxEvents
    /\ changes \in 0..MaxEvents

(* An operation is within its program, has what it is to write, and has    *)
(* drawn an id before it inserts.                                          *)
Ready(o) ==
    /\ op[o] # "none" => step[o] \in 1..Len(This[op[o]])
    /\ op[o] = "none" => step[o] = 1
    /\ op[o] \in {"create", "update"} => goal[o] \in Goals
    /\ op[o] # "none" /\ (\E j \in 1..(step[o] - 1) : This[op[o]][j] = "draw") => drawn[o] \in Ids

TypeIInv == LocalType /\ DeviceType /\ EnvType /\ \A o \in Owners : Ready(o)

USE OwnerAssumption, BoundAssumption

-----------------------------------------------------------------------------
(* Programs.                                                               *)

LEMMA KindFacts ==
    ASSUME EnvType
    PROVE  WellFormed(This)
  BY KindAssumption DEF EnvType, This

LEMMA FormFacts ==
    /\ DOMAIN Form = {"patch", "merge", "mergediff", "flag", "mergeflag", "mergeflagdiff",
                      "detail", "detaildiff", "mergedetail", "clear", "cleardiff", "form",
                      "formoff", "off", "mergeoff", "mergeoffdiff", "wipe", "blank"}
    /\ \A w \in DOMAIN Form : Form[w].to \in {"goal", "off"}
  BY DEF Form

LEMMA ProgramFacts ==
    ASSUME EnvType, NEW p \in Ops
    PROVE  /\ This[p] \in Seq(Words)
           /\ Len(This[p]) \in Nat \ {0}
           /\ \A i \in 1..Len(This[p]) : This[p][i] \in Words
  BY KindFacts DEF WellFormed

(* Where a word stands in its program.                                     *)
LEMMA WordFacts ==
    ASSUME TypeIInv, NEW o \in Owners, op[o] # "none"
    PROVE  /\ op[o] \in Ops
           /\ step[o] \in 1..Len(This[op[o]])
           /\ Len(This[op[o]]) \in Nat \ {0}
           /\ Word(o) \in Words
           /\ ~Final(o) => Word(o) \in Asks \cup Writes
           /\ Final(o) /\ op[o] \in {"create", "update"} => Word(o) \in Saves
           /\ Final(o) /\ op[o] = "read" => Word(o) \in Looks
           /\ Final(o) /\ op[o] = "delete" => Word(o) \in Writes \cup {"compare", "gone"}
           /\ op[o] = "read" => Word(o) \notin Writes
           /\ op[o] = "delete" /\ Word(o) \in Writes => Word(o) \in Removals
           /\ op[o] = "create" => Word(o) \notin ById
           /\ Word(o) = "insert" => \E j \in 1..(step[o] - 1) : This[op[o]][j] = "draw"
<1>1. op[o] \in Ops
  BY DEF TypeIInv, LocalType
<1>2. step[o] \in 1..Len(This[op[o]])
  BY DEF TypeIInv, Ready
<1>3. EnvType
  BY DEF TypeIInv
<1>4. This[op[o]] \in Seq(Words) /\ Len(This[op[o]]) \in Nat \ {0} /\ Word(o) \in Words
  BY <1>1, <1>2, <1>3, ProgramFacts DEF Word
<1>5. WellFormed(This)
  BY <1>3, KindFacts
<1>6. ~Final(o) => Word(o) \in Asks \cup Writes
  <2>1. \A i \in 1..(Len(This[op[o]]) - 1) : This[op[o]][i] \in Asks \cup Writes
    BY <1>1, <1>5 DEF WellFormed
  <2>2. QED
    BY <1>2, <1>4, <2>1 DEF Final, Word
<1>7. Word(o) = "insert" => \E j \in 1..(step[o] - 1) : This[op[o]][j] = "draw"
  BY <1>1, <1>2, <1>5 DEF WellFormed, Word
<1>8. /\ Final(o) /\ op[o] \in {"create", "update"} => Word(o) \in Saves
      /\ Final(o) /\ op[o] = "read" => Word(o) \in Looks
      /\ Final(o) /\ op[o] = "delete" => Word(o) \in Writes \cup {"compare", "gone"}
  <2>1. Final(o) => Word(o) = This[op[o]][Len(This[op[o]])]
    BY DEF Final, Word
  <2>2. QED
    BY <1>5, <2>1 DEF WellFormed
<1>9. /\ op[o] = "read" => Word(o) \notin Writes
      /\ op[o] = "delete" /\ Word(o) \in Writes => Word(o) \in Removals
      /\ op[o] = "create" => Word(o) \notin ById
  BY <1>2, <1>5 DEF WellFormed, Word
<1>10. QED
  BY <1>1, <1>2, <1>4, <1>6, <1>7, <1>8, <1>9

(* What may be said where: only Create and Update save and put values, and *)
(* what asks without a check is never the end.                             *)
LEMMA Places ==
    ASSUME TypeIInv, NEW o \in Owners, op[o] # "none"
    PROVE  /\ Word(o) \in Saves => op[o] \in {"create", "update"}
           /\ Word(o) \in Looks => op[o] = "read"
           /\ Word(o) \in {"fetch", "list", "peek", "draw"} => ~Final(o)
           /\ Word(o) \in Asks \cup Writes /\ Final(o) => op[o] = "delete"
           /\ Word(o) \in RowWrites \ {"enable", "delete", "deleteid"}
                => op[o] \in {"create", "update"} /\ ~Final(o)
           /\ \A w \in DOMAIN Form :
                Word(o) = w /\ Form[w].to = "goal" => op[o] \in {"create", "update"}
           /\ Word(o) = "insert" => drawn[o] \in Ids
<1> USE DEF Asks, Saves, Looks, Writes, RowWrites, Removals
<1>1. Word(o) \in Saves => op[o] \in {"create", "update"}
  BY WordFacts, FormFacts DEF Ops
<1>2. Word(o) \in Looks => op[o] = "read"
  BY WordFacts, FormFacts DEF Ops
<1>3. Word(o) \in {"fetch", "list", "peek", "draw"} => ~Final(o)
  BY WordFacts, FormFacts DEF Ops
<1>4. Word(o) \in Asks \cup Writes /\ Final(o) => op[o] = "delete"
  BY WordFacts, FormFacts DEF Ops
<1>5. Word(o) \in RowWrites \ {"enable", "delete", "deleteid"} => op[o] \in {"create", "update"}
  BY WordFacts, FormFacts DEF Ops
<1>6. \A w \in DOMAIN Form :
        Word(o) = w /\ Form[w].to = "goal" => op[o] \in {"create", "update"}
  BY WordFacts, FormFacts DEF Ops
<1>7. Word(o) = "insert" => drawn[o] \in Ids
  BY WordFacts DEF TypeIInv, Ready
<1>8. QED
  BY <1>1, <1>2, <1>3, <1>4, <1>5, <1>6, <1>7
-----------------------------------------------------------------------------
(* Tables.                                                                 *)

(* A set of numbers that something bounds has a least bound.               *)
LEMMA LeastBound ==
    ASSUME NEW S, S \subseteq Nat, NEW b \in Nat, \A n \in S : n < b
    PROVE  \E i \in 0..b : (\A n \in S : n < i) /\ (i = 0 \/ \E n \in S : n = i - 1)
<1> DEFINE T == {i \in 0..b : \A n \in S : n < i}
<1>1. T \subseteq Nat /\ b \in T
  OBVIOUS
<1>2. PICK i \in T : \A j \in T : ~(<<j, i>> \in OpToRel(<, Nat))
  BY <1>1, NatLessThanWellFounded, WFMin
<1>3. \A j \in T : ~(j < i)
  BY <1>1, <1>2 DEF OpToRel
<1>4. CASE i = 0
  BY <1>4
<1>5. CASE i # 0
  <2>1. i - 1 \in 0..b /\ i - 1 \notin T
    BY <1>3, <1>5
  <2>2. PICK n \in S : ~(n < i - 1)
    BY <2>1
  <2>3. n = i - 1
    BY <2>2
  <2>4. QED
    BY <2>2, <2>3
<1>6. QED
  BY <1>4, <1>5

LEMMA FreshFacts ==
    ASSUME DeviceType, Room
    PROVE  Fresh \in Ids /\ \A r \in rows : r.id < Fresh
<1> DEFINE S == {r.id : r \in rows}
<1>1. S \subseteq Nat /\ \A n \in S : n < MaxId
  BY DEF DeviceType, Row, Ids, Room
<1>2. PICK i \in 0..MaxId : (\A n \in S : n < i) /\ (i = 0 \/ \E n \in S : n = i - 1)
  BY <1>1, LeastBound
<1>3. (\A r \in rows : r.id < i) /\ (i = 0 \/ \E r \in rows : r.id = i - 1)
  BY <1>2
<1>4. QED
  BY <1>3 DEF Fresh, Ids

LEMMA FreeFacts ==
    ASSUME DeviceType, Room
    PROVE  Free \in Ids /\ RowsAt(Free) = {}
<1>1. Fresh \in Ids /\ RowsAt(Fresh) = {}
  BY FreshFacts DEF RowsAt, DeviceType, Row, Ids
<1>2. QED
  BY <1>1 DEF Free

LEMMA NewRowType ==
    ASSUME EnvType, NEW i \in Ids, NEW k \in Keys, NEW m \in Mine
    PROVE  NewRow(i, k, m) \in Row
  BY DEF NewRow, Row, Rest, Labels, EnvType

LEMMA GoalType ==
    ASSUME NEW v \in Values
    PROVE  Both(v) \in Mine
  BY DEF Both, Mine

LEMMA WithoutType ==
    ASSUME DeviceType, NEW d \in rows
    PROVE  Without(d) \in SUBSET Row
<1>1. \A r \in rows : r \in Row
  BY DEF DeviceType
<1>2. \A r \in rows :
        [r EXCEPT !.id = IF r.id > d.id THEN r.id - 1 ELSE r.id] \in Row
  BY <1>1 DEF Row, Ids
<1>3. QED
  BY <1>1, <1>2 DEF Without

LEMMA WrittenType ==
    ASSUME DeviceType, LocalType, NEW o \in Owners, NEW w \in DOMAIN Form, Target(o, w) \in Values
    PROVE  Written(o, w) \in SUBSET Row
<1>1. \A r \in rows : Rewrite(o, w, r) \in Row
  <2> SUFFICES ASSUME NEW r \in rows PROVE Rewrite(o, w, r) \in Row
    OBVIOUS
  <2>1. r \in Row
    BY DEF DeviceType
  <2>2. r.mine[1] \in Values /\ r.mine[2] \in Values
    BY <2>1 DEF Row, Mine
  <2>3. carry[o].rest \in Rest
    BY DEF LocalType, Carry
  <2> DEFINE m == <<IF 1 \in Form[w].parts THEN Target(o, w) ELSE r.mine[1],
                    IF 2 \in Form[w].parts THEN Target(o, w) ELSE r.mine[2]>>
             q == IF Form[w].rest = "kept" THEN r.rest
                  ELSE IF Form[w].rest = "carried" THEN carry[o].rest ELSE "zero"
  <2>4. m \in Mine
    BY <2>2 DEF Mine
  <2>5. q \in Rest
    BY <2>1, <2>3 DEF Row, Rest
  <2>6. Rewrite(o, w, r) = [r EXCEPT !.mine = m, !.rest = q]
    BY DEF Rewrite
  <2> HIDE DEF m, q
  <2>7. QED
    BY <2>1, <2>4, <2>5, <2>6 DEF Row
<1>2. QED
  BY <1>1 DEF Written, DeviceType

-----------------------------------------------------------------------------
(* How an operation goes on: what each way of going on keeps.              *)

LocalIInv == LocalType /\ \A o \in Owners : Ready(o)

LEMMA EndType ==
    ASSUME LocalIInv, NEW o \in Owners, NEW s \in State, NEW r \in Outcomes,
           End(o, s, r), UNCHANGED <<kind, goal, called>>
    PROVE  LocalIInv'
<1>1. LocalType'
  BY DEF LocalIInv, LocalType, End, Idle, NoCarry, Nothing, Both, Carry, Rest
<1>2. \A b \in Owners : Ready(b)'
  BY DEF LocalIInv, LocalType, Ready, End, Idle, This
<1>3. QED
  BY <1>1, <1>2 DEF LocalIInv

LEMMA FailType ==
    ASSUME LocalIInv, NEW o \in Owners, Fail(o), UNCHANGED <<kind, goal, called>>
    PROVE  LocalIInv'
<1>1. LocalType'
  <2>1. NoCarry \in Carry
    BY DEF NoCarry, Nothing, Both, Carry, Rest
  <2>2. CASE phase = "apply"
    BY <2>1, <2>2 DEF LocalIInv, LocalType, Fail, Idle, Outcomes
  <2>3. CASE phase # "apply"
    BY <2>1, <2>3 DEF LocalIInv, LocalType, Fail, Outcomes
  <2>4. QED
    BY <2>2, <2>3
<1>2. \A b \in Owners : Ready(b)'
  BY DEF LocalIInv, LocalType, Ready, Fail, Idle, This
<1>3. QED
  BY <1>1, <1>2 DEF LocalIInv

LEMMA NoStateType == NoState \in State
  BY DEF NoState, State, Nothing, Both, Ids, Values

LEMMA ContinueType ==
    ASSUME TypeIInv, NEW o \in Owners, op[o] # "none", Word(o) # "draw",
           Continue(o), UNCHANGED <<kind, goal, called>>
    PROVE  LocalIInv'
<1>1. CASE Final(o)
  <2>1. End(o, NoState, op[o])
    BY <1>1 DEF Continue
  <2>2. op[o] \in Outcomes
    BY WordFacts DEF Outcomes
  <2>3. QED
    BY <2>1, <2>2, NoStateType, EndType DEF TypeIInv, LocalIInv
<1>2. CASE ~Final(o)
  <2>1. /\ step' = [step EXCEPT ![o] = @ + 1]
        /\ UNCHANGED <<op, carry, drawn, saved, outcome, phase>>
    BY <1>2 DEF Continue
  <2>2. LocalType'
    BY <2>1 DEF TypeIInv, LocalType
  <2>3. step'[o] = step[o] + 1 /\ step[o] \in 1..(Len(This[op[o]]) - 1)
    BY <1>2, <2>1, WordFacts DEF TypeIInv, LocalType, Final
  <2>4. Ready(o)'
    BY <2>1, <2>3 DEF TypeIInv, Ready, This, Word
  <2>5. \A b \in Owners \ {o} : Ready(b)'
    BY <2>1 DEF TypeIInv, LocalType, Ready, This
  <2>6. QED
    BY <2>2, <2>4, <2>5 DEF LocalIInv
<1>3. QED
  BY <1>1, <1>2

LEMMA AskedType ==
    ASSUME TypeIInv, NEW o \in Owners, op[o] # "none", ~Final(o),
           NEW c \in Carry, NEW d \in Ids \cup {-1},
           Word(o) = "draw" => d \in Ids, Word(o) # "draw" => d = drawn[o],
           Asked(o, c, d), UNCHANGED <<kind, goal, called>>
    PROVE  LocalIInv'
<1>1. LocalType'
  BY DEF TypeIInv, LocalType, Asked
<1>2. step'[o] = step[o] + 1 /\ step[o] \in 1..(Len(This[op[o]]) - 1) /\ drawn'[o] = d
  BY WordFacts DEF TypeIInv, LocalType, Final, Asked
<1>3. Ready(o)'
  BY <1>2 DEF TypeIInv, Ready, This, Word, Asked
<1>4. \A b \in Owners \ {o} : Ready(b)'
  BY DEF TypeIInv, LocalType, Ready, This, Asked
<1>5. QED
  BY <1>1, <1>3, <1>4 DEF LocalIInv

LEMMA ChangeType ==
    ASSUME DeviceType, NEW o \in Owners, NEW R \in SUBSET Row, Change(o, R)
    PROVE  DeviceType'
<1>1. rows' \in SUBSET Row /\ meddled' \in SUBSET Owners /\ beside' \in Values
  BY DEF Change, DeviceType
<1>2. shifted' \in BOOLEAN /\ trespassed' \in BOOLEAN /\ dangling' \in BOOLEAN
  BY Zenon DEF Change
<1>3. QED
  BY <1>1, <1>2 DEF DeviceType

LEMMA TurnType ==
    ASSUME DeviceType, NEW o \in Owners, goal[o] \in Values, Turn(o)
    PROVE  DeviceType'
  BY DEF Turn, DeviceType

LEMMA FaultType ==
    ASSUME EnvType, MayHappen
    PROVE  faults + 1 \in 0..MaxEvents /\ changes + 1 \in 0..MaxEvents
  BY DEF EnvType, MayHappen

LEMMA UnreadType ==
    ASSUME EnvType, Unread, faults' = faults \/ (MayHappen /\ faults' = faults + 1)
    PROVE  EnvType' /\ UNCHANGED <<kind, goal, called>>
  BY FaultType DEF EnvType, Unread, This, configVars

LEMMA SentType ==
    ASSUME TypeIInv, NEW o \in Owners, op[o] # "none", Word(o) # "draw", NEW Effect,
           Effect => DeviceType', Sent(o, Effect)
    PROVE  TypeIInv'
<1>1. EnvType' /\ UNCHANGED <<kind, goal, called>>
  BY UnreadType DEF TypeIInv, Sent
<1>2. LocalIInv'
  BY <1>1, ContinueType, FailType DEF TypeIInv, LocalIInv, Sent
<1>3. DeviceType'
  <2>1. Effect \/ UNCHANGED deviceVars
    BY DEF Sent
  <2>2. CASE UNCHANGED deviceVars
    BY <2>2 DEF TypeIInv, DeviceType, deviceVars
  <2>3. QED
    BY <2>1, <2>2
<1>4. QED
  BY <1>1, <1>2, <1>3 DEF TypeIInv, LocalIInv

LEMMA SendType ==
    ASSUME TypeIInv, NEW o \in Owners, op[o] # "none", Word(o) # "draw",
           NEW R \in SUBSET Row, Send(o, R)
    PROVE  TypeIInv'
<1>1. Change(o, R) => DeviceType'
  BY ChangeType DEF TypeIInv
<1>2. QED
  BY <1>1, SentType DEF Send

(* A step that changes nothing but the operation itself.                   *)
LEMMA QuietType ==
    ASSUME TypeIInv, NEW o \in Owners, op[o] # "none",
           UNCHANGED deviceVars, Unread,
           faults' = faults \/ (MayHappen /\ faults' = faults + 1),
           \/ Word(o) # "draw" /\ Continue(o)
           \/ Fail(o)
           \/ \E s \in State, r \in Outcomes : End(o, s, r)
           \/ /\ ~Final(o)
              /\ \E c \in Carry, d \in Ids \cup {-1} :
                    /\ Word(o) = "draw" => d \in Ids
                    /\ Word(o) # "draw" => d = drawn[o]
                    /\ Asked(o, c, d)
    PROVE  TypeIInv'
<1>1. EnvType' /\ UNCHANGED <<kind, goal, called>>
  BY UnreadType DEF TypeIInv
<1>2. LocalIInv'
  BY <1>1, ContinueType, FailType, EndType, AskedType DEF TypeIInv, LocalIInv
<1>3. DeviceType'
  BY DEF TypeIInv, DeviceType, deviceVars
<1>4. QED
  BY <1>1, <1>2, <1>3 DEF TypeIInv, LocalIInv

-----------------------------------------------------------------------------
(* Each call keeps the types.                                              *)

LEMMA StateOfType ==
    ASSUME DeviceType, NEW o \in Owners, NEW r \in rows
    PROVE  StateOf(o, r) \in State
  BY DEF DeviceType, StateOf, State, Row, Both, Mine, Values, Labels

LEMMA CarryType ==
    ASSUME DeviceType, NEW r \in rows
    PROVE  [mine |-> r.mine, rest |-> r.rest] \in Carry /\ NoCarry \in Carry
  BY DEF DeviceType, Row, Carry, NoCarry, Nothing, Both, Rest

LEMMA AskKeepsType ==
    ASSUME TypeIInv, NEW o \in Owners,
           \/ Refuse(o) \/ Known(o) \/ Unused(o) \/ On(o) \/ Compare(o)
           \/ Fetch(o) \/ ListServers(o) \/ Peek(o) \/ Draw(o)
    PROVE  TypeIInv'
<1>1. op[o] # "none"
  BY DEF Refuse, Known, Unused, On, Compare, Fetch, ListServers, Peek, Draw, Says
<1>2. CASE Refuse(o) \/ Known(o) \/ Unused(o) \/ On(o) \/ Compare(o)
  <2>1. /\ Word(o) # "draw"
        /\ Continue(o) \/ Fail(o)
        /\ UNCHANGED <<deviceVars, faults>>
        /\ Unread
    BY <1>2 DEF Refuse, Known, Unused, On, Compare, Says, Check
  <2>2. QED
    BY <1>1, <2>1, QuietType
<1>3. CASE Fetch(o)
  <2>1. Word(o) = "fetch" /\ UNCHANGED <<deviceVars, faults>> /\ Unread
    BY <1>3 DEF Fetch, Says
  <2>2. ~Final(o)
    BY <1>1, <2>1, Places
  <2>3. CASE Fail(o)
    BY <1>1, <2>1, <2>3, QuietType
  <2>4. ASSUME NEW r \in rows, Asked(o, [mine |-> r.mine, rest |-> r.rest], drawn[o])
        PROVE  TypeIInv'
    <3>1. [mine |-> r.mine, rest |-> r.rest] \in Carry /\ drawn[o] \in Ids \cup {-1}
      BY CarryType DEF TypeIInv, LocalType
    <3>2. QED
      BY <1>1, <2>1, <2>2, <2>4, <3>1, QuietType
  <2>5. QED
    BY <1>3, <2>3, <2>4 DEF Fetch, RowsOf
<1>4. CASE Peek(o)
  <2>1. /\ Word(o) = "peek" /\ UNCHANGED deviceVars /\ Unread
        /\ faults' = faults \/ (MayHappen /\ faults' = faults + 1)
    BY <1>4 DEF Peek, Says
  <2>2. ~Final(o) /\ drawn[o] \in Ids \cup {-1} /\ NoCarry \in Carry
    BY <1>1, <2>1, Places DEF TypeIInv, LocalType, Carry, NoCarry, Nothing, Both, Rest
  <2>3. CASE Asked(o, NoCarry, drawn[o])
    BY <1>1, <2>1, <2>2, <2>3, QuietType
  <2>4. ASSUME NEW r \in rows, Asked(o, [mine |-> r.mine, rest |-> r.rest], drawn[o])
        PROVE  TypeIInv'
    <3>1. [mine |-> r.mine, rest |-> r.rest] \in Carry
      BY CarryType DEF TypeIInv
    <3>2. QED
      BY <1>1, <2>1, <2>2, <2>4, <3>1, QuietType
  <2>5. QED
    BY <1>4, <2>3, <2>4 DEF Peek, RowsOf
<1>5. CASE Draw(o)
  <2>1. /\ Word(o) = "draw" /\ UNCHANGED <<deviceVars, faults>> /\ Unread
        /\ Room /\ Asked(o, carry[o], Fresh)
    BY <1>5 DEF Draw, Says
  <2>2. ~Final(o) /\ carry[o] \in Carry /\ Fresh \in Ids
    BY <1>1, <2>1, Places, FreshFacts DEF TypeIInv, LocalType
  <2>3. QED
    BY <1>1, <2>1, <2>2, QuietType
<1>6. CASE ListServers(o)
  <2>1. Word(o) = "list" /\ UNCHANGED <<deviceVars, faults>> /\ Unread
    BY <1>6 DEF ListServers, Says
  <2>2. ~Final(o) /\ drawn[o] \in Ids \cup {-1}
    BY <1>1, <2>1, Places DEF TypeIInv, LocalType
  <2>3. CASE Fail(o)
    BY <1>1, <2>1, <2>3, QuietType
  <2>4. ASSUME NEW r \in rows, Asked(o, [mine |-> r.mine, rest |-> r.rest], drawn[o])
        PROVE  TypeIInv'
    <3>1. [mine |-> r.mine, rest |-> r.rest] \in Carry
      BY CarryType DEF TypeIInv
    <3>2. QED
      BY <1>1, <2>1, <2>2, <2>4, <3>1, QuietType
  <2>5. ASSUME NEW r \in rows, goal[o] \in Goals,
               Asked(o, [mine |-> <<r.mine[1], goal[o]>>, rest |-> r.rest], drawn[o])
        PROVE  TypeIInv'
    <3>1. [mine |-> <<r.mine[1], goal[o]>>, rest |-> r.rest] \in Carry
      BY <2>5 DEF TypeIInv, DeviceType, Row, Mine, Carry, Values
    <3>2. QED
      BY <1>1, <2>1, <2>2, <2>5, <3>1, QuietType
  <2>6. QED
    BY <1>6, <2>3, <2>4, <2>5 DEF ListServers, RowsOf
<1>7. QED
  BY <1>2, <1>3, <1>4, <1>5, <1>6

LEMMA EndKeepsType ==
    ASSUME TypeIInv, NEW o \in Owners,
           \/ Save(o) \/ SaveId(o) \/ SaveSame(o) \/ Trust(o) \/ Gone(o)
           \/ Find(o) \/ FindId(o) \/ Show(o)
    PROVE  TypeIInv'
<1>1. /\ op[o] # "none"
      /\ UNCHANGED <<deviceVars, faults>> /\ Unread
  BY DEF Save, SaveId, SaveSame, Trust, Gone, Find, FindId, Show, Says, NothingSent
<1>2. op[o] \in Outcomes /\ outcome[o] \in Outcomes /\ "error" \in Outcomes
  BY <1>1, WordFacts DEF TypeIInv, LocalType, Outcomes
<1>3. \A r \in rows : StateOf(o, r) \in State
  BY StateOfType DEF TypeIInv
<1>4. CASE Save(o) \/ SaveId(o) \/ SaveSame(o)
  <2>1. Fail(o) \/ \E r \in rows : Ended(o, r)
    BY <1>4 DEF Save, SaveId, SaveSame, Named, RowsOf, RowsAt
  <2>2. Fail(o) \/ \E s \in State, r \in Outcomes : End(o, s, r)
    BY <1>2, <1>3, <2>1 DEF Ended
  <2>3. QED
    BY <1>1, <2>2, QuietType
<1>5. CASE Trust(o)
  <2>1. op[o] \in {"create", "update"}
    BY <1>1, <1>5, Places DEF Trust, Says, Saves
  <2>2. goal[o] \in Values
    BY <2>1 DEF TypeIInv, Ready, Values
  <2>3. Planned(o) \in State
    <3>1. saved[o].id \in Ids \cup {-1} /\ called[o] \in Labels
      BY DEF TypeIInv, LocalType, State, EnvType
    <3>2. QED
      BY <2>2, <3>1, GoalType DEF Planned, State, Ids, Values
  <2>4. QED
    BY <1>1, <1>2, <1>5, <2>3, QuietType DEF Trust
<1>6. CASE Gone(o)
  BY <1>1, <1>2, <1>6, NoStateType, QuietType DEF Gone
<1>7. CASE Find(o) \/ FindId(o) \/ Show(o)
  <2>1. Fail(o) \/ End(o, NoState, outcome[o]) \/ \E r \in rows : End(o, StateOf(o, r), outcome[o])
    BY <1>7 DEF Find, FindId, Show, RowsOf, RowsAt
  <2>2. Fail(o) \/ \E s \in State, r \in Outcomes : End(o, s, r)
    BY <1>2, <1>3, <2>1, NoStateType
  <2>3. QED
    BY <1>1, <2>2, QuietType
<1>8. QED
  BY <1>4, <1>5, <1>6, <1>7

(* A write that is left out or turned down.                                *)
LEMMA NotSentType ==
    ASSUME TypeIInv, NEW o \in Owners, op[o] # "none", Word(o) # "draw",
           \/ Refused(o)
           \/ Continue(o) /\ UNCHANGED <<deviceVars, faults>> /\ Unread
    PROVE  TypeIInv'
  BY QuietType DEF Refused

LEMMA RowWriteKeepsType ==
    ASSUME TypeIInv, NEW o \in Owners,
           Enable(o) \/ SetState(o) \/ Add(o) \/ Bare(o) \/ Insert(o) \/ Edit(o) \/ Delete(o) \/ DeleteId(o)
    PROVE  TypeIInv'
<1>1. op[o] # "none" /\ Word(o) \in RowWrites /\ Word(o) # "draw"
  BY DEF Enable, SetState, Add, Bare, Insert, Edit, Delete, DeleteId, Says, RowWrites
<1>2. rows \in SUBSET Row /\ o \in Keys
  BY DEF TypeIInv, DeviceType, Keys
<1>3. "off" \in Values
  BY DEF Values
<1>4. Word(o) \in {"state", "add", "bare", "insert", "edit"}
        => goal[o] \in Values /\ Both(goal[o]) \in Mine /\ <<"off", goal[o]>> \in Mine
  <2>1. SUFFICES ASSUME Word(o) \in {"state", "add", "bare", "insert", "edit"}
                 PROVE  goal[o] \in Values
    BY <1>3, GoalType DEF Mine
  <2>2. op[o] \in {"create", "update"}
    BY <1>1, <2>1, Places DEF RowWrites
  <2>3. QED
    BY <2>2 DEF TypeIInv, Ready, Values
<1>5. CASE Enable(o)
  BY <1>1, <1>2, <1>5, SendType DEF Enable
<1>6. CASE Add(o) \/ Bare(o)
  <2>1. PICK m \in Mine : AddRow(o, m)
    BY <1>4, <1>6 DEF Add, Bare, Says
  <2>2. CASE Refused(o)
    BY <1>1, <2>2, NotSentType
  <2>3. CASE Send(o, rows)
    BY <1>1, <1>2, <2>3, SendType
  <2>4. CASE Room /\ Send(o, rows \cup {NewRow(Free, o, m)})
    <3>1. rows \cup {NewRow(Free, o, m)} \in SUBSET Row
      BY <1>2, <2>4, FreeFacts, NewRowType DEF TypeIInv
    <3>2. QED
      BY <1>1, <2>4, <3>1, SendType
  <2>5. QED
    BY <2>1, <2>2, <2>3, <2>4 DEF AddRow
<1>7. CASE Insert(o)
  <2> DEFINE new == NewRow(drawn[o], o, Both(goal[o]))
  <2>1. Word(o) = "insert" /\ drawn[o] \in Ids
    BY <1>1, <1>7, Places DEF Insert, Says
  <2>2. new \in Row
    BY <1>2, <1>4, <2>1, NewRowType DEF TypeIInv
  <2>3. rows \cup {new} \in SUBSET Row /\ (rows \ RowsAt(drawn[o])) \cup {new} \in SUBSET Row
    BY <1>2, <2>2
  <2>4. Send(o, rows \cup {new}) \/ Send(o, (rows \ RowsAt(drawn[o])) \cup {new})
    BY <1>7 DEF Insert
  <2> HIDE DEF new
  <2>5. QED
    BY <1>1, <2>3, <2>4, SendType
<1>8. CASE Edit(o)
  <2>1. Word(o) = "edit"
    BY <1>8 DEF Edit, Says
  <2>2. CASE Refused(o)
    BY <1>1, <2>2, NotSentType
  <2>3. ASSUME NEW r \in rows, Send(o, (rows \ {r}) \cup {Edited(o, r)})
        PROVE  TypeIInv'
    <3>1. Edited(o, r) \in Row
      BY <1>2, <1>4, <2>1 DEF Edited, Row, Rest, TypeIInv, EnvType
    <3>2. (rows \ {r}) \cup {Edited(o, r)} \in SUBSET Row
      BY <1>2, <3>1
    <3>3. QED
      BY <1>1, <2>3, <3>2, SendType
  <2>4. QED
    BY <1>8, <2>2, <2>3 DEF Edit, RowsAt
<1>9. CASE Delete(o) \/ DeleteId(o)
  <2>1. Refused(o) \/ Send(o, rows) \/ \E r \in rows : Send(o, Without(r))
    BY <1>9 DEF Delete, DeleteId, RowsOf, RowsAt
  <2>2. CASE Refused(o)
    BY <1>1, <2>2, NotSentType
  <2>3. CASE Send(o, rows)
    BY <1>1, <1>2, <2>3, SendType
  <2>4. ASSUME NEW r \in rows, Send(o, Without(r))
        PROVE  TypeIInv'
    BY <1>1, <2>4, WithoutType, SendType DEF TypeIInv
  <2>5. QED
    BY <2>1, <2>2, <2>3, <2>4
<1>10. CASE SetState(o)
  <2>1. Word(o) = "state" /\ Sent(o, Turn(o))
    BY <1>10 DEF SetState, Says
  <2>2. Turn(o) => DeviceType'
    BY <1>4, <2>1, TurnType DEF TypeIInv
  <2>3. QED
    BY <1>1, <2>1, <2>2, SentType
<1>11. QED
  BY <1>5, <1>6, <1>7, <1>8, <1>9, <1>10

LEMMA FieldWriteKeepsType ==
    ASSUME TypeIInv, NEW o \in Owners, Write(o) \/ Try(o)
    PROVE  TypeIInv'
<1>1. CASE Write(o)
  <2> DEFINE w == Word(o)
  <2>1. op[o] # "none" /\ w \in DOMAIN Form /\ w # "draw"
    BY <1>1, FormFacts DEF Write
  <2>2. Target(o, w) \in Values
    <3>1. CASE Form[w].to = "off"
      BY <3>1 DEF Target, Values
    <3>2. CASE Form[w].to = "goal"
      <4>1. op[o] \in {"create", "update"}
        BY <2>1, <3>2, Places
      <4>2. QED
        BY <3>2, <4>1 DEF Target, TypeIInv, Ready, Values
    <3>3. QED
      BY <2>1, <3>1, <3>2, FormFacts
  <2>3. Written(o, w) \in SUBSET Row
    BY <2>1, <2>2, WrittenType DEF TypeIInv
  <2>4. \/ Continue(o) /\ UNCHANGED <<deviceVars, faults>> /\ Unread
        \/ Send(o, Written(o, w))
    BY <1>1 DEF Write
  <2> HIDE DEF w
  <2>5. CASE Continue(o) /\ UNCHANGED <<deviceVars, faults>> /\ Unread
    BY <2>1, <2>5, NotSentType DEF w
  <2>6. CASE Send(o, Written(o, w))
    BY <2>1, <2>3, <2>6, SendType DEF w
  <2>7. QED
    BY <2>4, <2>5, <2>6
<1>2. CASE Try(o)
  <2>1. /\ op[o] # "none" /\ Word(o) = "try" /\ Continue(o) /\ Unread
        /\ faults' = faults \/ (MayHappen /\ faults' = faults + 1)
        /\ Change(o, Written(o, "merge")) \/ UNCHANGED deviceVars
    BY <1>2 DEF Try, Says
  <2>2. op[o] \in {"create", "update"}
    BY <2>1, Places DEF RowWrites
  <2>3. "merge" \in DOMAIN Form /\ Target(o, "merge") \in Values
    BY <2>2 DEF Form, Target, TypeIInv, Ready, Values
  <2>4. Written(o, "merge") \in SUBSET Row
    BY <2>3, WrittenType DEF TypeIInv
  <2>5. EnvType' /\ UNCHANGED <<kind, goal, called>>
    BY <2>1, UnreadType DEF TypeIInv
  <2>6. LocalIInv'
    BY <2>1, <2>5, ContinueType
  <2>7. DeviceType'
    <3>1. CASE Change(o, Written(o, "merge"))
      BY <2>4, <3>1, ChangeType DEF TypeIInv
    <3>2. CASE UNCHANGED deviceVars
      BY <3>2 DEF TypeIInv, DeviceType, deviceVars
    <3>3. QED
      BY <2>1, <3>1, <3>2
  <2>8. QED
    BY <2>5, <2>6, <2>7 DEF TypeIInv, LocalIInv
<1>3. QED
  BY <1>1, <1>2

LEMMA CallKeepsType ==
    ASSUME TypeIInv, NEW o \in Owners, Call(o)
    PROVE  TypeIInv'
<1>1. CASE CallFails(o)
  BY <1>1, QuietType DEF CallFails
<1>2. QED
  BY <1>1, AskKeepsType, EndKeepsType, RowWriteKeepsType, FieldWriteKeepsType DEF Call

-----------------------------------------------------------------------------
(* Terraform and somebody else.                                            *)

(* A block that changes its name takes a row of nobody's, or leaves its    *)
(* own to nobody.                                                          *)
LEMMA ConfigureRows ==
    ASSUME rows \in SUBSET Row, NEW o \in Owners, NEW g, NEW n \in Labels, Configure(o, g, n)
    PROVE  rows' \in SUBSET Row
<1>1. ASSUME NEW S PROVE Relabelled(o, n, S) \in SUBSET Row
  <2>1. \A r \in rows : /\ [r EXCEPT !.key = o, !.name = n] \in Row
                        /\ [r EXCEPT !.key = Stranger, !.name = 1] \in Row
    BY DEF Row, Keys, Labels
  <2>2. QED
    BY <2>1 DEF Relabelled
<1>2. rows' = rows \/ \E S : rows' = Relabelled(o, n, S)
  BY DEF Configure
<1>3. QED
  BY <1>1, <1>2

LEMMA TerraformKeepsType ==
    ASSUME TypeIInv,
           \/ StartRun \/ Plan \/ Kill
           \/ \E o \in Owners : Import(o)
           \/ \E o \in Owners, g \in Goals \cup {"none"}, n \in Labels : Configure(o, g, n)
    PROVE  TypeIInv'
<1> USE DEF TypeIInv
<1>1. CASE StartRun
  <2>1. EnvType' /\ DeviceType'
    BY <1>1, Zenon DEF StartRun, EnvType, DeviceType, This, configVars
  <2>2. LocalType'
    BY <1>1 DEF StartRun, LocalType, Ops
  <2>3. ASSUME NEW o \in Owners PROVE Ready(o)'
    <3>1. op[o] = "none" /\ step[o] = 1 /\ step'[o] = 1 /\ op'[o] \in {"read", "none"}
      BY <1>1 DEF StartRun, Resting, Ready
    <3>2. Len(This["read"]) \in Nat \ {0}
      BY ProgramFacts DEF Ops
    <3>3. QED
      BY <1>1, <3>1, <3>2 DEF StartRun, Ready, This, configVars
  <2>4. QED
    BY <2>1, <2>2, <2>3
<1>2. CASE Plan
  <2>1. EnvType'
    BY <1>2 DEF Plan, EnvType, This, configVars
  <2>2. DeviceType'
    BY <1>2 DEF Plan, DeviceType
  <2>3. \A o \in Owners : Todo(o) \in Ops \cup {"none"}
    BY DEF Todo, Ops
  <2>4. LocalType'
    BY <1>2, <2>3 DEF Plan, LocalType, Outcomes
  <2>5. ASSUME NEW o \in Owners PROVE Ready(o)'
    <3>1. step[o] = 1 /\ step'[o] = 1 /\ op'[o] = Todo(o) /\ goal'[o] = goal[o]
      BY <1>2 DEF Plan, Ready, configVars
    <3>2. Todo(o) # "none" => Len(This[Todo(o)]) \in Nat \ {0}
      BY <2>3, ProgramFacts
    <3>3. Todo(o) \in {"create", "update"} => goal[o] \in Goals
      BY DEF EnvType, Todo
    <3>4. QED
      BY <1>2, <3>1, <3>2, <3>3 DEF Plan, Ready, This
  <2>6. QED
    BY <2>1, <2>2, <2>4, <2>5
<1>3. CASE Kill
  <2>1. EnvType'
    BY <1>3, FaultType DEF Kill, EnvType, This, configVars
  <2>2. DeviceType'
    BY <1>3 DEF Kill, DeviceType
  <2>3. NoCarry \in Carry
    BY DEF NoCarry, Nothing, Both, Carry, Rest
  <2>4. LocalType'
    BY <1>3, <2>3 DEF Kill, LocalType, Outcomes
  <2>5. \A o \in Owners : Ready(o)'
    BY <1>3 DEF Kill, Ready, configVars
  <2>6. QED
    BY <2>1, <2>2, <2>4, <2>5
<1>4. ASSUME NEW o \in Owners, Import(o)
      PROVE  TypeIInv'
  <2>1. EnvType'
    BY <1>4 DEF Import, EnvType, This, configVars
  <2>2. DeviceType'
    BY <1>4 DEF Import, DeviceType
  <2>3. \A r \in rows : StateOf(o, r) \in State
    BY StateOfType
  <2>4. LocalType'
    BY <1>4, <2>3 DEF Import, LocalType, Outcomes, RowsOf, localVars
  <2>5. \A b \in Owners : Ready(b)'
    BY <1>4 DEF Import, Ready, This, localVars, configVars
  <2>6. QED
    BY <2>1, <2>2, <2>4, <2>5
<1>5. ASSUME NEW o \in Owners, NEW g \in Goals \cup {"none"}, NEW n \in Labels, Configure(o, g, n)
      PROVE  TypeIInv'
  <2>1. renamed' \in SUBSET Owners
    BY <1>5 DEF Configure, EnvType
  <2>2. EnvType'
    BY <1>5, <2>1, FaultType DEF Configure, EnvType, This
  <2>3. rows' \in SUBSET Row
    BY <1>5, ConfigureRows DEF DeviceType
  <2>4. DeviceType'
    BY <1>5, <2>3 DEF Configure, DeviceType
  <2>5. LocalType'
    BY <1>5 DEF Configure, LocalType, Outcomes, localVars
  <2>6. \A b \in Owners : Ready(b)'
    BY <1>5 DEF Configure, Resting, Ready, This, localVars
  <2>7. QED
    BY <2>2, <2>4, <2>5, <2>6
<1>6. QED
  BY <1>1, <1>2, <1>3, <1>4, <1>5

LEMMA SomebodyElseKeepsType ==
    ASSUME TypeIInv, SomebodyElse
    PROVE  TypeIInv'
<1> USE DEF TypeIInv
<1>1. UNCHANGED <<kind, goal, called, renamed, saved, phase, localVars, outcome, trespassed, dangling, faults>>
  BY DEF SomebodyElse, SetMine, SetRest, Remove, Appear, SetBeside, Elsewhere, configVars
<1>2. changes' \in 0..MaxEvents
  BY FaultType DEF SomebodyElse, SetMine, SetRest, Remove, Appear, SetBeside, Elsewhere, configVars
<1>3. rows \in SUBSET Row /\ \A v \in Values : Both(v) \in Mine
  BY GoalType DEF DeviceType
<1>4. rows' \in SUBSET Row
  <2>1. ASSUME NEW r \in rows, NEW m \in Edits(r), SetMine(r, m)
        PROVE  rows' \in SUBSET Row
    <3>1. m \in Mine
      BY <1>3, <2>1 DEF Edits, Row, Mine
    <3>2. QED
      BY <1>3, <2>1, <3>1 DEF SetMine, Row
  <2>2. ASSUME NEW r \in rows, NEW q \in {"x", "y"}, SetRest(r, q)
        PROVE  rows' \in SUBSET Row
    BY <1>3, <2>2 DEF SetRest, Row, Rest
  <2>3. ASSUME NEW r \in rows, Remove(r)
        PROVE  rows' \in SUBSET Row
    BY <2>3, WithoutType DEF Remove
  <2>4. CASE Appear
    <3> DEFINE k == IF This.collection THEN Stranger ELSE First
    <3>1. Room
      BY <2>4 DEF Appear, Room
    <3>2. NewRow(Fresh, k, Both("off")) \in Row
      BY <1>3, <3>1, FreshFacts, NewRowType DEF Keys, Values
    <3>3. rows' = rows \cup {NewRow(Fresh, k, Both("off"))}
      BY <2>4 DEF Appear
    <3>4. QED
      BY <1>3, <3>2, <3>3
  <2>5. QED
    BY <1>3, <2>1, <2>2, <2>3, <2>4 DEF SomebodyElse, SetBeside
<1>5. meddled' \in SUBSET Owners
  BY DEF SomebodyElse, SetMine, SetRest, Remove, Appear, SetBeside, DeviceType
<1>6. wish' \in Rest
  BY DEF SomebodyElse, SetMine, SetRest, Remove, Appear, SetBeside, EnvType, Rest
<1>7. shifted' \in BOOLEAN /\ raced' \in BOOLEAN
  BY Zenon DEF SomebodyElse, SetMine, SetRest, Remove, Appear, SetBeside, EnvType, DeviceType
<1>0. beside' \in Values
  BY DEF SomebodyElse, SetMine, SetRest, Remove, Appear, SetBeside, Besides, Values, Goals, DeviceType
<1>8. EnvType' /\ DeviceType'
  BY <1>0, <1>1, <1>2, <1>4, <1>5, <1>6, <1>7 DEF EnvType, DeviceType, This
<1>9. LocalType' /\ \A o \in Owners : Ready(o)'
  BY <1>1 DEF LocalType, Ready, This, localVars
<1>10. QED
  BY <1>8, <1>9

-----------------------------------------------------------------------------
(* The flags of the kinds are true to their programs.                      *)
TrueFlags == \A n \in DOMAIN Kinds : TrueToFlags(Kinds[n])

LEMMA TypeInitially == TrueFlags /\ Init => TypeIInv
<1> SUFFICES ASSUME TrueFlags, Init PROVE TypeIInv
  OBVIOUS
<1>1. EnvType
  <2>1. kind \in DOMAIN Kinds /\ TrueToFlags(This)
    BY DEF Init, TrueFlags, This
  <2>2. goal \in [Owners -> Goals \cup {"none"}]
    BY DEF Init, Goals
  <2>0. called \in [Owners -> Labels] /\ renamed \in SUBSET Owners
    BY DEF Init, Labels
  <2>3. wish \in Rest /\ faults \in 0..MaxEvents /\ changes \in 0..MaxEvents
    BY DEF Init, Rest
  <2>4. raced \in BOOLEAN
    BY DEF Init
  <2>5. QED
    BY <2>0, <2>1, <2>2, <2>3, <2>4 DEF EnvType
<1>2. DeviceType
  <2>1. \A v \in {"off", "a"} :
          [id |-> 0, key |-> IF This.collection THEN Stranger ELSE First, name |-> 1,
           mine |-> <<"off", v>>, rest |-> "x"] \in Row
    BY DEF Row, Ids, Keys, Rest, Values, Goals, Mine, Labels
  <2>2. rows \in SUBSET Row
    BY <2>1 DEF Init
  <2>3. beside \in Values
    BY DEF Init, Besides, Values, Goals
  <2>4. QED
    BY <2>2, <2>3 DEF Init, DeviceType
<1>3. LocalType
  <2>1. NoCarry \in Carry
    BY DEF NoCarry, Nothing, Both, Carry, Rest
  <2>2. QED
    BY <2>1, NoStateType DEF Init, LocalType, Outcomes
<1>4. \A o \in Owners : Ready(o)
  BY DEF Init, Ready
<1>5. QED
  BY <1>1, <1>2, <1>3, <1>4 DEF TypeIInv

LEMMA TypeStep == TypeIInv /\ [Next]_vars => TypeIInv'
<1> SUFFICES ASSUME TypeIInv, [Next]_vars PROVE TypeIInv'
  OBVIOUS
<1>1. CASE Next
  BY <1>1, CallKeepsType, TerraformKeepsType, SomebodyElseKeepsType DEF Next
<1>2. CASE UNCHANGED vars
  BY <1>2 DEF vars, TypeIInv, LocalType, DeviceType, EnvType, Ready, This
<1>3. QED
  BY <1>1, <1>2

LEMMA TypeInductive == TrueFlags /\ Spec => []TypeIInv
  BY TypeInitially, TypeStep, PTL DEF Spec

LEMMA TypeConsequence == TypeIInv => TypeOK
<1> SUFFICES ASSUME TypeIInv PROVE TypeOK
  OBVIOUS
<1>1. \A o \in Owners : op[o] # "none" => step[o] \in DOMAIN This[op[o]]
  <2> SUFFICES ASSUME NEW o \in Owners, op[o] # "none" PROVE step[o] \in DOMAIN This[op[o]]
    OBVIOUS
  <2>1. op[o] \in Ops /\ step[o] \in 1..Len(This[op[o]])
    BY WordFacts
  <2>2. This[op[o]] \in Seq(Words)
    BY <2>1, ProgramFacts DEF TypeIInv
  <2>3. QED
    BY <2>1, <2>2
<1>2. <<raced, shifted, trespassed, dangling>> \in BOOLEAN \X BOOLEAN \X BOOLEAN \X BOOLEAN
  BY DEF TypeIInv, EnvType, DeviceType
<1>3. kind \in DOMAIN Kinds /\ kind \in Flagged
  BY DEF TypeIInv, EnvType, Flagged, This
<1>4. QED
  BY <1>1, <1>2, <1>3 DEF TypeIInv, LocalType, DeviceType, EnvType, TypeOK, State, Carry, Outcomes

(* Whatever the programs, as long as their flags are true, every variable  *)
(* keeps its type: no operation runs past the end of its program or writes *)
(* what it does not have.                                                  *)
THEOREM TypeCorrect == TrueFlags /\ Spec => []TypeOK
  BY TypeInductive, TypeConsequence, PTL

-----------------------------------------------------------------------------
(* An apply that reports success.                                          *)

(* The value is on the appliance; it stays there until somebody else       *)
(* writes, and an operation under way has not reported anything yet.       *)
Real(o) ==
    /\ outcome[o] \in {"create", "update"} \ This.trusts /\ o \notin meddled /\ ~trespassed
        => Done(o)
    /\ op[o] \in {"create", "update", "delete"} => outcome[o] = "none"
RealIInv == \A o \in Owners : Real(o)

LEMMA SameContent ==
    ASSUME NEW R, NEW S, NEW k, Content(R, k) = Content(S, k), NEW r \in S, r.key = k
    PROVE  \E q \in R : q.key = k /\ q.name = r.name /\ q.mine = r.mine
<1> DEFINE What(T) == {<<q.name, q.mine, q.rest>> : q \in {x \in T : x.key = k}}
<1>1. What(R) = What(S)
  BY DEF Content
<1>2. <<r.name, r.mine, r.rest>> \in What(S)
  OBVIOUS
<1>3. <<r.name, r.mine, r.rest>> \in What(R)
  BY <1>1, <1>2
<1>4. \E q \in {x \in R : x.key = k} : <<r.name, r.mine, r.rest>> = <<q.name, q.mine, q.rest>>
  BY <1>3, Zenon
<1>5. QED
  BY <1>4

(* What an operation's way of going on does to what is reported.           *)
LEMMA Reports ==
    ASSUME TypeIInv, NEW o \in Owners, op[o] # "none",
           \/ Word(o) \in Asks \cup Writes /\ Continue(o)
           \/ Fail(o)
    PROVE  /\ outcome'[o] \in {"delete", "error"} \/ outcome'[o] = outcome[o]
           /\ outcome'[o] = outcome[o] => op'[o] \in {op[o], "none"}
           /\ outcome'[o] # outcome[o] => op'[o] = "none"
           /\ \A b \in Owners \ {o} : outcome'[b] = outcome[b] /\ op'[b] \in {op[b], "none"}
<1>1. CASE Fail(o)
  BY <1>1 DEF TypeIInv, LocalType, Fail, Idle
<1>2. CASE Word(o) \in Asks \cup Writes /\ Continue(o) /\ Final(o)
  <2>1. End(o, NoState, op[o])
    BY <1>2 DEF Continue
  <2>2. op[o] = "delete"
    BY <1>2, Places
  <2>3. QED
    BY <2>1, <2>2 DEF TypeIInv, LocalType, End, Idle
<1>3. CASE Continue(o) /\ ~Final(o)
  BY <1>3 DEF TypeIInv, LocalType, Continue
<1>4. QED
  BY <1>1, <1>2, <1>3

(* What a call of block o's does to the appliance, if it does anything.    *)
Affects(o) == UNCHANGED deviceVars \/ Turn(o) \/ \E R : Change(o, R)

(* It leaves the others' values and their flag, or counts as meddling.     *)
LEMMA ChangeLeaves ==
    ASSUME NEW o \in Owners, NEW b \in Owners \ {o}, NEW R, Change(o, R),
           b \notin meddled', Done(b), UNCHANGED <<kind, goal, called>>
    PROVE  Done(b)'
<1>1. Content(R, b) = Content(rows, b) /\ rows' = R /\ beside' = beside
  BY DEF Change
<1>2. PICK r \in rows : r.key = b /\ r.name = called[b] /\ r.mine = Both(goal[b])
  BY DEF Done, Named, RowsOf
<1>3. \E q \in R : q.key = b /\ q.name = r.name /\ q.mine = r.mine
  BY <1>1, <1>2, SameContent
<1>4. QED
  BY <1>1, <1>2, <1>3 DEF Done, Named, RowsOf, This

LEMMA TurnLeaves ==
    ASSUME NEW o \in Owners, NEW b \in Owners \ {o}, Turn(o),
           b \notin meddled', Done(b), UNCHANGED <<kind, goal, called>>
    PROVE  Done(b)'
  BY DEF Turn, Done, Named, RowsOf, This

(* The blocks whose operation is not the one that takes the step.          *)
LEMMA OthersReal ==
    ASSUME RealIInv, NEW o \in Owners, NEW b \in Owners \ {o},
           outcome'[b] = outcome[b], op'[b] \in {op[b], "none"},
           UNCHANGED <<kind, goal, called>>,
           Affects(o)
    PROVE  Real(b)'
<1>1. Real(b)
  BY DEF RealIInv
<1>2. b \notin meddled' /\ ~trespassed' => b \notin meddled /\ ~trespassed
  BY DEF Affects, Change, Turn, deviceVars
<1>3. b \notin meddled' /\ Done(b) => Done(b)'
  <2>1. CASE UNCHANGED deviceVars
    BY <2>1 DEF Done, Named, RowsOf, This, deviceVars
  <2>2. CASE \E R : Change(o, R)
    BY <2>2, ChangeLeaves
  <2>3. CASE Turn(o)
    BY <2>3, TurnLeaves
  <2>4. QED
    BY <2>1, <2>2, <2>3 DEF Affects
<1>4. QED
  BY <1>1, <1>2, <1>3 DEF Real, This

(* The block whose operation writes: it has reported nothing, and reports  *)
(* nothing but the end of a Delete, or an error.                           *)
LEMMA WriteReal ==
    ASSUME TypeIInv, RealIInv, NEW o \in Owners, op[o] # "none",
           Word(o) \in Writes,
           Continue(o) \/ Fail(o),
           UNCHANGED <<kind, goal, called>>,
           Affects(o)
    PROVE  RealIInv'
<1>1. outcome[o] = "none"
  BY WordFacts DEF RealIInv, Real, Ops
<1>2. Real(o)'
  BY <1>1, Reports DEF Real
<1>3. ASSUME NEW b \in Owners \ {o} PROVE Real(b)'
  BY OthersReal, Reports
<1>4. QED
  BY <1>2, <1>3 DEF RealIInv

LEMMA SendReal ==
    ASSUME TypeIInv, RealIInv, NEW o \in Owners, op[o] # "none", Word(o) \in Writes,
           (\E R : Send(o, R)) \/ Sent(o, Turn(o))
    PROVE  RealIInv'
<1>1. Affects(o) /\ (Continue(o) \/ Fail(o)) /\ Unread
  BY DEF Send, Sent, Affects
<1>2. QED
  BY <1>1, WriteReal DEF Unread, configVars

(* A block that ends an operation with success has its value there.        *)
LEMMA QuietReal ==
    ASSUME TypeIInv, RealIInv, NEW o \in Owners, op[o] # "none",
           UNCHANGED deviceVars, Unread,
           \/ Word(o) \in Asks \cup Writes /\ Continue(o)
           \/ Fail(o)
           \/ \E s, r : /\ End(o, s, r)
                        /\ \/ r = outcome[o] \/ r \in {"delete", "error"}
                           \/ r \in This.trusts \/ Done(o)
           \/ \E c, d : Asked(o, c, d)
    PROVE  RealIInv'
<1>1. UNCHANGED <<kind, goal, called>>
  BY DEF Unread, configVars
<1>2. Real(o) /\ (Done(o) => Done(o)') /\ UNCHANGED <<meddled, trespassed>> /\ Affects(o)
  BY <1>1 DEF RealIInv, Done, Named, RowsOf, This, deviceVars, Affects
<1>3. CASE (Word(o) \in Asks \cup Writes /\ Continue(o)) \/ Fail(o)
  <2>1. Real(o)'
    BY <1>1, <1>2, <1>3, Reports DEF Real, This
  <2>2. ASSUME NEW b \in Owners \ {o} PROVE Real(b)'
    BY <1>1, <1>2, <1>3, Reports, OthersReal
  <2>3. QED
    BY <2>1, <2>2 DEF RealIInv
<1>4. ASSUME NEW s, NEW r, End(o, s, r),
             \/ r = outcome[o] \/ r \in {"delete", "error"}
             \/ r \in This.trusts \/ Done(o)
      PROVE  RealIInv'
  <2>1. /\ outcome'[o] = r /\ op'[o] = "none"
        /\ \A b \in Owners \ {o} : outcome'[b] = outcome[b] /\ op'[b] = op[b]
    BY <1>4 DEF TypeIInv, LocalType, End, Idle
  <2>2. Real(o)'
    BY <1>1, <1>2, <1>4, <2>1 DEF Real, This
  <2>3. ASSUME NEW b \in Owners \ {o} PROVE Real(b)'
    BY <1>1, <1>2, <2>1, OthersReal
  <2>4. QED
    BY <2>2, <2>3 DEF RealIInv
<1>5. ASSUME NEW c, NEW d, Asked(o, c, d)
      PROVE  RealIInv'
  <2>1. \A b \in Owners : outcome'[b] = outcome[b] /\ op'[b] = op[b]
    BY <1>5 DEF Asked
  <2>2. Real(o)'
    BY <1>1, <1>2, <2>1 DEF Real, This
  <2>3. ASSUME NEW b \in Owners \ {o} PROVE Real(b)'
    BY <1>1, <1>2, <2>1, OthersReal
  <2>4. QED
    BY <2>2, <2>3 DEF RealIInv
<1>6. QED
  BY <1>3, <1>4, <1>5

LEMMA CallReal ==
    ASSUME TypeIInv, RealIInv, NEW o \in Owners, Call(o)
    PROVE  RealIInv'
<1> USE DEF Says
<1>1. CASE Refuse(o) \/ Known(o) \/ Unused(o) \/ On(o) \/ Compare(o)
  <2>1. /\ op[o] # "none" /\ Word(o) \in Asks
        /\ Continue(o) \/ Fail(o)
        /\ UNCHANGED deviceVars /\ Unread
    BY <1>1 DEF Refuse, Known, Unused, On, Compare, Check, Asks
  <2>2. QED
    BY <2>1, QuietReal
<1>2. CASE Fetch(o) \/ ListServers(o) \/ Peek(o) \/ Draw(o)
  <2>1. /\ op[o] # "none"
        /\ Fail(o) \/ \E c, d : Asked(o, c, d)
        /\ UNCHANGED deviceVars /\ Unread
    BY <1>2 DEF Fetch, ListServers, Peek, Draw
  <2>2. QED
    BY <2>1, QuietReal
<1>3. CASE \/ Enable(o) \/ SetState(o) \/ Add(o) \/ Bare(o) \/ Insert(o) \/ Edit(o)
           \/ Delete(o) \/ DeleteId(o)
  <2>1. op[o] # "none" /\ Word(o) \in Writes
    BY <1>3 DEF Enable, SetState, Add, Bare, Insert, Edit, Delete, DeleteId, Writes, RowWrites
  <2>2. Refused(o) \/ Sent(o, Turn(o)) \/ \E R : Send(o, R)
    BY <1>3 DEF Enable, SetState, Add, Bare, AddRow, Insert, Edit, Delete, DeleteId
  <2>3. CASE Refused(o)
    BY <2>1, <2>3, QuietReal DEF Refused
  <2>4. QED
    BY <2>1, <2>2, <2>3, SendReal
<1>4. CASE Write(o)
  <2>1. op[o] # "none" /\ Word(o) \in Writes
    BY <1>4 DEF Write, Writes
  <2>2. \/ Continue(o) /\ UNCHANGED <<deviceVars, faults>> /\ Unread
        \/ Send(o, Written(o, Word(o)))
    BY <1>4 DEF Write
  <2>3. QED
    BY <2>1, <2>2, QuietReal, SendReal
<1>5. CASE Try(o)
  <2>1. op[o] # "none" /\ Word(o) \in Writes /\ Continue(o) /\ Affects(o) /\ Unread
    BY <1>5 DEF Try, Writes, RowWrites, Affects
  <2>2. QED
    BY <2>1, WriteReal DEF Unread, configVars
<1>6. CASE Save(o) \/ SaveId(o) \/ SaveSame(o)
  <2>1. /\ op[o] # "none" /\ Word(o) \in Saves /\ UNCHANGED deviceVars /\ Unread
        /\ Fail(o) \/ \E r \in rows : Ended(o, r)
    BY <1>6 DEF Save, SaveId, SaveSame, Named, RowsOf, RowsAt, NothingSent, Saves
  <2>2. goal[o] \in Goals
    BY <2>1, Places DEF TypeIInv, Ready
  <2>3. ASSUME NEW r \in rows, As(o, StateOf(o, r)) PROVE Done(o)
    <3>1. called[o] # 0
      BY DEF TypeIInv, EnvType, Labels
    <3>2. r.key = o
      BY <2>3, <3>1 DEF As, StateOf
    <3>3. r.name = called[o] /\ r.mine = Both(goal[o]) /\ (This.aside => beside = goal[o])
      BY <2>3, <3>2 DEF As, StateOf
    <3>4. QED
      BY <3>2, <3>3 DEF Done, Named, RowsOf
  <2>4. QED
    BY <2>1, <2>3, QuietReal DEF Ended
<1>7. CASE Trust(o)
  <2>1. /\ op[o] # "none" /\ Word(o) \in {"trust", "saveortrust"}
        /\ UNCHANGED deviceVars /\ Unread
        /\ \E s : End(o, s, op[o])
    BY <1>7 DEF Trust, NothingSent
  <2>2. op[o] \in {"create", "update"}
    BY <2>1, Places DEF Saves
  <2>3. Word(o) = This[op[o]][Len(This[op[o]])]
    BY <2>1, WordFacts, FormFacts DEF Final, Word, Asks, Writes, RowWrites
  <2>4. op[o] \in This.trusts
    BY <2>1, <2>2, <2>3 DEF TypeIInv, EnvType, TrueToFlags
  <2>5. QED
    BY <2>1, <2>4, QuietReal
<1>8. CASE Gone(o)
  <2>1. /\ op[o] # "none" /\ Word(o) = "gone" /\ UNCHANGED deviceVars /\ Unread
        /\ End(o, NoState, op[o])
    BY <1>8 DEF Gone, NothingSent
  <2>2. op[o] = "delete"
    BY <2>1, WordFacts, FormFacts DEF Asks, Writes, RowWrites, Saves, Looks, Ops
  <2>3. QED
    BY <2>1, <2>2, QuietReal
<1>9. CASE Find(o) \/ FindId(o) \/ Show(o)
  <2>1. /\ op[o] # "none" /\ UNCHANGED deviceVars /\ Unread
        /\ Fail(o) \/ \E s : End(o, s, outcome[o])
    BY <1>9 DEF Find, FindId, Show, NothingSent
  <2>2. QED
    BY <2>1, QuietReal
<1>10. CASE CallFails(o)
  BY <1>10, QuietReal DEF CallFails
<1>11. QED
  BY <1>1, <1>2, <1>3, <1>4, <1>5, <1>6, <1>7, <1>8, <1>9, <1>10 DEF Call

LEMMA ConfigureOthers ==
    ASSUME DeviceType, NEW o, NEW g, NEW n, Configure(o, g, n), NEW b, b # o, b # Stranger
    PROVE  /\ \A r \in rows : r.key = b => r \in rows'
           /\ \A r \in rows' : r.key = b => r \in rows
<1>1. PICK S : rows' = rows \/ (rows' = Relabelled(o, n, S) /\ S \subseteq RowsOf(Stranger))
  BY DEF Configure
<1>2. CASE rows' = rows
  BY <1>2
<1>3. CASE rows' = Relabelled(o, n, S) /\ S \subseteq RowsOf(Stranger)
  <2>1. \A r \in rows : /\ [r EXCEPT !.key = o, !.name = n].key = o
                        /\ [r EXCEPT !.key = Stranger, !.name = 1].key = Stranger
    BY DEF DeviceType, Row
  <2>2. \A r \in rows : r.key = b => r \notin S
    BY <1>3 DEF RowsOf
  <2>3. QED
    BY <1>3, <2>1, <2>2 DEF Relabelled
<1>4. QED
  BY <1>1, <1>2, <1>3

LEMMA TerraformReal ==
    ASSUME TypeIInv, RealIInv,
           \/ StartRun \/ Plan \/ Kill
           \/ \E o \in Owners : Import(o)
           \/ \E o \in Owners, g \in Goals \cup {"none"}, n \in Labels : Configure(o, g, n)
    PROVE  RealIInv'
<1> USE DEF RealIInv, Real, Done, Named, RowsOf, This, TypeIInv, LocalType, configVars
<1>1. CASE StartRun
  BY <1>1 DEF StartRun
<1>2. CASE Plan
  BY <1>2 DEF Plan
<1>3. CASE Kill
  BY <1>3 DEF Kill
<1>4. CASE \E o \in Owners : Import(o)
  BY <1>4 DEF Import, Resting, localVars
<1>5. ASSUME NEW o \in Owners, NEW g \in Goals \cup {"none"}, NEW n \in Labels, Configure(o, g, n)
      PROVE  RealIInv'
  <2>1. Real(o)'
    BY <1>5 DEF Configure, Resting, localVars
  <2>2. ASSUME NEW b \in Owners \ {o} PROVE Real(b)'
    <3>1. \A r \in rows : r.key = b => r \in rows'
      BY <1>5, ConfigureOthers
    <3>2. QED
      BY <1>5, <3>1 DEF Configure, Resting, localVars
  <2>3. QED
    BY <2>1, <2>2
<1>6. QED
  BY <1>1, <1>2, <1>3, <1>4, <1>5

LEMMA SomebodyElseReal ==
    ASSUME TypeIInv, RealIInv, SomebodyElse
    PROVE  RealIInv'
<1>1. UNCHANGED <<kind, goal, called, op, outcome, trespassed>>
  BY DEF SomebodyElse, SetMine, SetRest, Remove, Appear, SetBeside, Elsewhere, localVars, configVars
<1>2. meddled \subseteq meddled'
  BY DEF SomebodyElse, SetMine, SetRest, Remove, Appear, SetBeside, TypeIInv, DeviceType
<1>3. ASSUME NEW o \in Owners, o \notin meddled', Done(o)
      PROVE  Done(o)'
  <2>1. PICK r \in rows : r.key = o /\ r.name = called[o] /\ r.mine = Both(goal[o])
    BY <1>3 DEF Done, Named, RowsOf
  <2>0. This.aside => beside' = beside
    BY <1>3 DEF SomebodyElse, SetMine, SetRest, Remove, Appear, SetBeside
  <2>2. SUFFICES \E q \in rows' : q.key = o /\ q.name = r.name /\ q.mine = r.mine
    BY <1>1, <1>3, <2>0, <2>1 DEF Done, Named, RowsOf, This
  <2>3. r \in Row
    BY DEF TypeIInv, DeviceType
  <2>4. ASSUME NEW s \in rows, NEW m, SetMine(s, m)
        PROVE  r \in rows'
    BY <1>3, <2>1, <2>4 DEF SetMine
  <2>5. ASSUME NEW s \in rows, NEW q \in {"x", "y"}, SetRest(s, q)
        PROVE  \E t \in rows' : t.key = o /\ t.name = r.name /\ t.mine = r.mine
    <3>1. CASE s = r
      <4>1. [r EXCEPT !.rest = q] \in rows'
        BY <2>5, <3>1 DEF SetRest
      <4>2. QED
        BY <2>1, <2>3, <4>1 DEF Row
    <3>2. CASE s # r
      BY <2>1, <2>5, <3>2 DEF SetRest
    <3>3. QED
      BY <3>1, <3>2
  <2>6. ASSUME NEW d \in rows, Remove(d)
        PROVE  \E t \in rows' : t.key = o /\ t.name = r.name /\ t.mine = r.mine
    <3>1. r # d /\ rows' = Without(d)
      BY <1>3, <2>1, <2>6 DEF Remove
    <3>2. \/ r \in rows'
          \/ [r EXCEPT !.id = IF r.id > d.id THEN r.id - 1 ELSE r.id] \in rows'
      BY <3>1 DEF Without
    <3>3. QED
      BY <2>1, <2>3, <3>2 DEF Row
  <2>7. CASE Appear
    BY <2>1, <2>7 DEF Appear
  <2>8. QED
    BY <2>1, <2>4, <2>5, <2>6, <2>7 DEF SomebodyElse, SetBeside
<1>4. QED
  BY <1>1, <1>2, <1>3 DEF RealIInv, Real, This

LEMMA RealInductive == TrueFlags /\ Spec => []RealIInv
<1>1. Init => RealIInv
  BY DEF Init, RealIInv, Real
<1>2. TypeIInv /\ RealIInv /\ [Next]_vars => RealIInv'
  <2> SUFFICES ASSUME TypeIInv, RealIInv, [Next]_vars PROVE RealIInv'
    OBVIOUS
  <2>1. CASE Next
    BY <2>1, CallReal, TerraformReal, SomebodyElseReal DEF Next
  <2>2. CASE UNCHANGED vars
    BY <2>2 DEF vars, RealIInv, Real, Done, Named, RowsOf, This
  <2>3. QED
    BY <2>1, <2>2
<1>3. QED
  BY <1>1, <1>2, TypeInductive, PTL DEF Spec

(* For any kinds of resources whose flags are true: an apply that reports  *)
(* success has put the planned value on the appliance, whatever was        *)
(* discarded, lost or killed before, and it is there until somebody else   *)
(* writes, or another block turns the flag they share.                     *)
THEOREM SuccessMeansDone == TrueFlags /\ Spec => []SuccessIsReal
<1>1. RealIInv => SuccessIsReal
  BY DEF RealIInv, Real, SuccessIsReal
<1>2. QED
  BY <1>1, RealInductive, PTL

-----------------------------------------------------------------------------
(* Rows that are not an operation's.                                       *)

Own(S, k) == {r \in S : r.key = k}

LEMMA ImageFinite ==
    ASSUME NEW S, IsFiniteSet(S), NEW f, f = [x \in S |-> f[x]]
    PROVE  LET T == {f[x] : x \in S}
           IN  /\ IsFiniteSet(T)
               /\ Cardinality(T) <= Cardinality(S)
               /\ (\A x, y \in S : f[x] = f[y] => x = y) => Cardinality(T) = Cardinality(S)
<1> DEFINE T == {f[x] : x \in S}
<1>1. f \in Surjection(S, T)
  <2>1. f \in [S -> T]
    OBVIOUS
  <2>2. \A t \in T : \E x \in S : f[x] = t
    OBVIOUS
  <2>3. QED
    BY <2>1, <2>2 DEF Surjection
<1>2. (\A x, y \in S : f[x] = f[y] => x = y) => f \in Injection(S, T)
  BY <1>1 DEF Surjection, Injection, IsInjective
<1>3. QED
  BY <1>1, <1>2, FS_Surjection

(* Fewer rows are not the same content.                                    *)
LEMMA LostRow ==
    ASSUME NEW R, NEW S, IsFiniteSet(S), NEW k, NEW r \in S, r.key = k,
           Own(R, k) \subseteq S \ {r}
    PROVE  Content(R, k) # Content(S, k)
<1>1. Own(R, k) \subseteq Own(S, k) /\ r \in Own(S, k) /\ r \notin Own(R, k)
  BY DEF Own
<1>2. IsFiniteSet(Own(S, k))
  BY FS_Subset DEF Own
<1>3. Cardinality(Own(R, k)) # Cardinality(Own(S, k))
  BY <1>1, <1>2, FS_Subset
<1>4. QED
  BY <1>3 DEF Content, Own

LEMMA SameRows ==
    ASSUME NEW R, NEW S, NEW k, Own(R, k) = Own(S, k)
    PROVE  Content(R, k) = Content(S, k)
  BY DEF Content, Own

(* A row of a table from which d is taken, wherever it is moved.           *)
Closed(d, r) == [r EXCEPT !.id = IF r.id > d.id THEN r.id - 1 ELSE r.id]

LEMMA ClosedFacts ==
    ASSUME DeviceType, NEW d \in rows, NEW r \in rows
    PROVE  /\ Closed(d, r).key = r.key /\ Closed(d, r).mine = r.mine
           /\ Closed(d, r).rest = r.rest /\ Closed(d, r).name = r.name
           /\ Closed(d, r).id = IF r.id > d.id THEN r.id - 1 ELSE r.id
           /\ r.id \in Nat /\ d.id \in Nat
  BY DEF DeviceType, Row, Ids, Closed

(* What of a table without d is a key's.                                   *)
LEMMA WithoutOwn ==
    ASSUME DeviceType, IsFiniteSet(rows), NEW d \in rows, NEW k
    PROVE  /\ IsFiniteSet(Without(d))
           /\ Cardinality(Own(Without(d), k)) <= Cardinality(Own(rows \ {d}, k))
           /\ IsFiniteSet(Own(rows \ {d}, k))
<1>1. IsFiniteSet(rows \ {d}) /\ IsFiniteSet(Own(rows \ {d}, k))
  BY FS_RemoveElement, FS_Subset DEF Own
<1>2. Cardinality(Own(rows \ {d}, k)) \in Nat
  BY <1>1, FS_CardinalityType
<1>3. CASE ~This.renumbers
  BY <1>1, <1>2, <1>3 DEF Without
<1>4. CASE This.renumbers
  <2>1. Without(d) = {Closed(d, r) : r \in rows \ {d}}
    BY <1>4 DEF Without, Closed
  <2>2. IsFiniteSet({Closed(d, r) : r \in rows \ {d}})
    <3> DEFINE S == rows \ {d}
               f == [r \in S |-> Closed(d, r)]
    <3>1. f = [r \in S |-> f[r]]
      OBVIOUS
    <3>2. {Closed(d, r) : r \in rows \ {d}} = {f[r] : r \in S}
      OBVIOUS
    <3> HIDE DEF f, S
    <3>3. IsFiniteSet(S)
      BY <1>1 DEF S
    <3>4. IsFiniteSet({f[r] : r \in S})
      BY <3>1, <3>3, ImageFinite
    <3>5. QED
      BY <3>2, <3>4
  <2>3. Cardinality(Own(Without(d), k)) <= Cardinality(Own(rows \ {d}, k))
    <3> DEFINE S == Own(rows \ {d}, k)
               f == [r \in S |-> Closed(d, r)]
    <3>1. f = [r \in S |-> f[r]]
      OBVIOUS
    <3>2. \A r \in rows : Closed(d, r).key = r.key
      BY ClosedFacts
    <3>3. Own(Without(d), k) = {f[r] : r \in S}
      BY <2>1, <3>2 DEF Own
    <3> HIDE DEF f, S
    <3>4. IsFiniteSet(S)
      BY <1>1 DEF S
    <3>5. Cardinality(Own(Without(d), k)) <= Cardinality(S)
      BY <3>1, <3>3, <3>4, ImageFinite
    <3>6. QED
      BY <3>5 DEF S
  <2>4. QED
    BY <1>1, <2>1, <2>2, <2>3
<1>5. QED
  BY <1>3, <1>4

(* Taking another key's row away changes that key's content; taking away   *)
(* one's own does not, as long as no two rows have one id.                 *)
LEMMA WithoutTaken ==
    ASSUME DeviceType, IsFiniteSet(rows), NEW d \in rows
    PROVE  Content(Without(d), d.key) # Content(rows, d.key)
<1>1. IsFiniteSet(Own(rows, d.key)) /\ d \in Own(rows, d.key)
  BY FS_Subset DEF Own
<1>2. Own(rows \ {d}, d.key) = Own(rows, d.key) \ {d}
  BY DEF Own
<1>3. /\ Cardinality(Own(rows \ {d}, d.key)) = Cardinality(Own(rows, d.key)) - 1
      /\ Cardinality(Own(rows, d.key)) \in Nat
  <2> DEFINE S == Own(rows, d.key)
  <2>1. IsFiniteSet(S) /\ d \in S /\ Own(rows \ {d}, d.key) = S \ {d}
    BY <1>1, <1>2
  <2> HIDE DEF S
  <2>2. Cardinality(S \ {d}) = Cardinality(S) - 1 /\ Cardinality(S) \in Nat
    BY <2>1, FS_RemoveElement, FS_CardinalityType
  <2>3. QED
    BY <2>1, <2>2 DEF S
<1>4. Cardinality(Own(Without(d), d.key)) <= Cardinality(Own(rows \ {d}, d.key))
  BY WithoutOwn
<1>5. Cardinality(Own(Without(d), d.key)) # Cardinality(Own(rows, d.key))
  <2>1. Cardinality(Own(Without(d), d.key)) \in Nat
    BY WithoutOwn, FS_Subset, FS_CardinalityType DEF Own
  <2>2. QED
    BY <1>3, <1>4, <2>1
<1>6. QED
  BY <1>5 DEF Content, Own

LEMMA WithoutOthers ==
    ASSUME DeviceType, IsFiniteSet(rows), NEW d \in rows, NEW k, k # d.key,
           \A r, s \in rows : r # s => r.id # s.id
    PROVE  Content(Without(d), k) = Content(rows, k)
<1>1. Own(rows \ {d}, k) = Own(rows, k)
  BY DEF Own
<1>2. CASE ~This.renumbers
  BY <1>1, <1>2, SameRows DEF Without
<1>3. CASE This.renumbers
  <2> DEFINE S == Own(rows, k)
             f == [r \in S |-> Closed(d, r)]
  <2>1. Without(d) = {Closed(d, r) : r \in rows \ {d}}
    BY <1>3 DEF Without, Closed
  <2>2. \A r \in rows : /\ Closed(d, r).key = r.key /\ Closed(d, r).mine = r.mine
                        /\ Closed(d, r).rest = r.rest /\ Closed(d, r).name = r.name
    BY ClosedFacts
  <2>3. Own(Without(d), k) = {f[r] : r \in S}
    <3>1. Own(Without(d), k) = {Closed(d, r) : r \in Own(rows \ {d}, k)}
      BY <2>1, <2>2 DEF Own
    <3>2. QED
      BY <1>1, <3>1
  <2>4. f = [r \in S |-> f[r]]
    OBVIOUS
  <2>5. \A r, s \in S : f[r] = f[s] => r = s
    <3> SUFFICES ASSUME NEW r \in S, NEW s \in S, f[r] = f[s] PROVE r = s
      OBVIOUS
    <3>1. r \in rows /\ s \in rows /\ r # d /\ s # d
      BY DEF Own
    <3>2. Closed(d, r).id = Closed(d, s).id
      OBVIOUS
    <3>3. r.id # d.id /\ s.id # d.id
      BY <3>1
    <3>4. r.id = s.id
      BY <3>1, <3>2, <3>3, ClosedFacts
    <3>5. QED
      BY <3>1, <3>4
  <2>6. {<<q.name, q.mine, q.rest>> : q \in {f[r] : r \in S}}
          = {<<r.name, r.mine, r.rest>> : r \in S}
    <3>1. \A r \in S : f[r].name = r.name /\ f[r].mine = r.mine /\ f[r].rest = r.rest
      BY <2>2 DEF Own
    <3> HIDE DEF f, S
    <3>2. QED
      BY <3>1
  <2> HIDE DEF f
  <2>7. IsFiniteSet(S)
    BY FS_Subset DEF Own
  <2>8. Cardinality({f[r] : r \in S}) = Cardinality(S)
    BY <2>4, <2>5, <2>7, ImageFinite
  <2>9. QED
    BY <2>3, <2>6, <2>8 DEF Content, Own
<1>4. QED
  BY <1>2, <1>3

-----------------------------------------------------------------------------
(* The tables that a call of block o's operation can leave.                *)

Grown(o, R) ==
    \E new \in Row :
        /\ \/ Word(o) \in {"add", "bare"} /\ RowsOf(o) = {}
           \/ Word(o) = "insert" /\ new.id = drawn[o]
        /\ new.key = o /\ new.name = called[o]
        /\ R = rows \cup {new}
Refilled(o, R) ==
    \E w \in DOMAIN Form :
        /\ Word(o) = w \/ (Word(o) = "try" /\ w = "merge")
        /\ R = Written(o, w)
Overwritten(o, R) ==
    \E new \in Row :
        /\ Word(o) = "insert" /\ new.id = drawn[o] /\ drawn[o] \in Ids
        /\ new.key = o /\ new.name = called[o]
        /\ R = (rows \ RowsAt(drawn[o])) \cup {new}
Rekeyed(o, R) ==
    \E r \in rows, s \in Row :
        /\ Word(o) = "edit" /\ r.id = saved[o].id
        /\ s.id = r.id /\ s.key = o /\ s.name = called[o]
        /\ R = (rows \ {r}) \cup {s}
Deleted(o, R) ==
    \E d \in rows :
        /\ R = Without(d)
        /\ \/ Word(o) = "delete" /\ d.key = o
           \/ Word(o) = "deleteid" /\ d.id = saved[o].id
After(o, R) ==
    \/ R = rows
    \/ Grown(o, R) \/ Refilled(o, R)
    \/ Overwritten(o, R) \/ Rekeyed(o, R) \/ Deleted(o, R)

(* The rows are left alone: nothing is sent, or the flag outside of them.  *)
Steady == UNCHANGED <<rows, shifted, trespassed, dangling>>

LEMMA SendChanges ==
    ASSUME NEW o \in Owners, NEW R, Send(o, R), After(o, R)
    PROVE  Steady \/ \E S : Change(o, S) /\ After(o, S)
  BY DEF Send, Sent, Steady, deviceVars

LEMMA CallChanges ==
    ASSUME TypeIInv, NEW o \in Owners, Call(o)
    PROVE  Steady \/ \E R : Change(o, R) /\ After(o, R)
<1>1. CASE Enable(o)
  BY <1>1, SendChanges DEF Enable, After
<1>2. CASE Add(o) \/ Bare(o)
  <2>1. o \in Keys
    BY DEF Keys
  <2>2. Both(goal[o]) \in Mine /\ <<"off", goal[o]>> \in Mine
    <3>1. op[o] \in {"create", "update"}
      BY <1>2, Places DEF Add, Bare, Says, RowWrites
    <3>2. goal[o] \in Values /\ "off" \in Values
      BY <3>1 DEF TypeIInv, Ready, Values
    <3>3. QED
      BY <3>2, GoalType DEF Mine
  <2>3. PICK m \in Mine : AddRow(o, m)
    BY <1>2, <2>1, <2>2 DEF Add, Bare
  <2>4. Word(o) \in {"add", "bare"}
    BY <1>2 DEF Add, Bare, Says
  <2>5. CASE Refused(o)
    BY <2>5 DEF Refused, Steady, deviceVars
  <2>6. CASE Send(o, rows)
    BY <2>6, SendChanges DEF After
  <2>7. CASE RowsOf(o) = {} /\ Room /\ Send(o, rows \cup {NewRow(Free, o, m)})
    <3>1. /\ NewRow(Free, o, m) \in Row
          /\ NewRow(Free, o, m).key = o /\ NewRow(Free, o, m).name = called[o]
      BY <2>1, <2>7, FreeFacts, NewRowType DEF TypeIInv, NewRow
    <3>2. After(o, rows \cup {NewRow(Free, o, m)})
      BY <2>7, <2>4, <3>1 DEF After, Grown
    <3>3. QED
      BY <2>7, <3>2, SendChanges
  <2>8. QED
    BY <2>3, <2>5, <2>6, <2>7 DEF AddRow
<1>3. CASE Insert(o)
  <2> DEFINE new == NewRow(drawn[o], o, Both(goal[o]))
  <2>1. op[o] # "none" /\ Word(o) = "insert"
    BY <1>3 DEF Insert, Says
  <2>2. op[o] \in {"create", "update"} /\ drawn[o] \in Ids
    BY <2>1, Places DEF RowWrites
  <2>3. new \in Row /\ new.key = o /\ new.name = called[o] /\ new.id = drawn[o]
    BY <2>2, GoalType, NewRowType DEF TypeIInv, Ready, Values, Keys, NewRow
  <2>4. Send(o, rows \cup {new}) \/ Send(o, (rows \ RowsAt(drawn[o])) \cup {new})
    BY <1>3 DEF Insert
  <2> HIDE DEF new
  <2>5. After(o, rows \cup {new})
    BY <2>1, <2>3 DEF After, Grown
  <2>6. After(o, (rows \ RowsAt(drawn[o])) \cup {new})
    BY <2>1, <2>2, <2>3 DEF After, Overwritten
  <2>7. QED
    BY <2>4, <2>5, <2>6, SendChanges
<1>4. CASE Edit(o)
  <2>1. op[o] # "none" /\ Word(o) = "edit"
    BY <1>4 DEF Edit, Says
  <2>2. op[o] \in {"create", "update"}
    BY <2>1, Places DEF RowWrites
  <2>3. Both(goal[o]) \in Mine
    BY <2>2, GoalType DEF TypeIInv, Ready, Values
  <2>4. CASE Refused(o)
    BY <2>4 DEF Refused, Steady, deviceVars
  <2>5. ASSUME NEW r \in RowsAt(saved[o].id), Send(o, (rows \ {r}) \cup {Edited(o, r)})
        PROVE  Steady \/ \E S : Change(o, S) /\ After(o, S)
    <3> DEFINE s == Edited(o, r)
    <3>1. r \in rows /\ r \in Row /\ r.id = saved[o].id
      BY DEF RowsAt, TypeIInv, DeviceType
    <3>2. s \in Row /\ s.id = r.id /\ s.key = o /\ s.name = called[o]
      BY <2>3, <3>1 DEF Edited, Row, Keys, Rest, TypeIInv, EnvType
    <3> HIDE DEF s
    <3>3. After(o, (rows \ {r}) \cup {s})
      BY <2>1, <3>1, <3>2 DEF After, Rekeyed
    <3>4. QED
      BY <2>5, <3>3, SendChanges DEF s
  <2>6. QED
    BY <1>4, <2>4, <2>5 DEF Edit
<1>5. CASE Delete(o) \/ DeleteId(o)
  <2>1. CASE Refused(o)
    BY <2>1 DEF Refused, Steady, deviceVars
  <2>2. CASE Send(o, rows)
    BY <2>2, SendChanges DEF After
  <2>3. ASSUME NEW d \in rows, Send(o, Without(d)),
               \/ Word(o) = "delete" /\ d.key = o
               \/ Word(o) = "deleteid" /\ d.id = saved[o].id
        PROVE  Steady \/ \E S : Change(o, S) /\ After(o, S)
    BY <2>3, SendChanges DEF After, Deleted
  <2>4. QED
    BY <1>5, <2>1, <2>2, <2>3 DEF Delete, DeleteId, Says, RowsOf, RowsAt
<1>6. CASE Write(o)
  <2>1. Word(o) \in DOMAIN Form /\ (Steady \/ Send(o, Written(o, Word(o))))
    BY <1>6 DEF Write, Steady, deviceVars
  <2>2. After(o, Written(o, Word(o)))
    BY <2>1 DEF After, Refilled
  <2>3. QED
    BY <2>1, <2>2, SendChanges
<1>7. CASE Try(o)
  <2>1. Steady \/ Change(o, Written(o, "merge"))
    BY <1>7 DEF Try, Steady, deviceVars
  <2>2. After(o, Written(o, "merge"))
    BY <1>7, FormFacts DEF After, Refilled, Try, Says
  <2>3. QED
    BY <2>1, <2>2
<1>8. CASE \/ Refuse(o) \/ Known(o) \/ Unused(o) \/ On(o) \/ Compare(o)
           \/ Fetch(o) \/ ListServers(o) \/ Peek(o) \/ Draw(o)
  BY <1>8 DEF Refuse, Known, Unused, On, Compare, Check, Fetch, ListServers, Peek, Draw,
              Steady, deviceVars
<1>9. CASE \/ Save(o) \/ SaveId(o) \/ SaveSame(o) \/ Trust(o) \/ Gone(o)
           \/ Find(o) \/ FindId(o) \/ Show(o) \/ CallFails(o)
  BY <1>9 DEF Save, SaveId, SaveSame, Trust, Gone, Find, FindId, Show, CallFails, NothingSent,
              Steady, deviceVars
<1>10. CASE SetState(o)
  BY <1>10 DEF SetState, Sent, Turn, Steady, deviceVars
<1>11. QED
  BY <1>1, <1>2, <1>3, <1>4, <1>5, <1>6, <1>7, <1>8, <1>9, <1>10 DEF Call

(* A call goes on to the next, or ends its operation; a failure during a   *)
(* refresh ends every operation.                                           *)
Onward(o) ==
    /\ op' = op /\ saved' = saved /\ phase' = phase
    /\ step'[o] = step[o] + 1
    /\ \A b \in Owners \ {o} : step'[b] = step[b]
Ending(o) ==
    /\ op'[o] = "none" /\ phase' = phase
    /\ \A b \in Owners \ {o} : op'[b] = op[b] /\ saved'[b] = saved[b] /\ step'[b] = step[b]
Failing(o) ==
    /\ saved' = saved /\ phase' = "apply"
    /\ op'[o] = "none"
    /\ \A b \in Owners \ {o} : op'[b] = "none" \/ (op'[b] = op[b] /\ step'[b] = step[b])

LEMMA Ways ==
    ASSUME TypeIInv, NEW o \in Owners
    PROVE  /\ (\E s, r : End(o, s, r)) => Ending(o)
           /\ Fail(o) => Failing(o)
           /\ (\E c, d : Asked(o, c, d)) => Onward(o)
           /\ Continue(o) => Onward(o) \/ (Final(o) /\ Ending(o))
<1> USE DEF TypeIInv, LocalType
<1>1. (\E s, r : End(o, s, r)) => Ending(o)
  BY DEF End, Idle, Ending
<1>2. Fail(o) => Failing(o)
  BY DEF Fail, Idle, Failing
<1>3. (\E c, d : Asked(o, c, d)) => Onward(o)
  BY DEF Asked, Onward
<1>4. Continue(o) => Onward(o) \/ (Final(o) /\ Ending(o))
  BY <1>1 DEF Continue, Onward
<1>5. QED
  BY <1>1, <1>2, <1>3, <1>4

LEMMA CallGoesOn ==
    ASSUME TypeIInv, NEW o \in Owners, Call(o)
    PROVE  /\ op[o] # "none" /\ kind' = kind
           /\ \/ Onward(o) \/ Failing(o)
              \/ Ending(o) /\ op[o] # "read"
              \/ Ending(o) /\ op[o] = "read" /\ (Find(o) \/ FindId(o) \/ Show(o))
<1> USE DEF Says
<1>1. CASE Refuse(o) \/ Known(o) \/ Unused(o) \/ On(o) \/ Compare(o)
  <2>1. op[o] # "none" /\ kind' = kind /\ Word(o) \in Asks /\ (Continue(o) \/ Fail(o))
    BY <1>1 DEF Refuse, Known, Unused, On, Compare, Check, Unread, Asks
  <2>2. QED
    BY <2>1, Ways, Places
<1>2. CASE Fetch(o) \/ ListServers(o) \/ Peek(o) \/ Draw(o)
  <2>1. op[o] # "none" /\ kind' = kind /\ (Fail(o) \/ \E c, d : Asked(o, c, d))
    BY <1>2 DEF Fetch, ListServers, Peek, Draw, Unread
  <2>2. QED
    BY <2>1, Ways
<1>3. CASE \/ Enable(o) \/ Add(o) \/ Bare(o) \/ Insert(o) \/ Edit(o) \/ Delete(o) \/ DeleteId(o)
           \/ Write(o) \/ Try(o) \/ SetState(o)
  <2>1. op[o] # "none" /\ Word(o) \in Writes
    BY <1>3 DEF Enable, SetState, Add, Bare, Insert, Edit, Delete, DeleteId, Write, Try,
                Writes, RowWrites
  <2>2. kind' = kind /\ (Continue(o) \/ Fail(o))
    <3>1. \/ Refused(o) \/ Sent(o, Turn(o)) \/ \E R : Send(o, R)
          \/ Continue(o) /\ Unread
      BY <1>3 DEF Enable, SetState, Add, Bare, AddRow, Insert, Edit, Delete, DeleteId, Write, Try
    <3>2. QED
      BY <3>1 DEF Refused, Send, Sent, Unread
  <2>3. QED
    BY <2>1, <2>2, Ways, Places
<1>4. CASE Save(o) \/ SaveId(o) \/ SaveSame(o) \/ Trust(o) \/ Gone(o)
  <2>1. op[o] # "none" /\ kind' = kind /\ (Fail(o) \/ \E s, r : End(o, s, r))
    BY <1>4 DEF Save, SaveId, SaveSame, Trust, Gone, Ended, NothingSent, Unread
  <2>2. op[o] # "read"
    BY <1>4, <2>1, WordFacts, FormFacts
       DEF Save, SaveId, SaveSame, Trust, Gone, Asks, Writes, RowWrites, Looks
  <2>3. QED
    BY <2>1, <2>2, Ways
<1>5. CASE Find(o) \/ FindId(o) \/ Show(o)
  <2>1. op[o] # "none" /\ kind' = kind /\ (Fail(o) \/ \E s, r : End(o, s, r))
    BY <1>5 DEF Find, FindId, Show, NothingSent, Unread
  <2>2. QED
    BY <1>5, <2>1, Ways
<1>6. CASE CallFails(o)
  BY <1>6, Ways DEF CallFails, Unread
<1>7. QED
  BY <1>1, <1>2, <1>3, <1>4, <1>5, <1>6 DEF Call

-----------------------------------------------------------------------------
(* From a block's read to the end of its operation the id that is saved    *)
(* for it is that of a row of its own, or its row has been deleted.        *)

HasOwn(o) == \E r \in rows : r.key = o /\ r.id = saved[o].id
HasDeleted(o) ==
    op[o] # "none" /\ \E i \in 1..(step[o] - 1) : This[op[o]][i] \in {"delete", "deleteid"}
GoesById(o) ==
    op[o] \in {"update", "delete"} \/ (phase = "refresh" /\ op[o] = "none" /\ saved[o] # NoState)
WritesById == \E p \in Ops : \E i \in 1..Len(This[p]) : This[p][i] \in ById
FollowIInv ==
    /\ IsFiniteSet(rows)
    /\ phase = "refresh" => \A o \in Owners : op[o] \in {"read", "none"}
    /\ WritesById /\ ~This.byid /\ ~shifted /\ ~trespassed =>
        \A o \in Owners : GoesById(o) => HasOwn(o) \/ HasDeleted(o)

LEMMA WrittenRows ==
    ASSUME DeviceType, NEW o \in Owners, NEW w
    PROVE  /\ \A r \in rows : /\ Rewrite(o, w, r).key = r.key /\ Rewrite(o, w, r).id = r.id
                             /\ Rewrite(o, w, r).name = r.name
           /\ \A k : k # o => Own(Written(o, w), k) = Own(rows, k)
<1>1. \A r \in rows : /\ Rewrite(o, w, r).key = r.key /\ Rewrite(o, w, r).id = r.id
                     /\ Rewrite(o, w, r).name = r.name
  BY DEF DeviceType, Row, Rewrite
<1>2. QED
  BY <1>1 DEF Written, Own

LEMMA WrittenFinite ==
    ASSUME IsFiniteSet(rows), NEW o, NEW w
    PROVE  IsFiniteSet(Written(o, w))
<1> DEFINE f == [r \in rows |-> IF r.key = o THEN Rewrite(o, w, r) ELSE r]
<1>1. f = [r \in rows |-> f[r]] /\ Written(o, w) = {f[r] : r \in rows}
  BY DEF Written
<1> HIDE DEF f
<1>2. QED
  BY <1>1, ImageFinite

LEMMA AfterFinite ==
    ASSUME DeviceType, IsFiniteSet(rows), NEW o \in Owners, NEW R, After(o, R)
    PROVE  IsFiniteSet(R)
<1>1. CASE Grown(o, R)
  BY <1>1, FS_AddElement DEF Grown
<1>2. CASE Refilled(o, R)
  BY <1>2, WrittenFinite DEF Refilled
<1>3. CASE Overwritten(o, R)
  <2>1. IsFiniteSet(rows \ RowsAt(drawn[o]))
    BY FS_Subset
  <2>2. QED
    BY <1>3, <2>1, FS_AddElement DEF Overwritten
<1>4. CASE Rekeyed(o, R)
  <2>1. PICK r, s : R = (rows \ {r}) \cup {s}
    BY <1>4 DEF Rekeyed
  <2>2. IsFiniteSet(rows \ {r})
    BY FS_RemoveElement
  <2>3. QED
    BY <2>1, <2>2, FS_AddElement
<1>5. CASE Deleted(o, R)
  BY <1>5, WithoutOwn DEF Deleted
<1>6. QED
  BY <1>1, <1>2, <1>3, <1>4, <1>5 DEF After

(* A row that is moved leaves the highest id of the table unused.          *)
LEMMA MovedShifts ==
    ASSUME DeviceType, This.renumbers, NEW d \in rows, NEW r \in rows, r.id > d.id
    PROVE  \E m \in rows : \A q \in Without(d) : q.id # m.id
<1> DEFINE S == {x.id : x \in rows}
<1>1. S \subseteq Nat /\ MaxId + 1 \in Nat /\ \A n \in S : n < MaxId + 1
  BY DEF DeviceType, Row, Ids
<1>2. PICK i \in 0..(MaxId + 1) : (\A n \in S : n < i) /\ (i = 0 \/ \E n \in S : n = i - 1)
  BY <1>1, LeastBound
<1>3. /\ \A x \in rows : x.id < i /\ x.id \in Nat
      /\ i = 0 \/ \E x \in rows : x.id = i - 1
  BY <1>1, <1>2
<1>4. PICK m \in rows : m.id = i - 1
  BY <1>3
<1>5. \A x \in rows : x.id <= m.id /\ x.id \in Nat
  BY <1>3, <1>4
<1>6. \A x \in rows : Closed(d, x).id # m.id
  BY <1>5, ClosedFacts
<1>7. \A q \in Without(d) : q.id # m.id
  BY <1>6 DEF Without, Closed
<1>8. QED
  BY <1>7

(* What a call does to the row of a block whose operation it is not: the   *)
(* row stays, or ids have shifted, or it counts as trespassing.            *)
LEMMA OthersRowStays ==
    ASSUME TypeIInv, IsFiniteSet(rows), NEW o \in Owners, NEW b \in Owners \ {o},
           NEW R, Change(o, R), After(o, R), HasOwn(b), saved'[b] = saved[b],
           ~shifted', ~trespassed'
    PROVE  HasOwn(b)'
<1>1. PICK r \in rows : r.key = b /\ r.id = saved[b].id
  BY DEF HasOwn
<1>2. SUFFICES \E q \in R : q.key = b /\ q.id = r.id
  BY <1>1 DEF HasOwn, Change
<1>3. /\ Content(R, b) = Content(rows, b)
      /\ \A x \in rows : \E q \in R : q.id = x.id
  BY DEF Change, Keys
<1>4. DeviceType
  BY DEF TypeIInv
<1>5. CASE R = rows \/ Grown(o, R)
  BY <1>1, <1>5 DEF Grown
<1>6. CASE Refilled(o, R)
  BY <1>1, <1>6 DEF Refilled, Written
<1>7. CASE Overwritten(o, R) \/ Rekeyed(o, R)
  <2>1. CASE r \in R
    BY <1>1, <2>1
  <2>2. CASE r \notin R
    <3>1. Own(R, b) \subseteq rows \ {r}
      BY <1>1, <1>7, <2>2 DEF Overwritten, Rekeyed, Own
    <3>2. Content(R, b) # Content(rows, b)
      BY <1>1, <3>1, LostRow
    <3>3. QED
      BY <1>3, <3>2
  <2>3. QED
    BY <2>1, <2>2
<1>8. CASE Deleted(o, R)
  <2>1. PICK d \in rows : R = Without(d)
    BY <1>8 DEF Deleted
  <2>2. CASE d.key = b
    BY <1>3, <1>4, <2>1, <2>2, WithoutTaken
  <2>3. CASE d.key # b /\ ~This.renumbers
    BY <1>1, <2>1, <2>3 DEF Without
  <2>4. CASE d.key # b /\ This.renumbers
    <3>1. ~(r.id > d.id)
      BY <1>3, <1>4, <2>1, <2>4, MovedShifts
    <3>2. Closed(d, r) \in R
      BY <1>1, <2>1, <2>4 DEF Without, Closed
    <3>3. QED
      BY <1>1, <1>4, <3>1, <3>2, ClosedFacts
  <2>5. QED
    BY <2>2, <2>3, <2>4
<1>9. QED
  BY <1>5, <1>6, <1>7, <1>8 DEF After

(* What a call does to its own block's row: it stays, or it is deleted.    *)
LEMMA OwnRowStays ==
    ASSUME TypeIInv, NEW o \in Owners, NEW R, Change(o, R), After(o, R),
           HasOwn(o), saved'[o] = saved[o]
    PROVE  HasOwn(o)' \/ Word(o) \in {"delete", "deleteid"}
<1>1. PICK r \in rows : r.key = o /\ r.id = saved[o].id
  BY DEF HasOwn
<1>2. rows' = R
  BY DEF Change
<1>3. SUFFICES (\E q \in R : q.key = o /\ q.id = r.id) \/ Word(o) \in {"delete", "deleteid"}
  BY <1>1, <1>2 DEF HasOwn
<1>4. CASE R = rows \/ Grown(o, R)
  BY <1>1, <1>4 DEF Grown
<1>5. ASSUME NEW w \in DOMAIN Form, R = Written(o, w)
      PROVE  \E q \in R : q.key = o /\ q.id = r.id
  <2>1. Rewrite(o, w, r).key = o /\ Rewrite(o, w, r).id = r.id
    BY <1>1, WrittenRows DEF TypeIInv
  <2>2. Rewrite(o, w, r) \in R
    BY <1>1, <1>5 DEF Written
  <2>3. QED
    BY <2>1, <2>2
<1>6. CASE Overwritten(o, R)
  BY <1>1, <1>6 DEF Overwritten, RowsAt
<1>7. CASE Rekeyed(o, R)
  BY <1>1, <1>7 DEF Rekeyed
<1>8. CASE Deleted(o, R)
  BY <1>8 DEF Deleted
<1>9. QED
  BY <1>4, <1>5, <1>6, <1>7, <1>8 DEF After, Refilled

LEMMA FollowCall ==
    ASSUME TypeIInv, FollowIInv, NEW o \in Owners, Call(o)
    PROVE  FollowIInv'
<1>1. op[o] # "none" /\ kind' = kind
  BY CallGoesOn
<1>2. Steady \/ \E R : Change(o, R) /\ After(o, R)
  BY CallChanges
<1>3. IsFiniteSet(rows)'
  <2>1. CASE Steady
    BY <2>1 DEF FollowIInv, Steady
  <2>2. ASSUME NEW R, Change(o, R), After(o, R)
        PROVE  IsFiniteSet(rows')
    BY <2>2, AfterFinite DEF FollowIInv, TypeIInv, Change
  <2>3. QED
    BY <1>2, <2>1, <2>2
<1>4. (phase = "refresh" => \A b \in Owners : op[b] \in {"read", "none"})'
  <2>1. CASE Onward(o)
    BY <2>1 DEF Onward, FollowIInv
  <2>2. CASE Ending(o)
    BY <2>2 DEF Ending, FollowIInv
  <2>3. CASE Failing(o)
    BY <2>3 DEF Failing
  <2>4. QED
    BY <2>1, <2>2, <2>3, CallGoesOn
<1>5. ASSUME WritesById, ~This.byid, ~shifted', ~trespassed',
             NEW b \in Owners, GoesById(b)'
      PROVE  (HasOwn(b) \/ HasDeleted(b))'
  <2>1. ~shifted /\ ~trespassed
    <3>1. CASE Steady
      BY <1>5, <3>1, Zenon DEF Steady
    <3>2. ASSUME NEW R, Change(o, R) PROVE ~shifted /\ ~trespassed
      BY <1>5, <3>2, Zenon DEF Change
    <3>3. QED
      BY <1>2, <3>1, <3>2
  <2>2. GoesById(b) => HasOwn(b) \/ HasDeleted(b)
    BY <1>5, <2>1 DEF FollowIInv
  <2>3. CASE b # o
    <3>1. /\ op'[b] = op[b] /\ step'[b] = step[b] /\ saved'[b] = saved[b]
          /\ phase' = phase \/ op[b] \in {"update", "delete"}
      <4>1. CASE Onward(o) \/ Ending(o)
        BY <2>3, <4>1 DEF Onward, Ending
      <4>2. CASE Failing(o)
        BY <1>5, <2>3, <4>2 DEF Failing, GoesById
      <4>3. QED
        BY <4>1, <4>2, CallGoesOn
    <3>2. GoesById(b)
      BY <1>5, <3>1 DEF GoesById
    <3>3. HasDeleted(b) => HasDeleted(b)'
      BY <1>1, <3>1 DEF HasDeleted, This
    <3>4. HasOwn(b) => HasOwn(b)'
      <4>1. CASE Steady
        BY <3>1, <4>1 DEF HasOwn, Steady
      <4>2. ASSUME HasOwn(b), NEW R, Change(o, R), After(o, R)
            PROVE  HasOwn(b)'
        BY <1>5, <2>3, <3>1, <4>2, OthersRowStays DEF FollowIInv
      <4>3. QED
        BY <1>2, <4>1, <4>2
    <3>5. QED
      BY <2>2, <3>2, <3>3, <3>4
  <2>4. CASE b = o /\ Onward(o)
    <3>1. op'[o] = op[o] /\ saved'[o] = saved[o] /\ step'[o] = step[o] + 1 /\ phase' = phase
      BY <2>4 DEF Onward
    <3>2. GoesById(o)
      BY <1>5, <2>4, <3>1 DEF GoesById
    <3>3. step[o] \in Nat \ {0} /\ Word(o) = This[op[o]][step[o]]
      BY <1>1, WordFacts DEF Word
    <3>4. HasDeleted(o) => HasDeleted(o)'
      BY <1>1, <3>1, <3>3 DEF HasDeleted, This
    <3>5. Word(o) \in {"delete", "deleteid"} => HasDeleted(o)'
      BY <1>1, <3>1, <3>3 DEF HasDeleted, This
    <3>6. HasOwn(o) => HasOwn(o)' \/ Word(o) \in {"delete", "deleteid"}
      <4>1. CASE Steady
        BY <3>1, <4>1 DEF HasOwn, Steady
      <4>2. ASSUME HasOwn(o), NEW R, Change(o, R), After(o, R)
            PROVE  HasOwn(o)' \/ Word(o) \in {"delete", "deleteid"}
        BY <3>1, <4>2, OwnRowStays
      <4>3. QED
        BY <1>2, <4>1, <4>2
    <3>7. QED
      BY <2>2, <2>4, <3>2, <3>4, <3>5, <3>6
  <2>5. CASE b = o /\ Failing(o)
    BY <1>5, <2>5 DEF Failing, GoesById
  <2>6. CASE b = o /\ Ending(o) /\ op[o] # "read"
    <3>1. phase' # "refresh"
      BY <1>1, <2>6 DEF Ending, FollowIInv
    <3>2. QED
      BY <1>5, <2>6, <3>1 DEF Ending, GoesById
  <2>7. CASE b = o /\ Ending(o) /\ op[o] = "read" /\ (Find(o) \/ FindId(o) \/ Show(o))
    <3>1. Final(o) /\ Word(o) = This.read[Len(This.read)]
      <4>1. Word(o) \in Looks
        BY <2>7 DEF Find, FindId, Show, Says, Looks
      <4>2. Word(o) \notin Asks \cup Writes
        BY <4>1, FormFacts DEF Looks, Asks, Writes, RowWrites
      <4>3. QED
        BY <1>1, <2>7, <4>2, WordFacts DEF Final, Word
    <3>2. This.read[Len(This.read)] = "find"
      BY <1>5 DEF WritesById, TypeIInv, EnvType, TrueToFlags
    <3>3. Find(o)
      BY <2>7, <3>1, <3>2 DEF FindId, Show, Says
    <3>4. saved'[o] # NoState
      BY <1>5, <2>7 DEF Ending, GoesById
    <3>5. PICK r \in rows : r.key = o /\ End(o, StateOf(o, r), outcome[o])
      <4>1. End(o, NoState, outcome[o]) => saved'[o] = NoState
        BY DEF TypeIInv, LocalType, End
      <4>2. QED
        BY <3>3, <3>4, <4>1 DEF Find, RowsOf
    <3>6. saved'[o].id = r.id
      BY <3>5 DEF TypeIInv, LocalType, End, StateOf
    <3>7. rows' = rows
      BY <3>3 DEF Find, NothingSent, deviceVars
    <3>8. QED
      BY <2>7, <3>5, <3>6, <3>7 DEF HasOwn
  <2>8. QED
    BY <2>3, <2>4, <2>5, <2>6, <2>7, CallGoesOn
<1>6. WritesById' = WritesById /\ This' = This
  BY <1>1 DEF WritesById, This
<1>7. QED
  BY <1>3, <1>4, <1>5, <1>6 DEF FollowIInv

LEMMA ConfigureFinite ==
    ASSUME IsFiniteSet(rows), NEW o, NEW g, NEW n, Configure(o, g, n)
    PROVE  IsFiniteSet(rows')
<1>1. ASSUME NEW S PROVE IsFiniteSet(Relabelled(o, n, S))
  <2> DEFINE f == [r \in rows |-> IF r \in S THEN [r EXCEPT !.key = o, !.name = n]
                                 ELSE IF r.key = o /\ saved[o] = NoState
                                      THEN [r EXCEPT !.key = Stranger, !.name = 1]
                                      ELSE r]
  <2>1. f = [r \in rows |-> f[r]] /\ Relabelled(o, n, S) = {f[r] : r \in rows}
    BY DEF Relabelled
  <2> HIDE DEF f
  <2>2. QED
    BY <2>1, ImageFinite
<1>2. rows' = rows \/ \E S : rows' = Relabelled(o, n, S)
  BY DEF Configure
<1>3. CASE \E S : rows' = Relabelled(o, n, S)
  <2>1. PICK S : rows' = Relabelled(o, n, S)
    BY <1>3
  <2>2. IsFiniteSet(Relabelled(o, n, S))
    BY <1>1
  <2>3. QED
    BY <2>1, <2>2, Zenon
<1>4. CASE rows' = rows
  BY <1>4, Zenon
<1>5. QED
  BY <1>2, <1>3, <1>4

LEMMA FollowTerraform ==
    ASSUME TypeIInv, FollowIInv,
           \/ StartRun \/ Plan \/ Kill
           \/ \E o \in Owners : Import(o)
           \/ \E o \in Owners, g \in Goals \cup {"none"}, n \in Labels : Configure(o, g, n)
    PROVE  FollowIInv'
<1> USE DEF FollowIInv
<1>1. kind' = kind /\ (StartRun \/ Plan \/ Kill \/ (\E o \in Owners : Import(o)) => rows' = rows)
  BY DEF StartRun, Plan, Kill, Import, Configure
<1>2. WritesById' = WritesById /\ This' = This
  BY <1>1 DEF WritesById, This
<1>3. CASE StartRun
  <2>1. \A o \in Owners : ~GoesById(o)'
    BY <1>3 DEF StartRun, GoesById, TypeIInv, LocalType
  <2>2. \A o \in Owners : op'[o] \in {"read", "none"}
    BY <1>3 DEF StartRun
  <2>3. QED
    BY <1>1, <1>2, <1>3, <2>1, <2>2
<1>4. CASE Plan
  <2>1. phase' = "apply" /\ phase = "refresh" /\ UNCHANGED <<saved, shifted, trespassed>>
    BY <1>4 DEF Plan
  <2>2. ASSUME NEW o \in Owners, GoesById(o)' PROVE GoesById(o) /\ op[o] = "none"
    BY <1>4, <2>1, <2>2 DEF Plan, GoesById, Todo
  <2>3. \A o \in Owners : op[o] = "none" => ~HasDeleted(o)
    BY DEF HasDeleted
  <2>4. \A o \in Owners : HasOwn(o) => HasOwn(o)'
    BY <1>1, <1>4, <2>1 DEF HasOwn
  <2>5. QED
    BY <1>1, <1>2, <1>4, <2>1, <2>2, <2>3, <2>4
<1>5. CASE Kill
  <2>1. phase' = "apply" /\ \A o \in Owners : op'[o] = "none"
    BY <1>5 DEF Kill
  <2>2. \A o \in Owners : ~GoesById(o)'
    BY <2>1 DEF GoesById
  <2>3. QED
    BY <1>1, <1>2, <1>5, <2>1, <2>2
<1>6. CASE \/ \E o \in Owners : Import(o)
           \/ \E o \in Owners, g \in Goals \cup {"none"}, n \in Labels : Configure(o, g, n)
  <2>1. phase' = "apply" /\ \A o \in Owners : op'[o] = "none"
    BY <1>6 DEF Import, Configure, Resting, localVars
  <2>2. \A o \in Owners : ~GoesById(o)'
    BY <2>1 DEF GoesById
  <2>3. IsFiniteSet(rows')
    BY <1>1, <1>6, ConfigureFinite
  <2>4. QED
    BY <1>2, <2>1, <2>2, <2>3
<1>7. QED
  BY <1>3, <1>4, <1>5, <1>6

LEMMA FollowSomebodyElse ==
    ASSUME TypeIInv, FollowIInv, SomebodyElse
    PROVE  FollowIInv'
<1>1. UNCHANGED <<kind, saved, phase, op, step, trespassed>>
  BY DEF SomebodyElse, SetMine, SetRest, Remove, Appear, SetBeside, Elsewhere, localVars
<1>2. WritesById' = WritesById /\ This' = This
  BY <1>1 DEF WritesById, This
<1>3. \/ \E r \in rows : \E s : /\ rows' = (rows \ {r}) \cup {s} /\ s.key = r.key /\ s.id = r.id
                              /\ shifted' = shifted
      \/ \E d \in rows : rows' = Without(d) /\ shifted' = TRUE
      \/ \E s : rows' = rows \cup {s} /\ shifted' = shifted
      \/ UNCHANGED <<rows, shifted>>
  <2>1. ASSUME NEW r \in rows, NEW m, SetMine(r, m)
        PROVE  rows' = (rows \ {r}) \cup {[r EXCEPT !.mine = m]} /\ shifted' = shifted
    BY <2>1 DEF SetMine
  <2>2. ASSUME NEW r \in rows, NEW q, SetRest(r, q)
        PROVE  rows' = (rows \ {r}) \cup {[r EXCEPT !.rest = q]} /\ shifted' = shifted
    BY <2>2 DEF SetRest
  <2>3. ASSUME NEW r \in rows, NEW m
        PROVE  /\ [r EXCEPT !.mine = m].key = r.key /\ [r EXCEPT !.mine = m].id = r.id
               /\ [r EXCEPT !.rest = m].key = r.key /\ [r EXCEPT !.rest = m].id = r.id
    BY DEF TypeIInv, DeviceType, Row
  <2>4. ASSUME NEW d \in rows, Remove(d)
        PROVE  rows' = Without(d) /\ shifted' = TRUE
    BY <2>4 DEF Remove
  <2>5. CASE Appear
    <3>1. DEFINE s == NewRow(Fresh, IF This.collection THEN Stranger ELSE First, Both("off"))
    <3>2. rows' = rows \cup {s} /\ shifted' = shifted
      BY <2>5 DEF Appear
    <3> HIDE DEF s
    <3>3. QED
      BY <3>2
  <2>6. CASE \E r \in rows : \E m \in Edits(r) : SetMine(r, m)
    <3>1. PICK r \in rows : \E m \in Edits(r) : SetMine(r, m)
      BY <2>6
    <3>0. PICK m \in Edits(r) : SetMine(r, m)
      BY <3>1
    <3>2. DEFINE s == [r EXCEPT !.mine = m]
    <3>3. rows' = (rows \ {r}) \cup {s} /\ s.key = r.key /\ s.id = r.id /\ shifted' = shifted
      BY <3>0, <2>1, <2>3
    <3> HIDE DEF s
    <3>4. QED
      BY <3>3
  <2>7. CASE \E r \in rows : \E q \in {"x", "y"} : SetRest(r, q)
    <3>1. PICK r \in rows, q \in {"x", "y"} : SetRest(r, q)
      BY <2>7
    <3>2. DEFINE s == [r EXCEPT !.rest = q]
    <3>3. rows' = (rows \ {r}) \cup {s} /\ s.key = r.key /\ s.id = r.id /\ shifted' = shifted
      BY <3>1, <2>2, <2>3
    <3> HIDE DEF s
    <3>4. QED
      BY <3>3
  <2>8. CASE \E r \in rows : Remove(r)
    BY <2>4, <2>8
  <2>9. CASE \E v \in Besides : SetBeside(v)
    BY <2>9 DEF SetBeside
  <2>10. QED
    BY <2>5, <2>6, <2>7, <2>8, <2>9 DEF SomebodyElse
<1>4. IsFiniteSet(rows')
  <2>1. ASSUME NEW r, NEW s PROVE IsFiniteSet((rows \ {r}) \cup {s})
    <3>1. IsFiniteSet(rows \ {r})
      BY FS_RemoveElement DEF FollowIInv
    <3>2. QED
      BY <3>1, FS_AddElement
  <2>2. ASSUME NEW s PROVE IsFiniteSet(rows \cup {s})
    BY FS_AddElement DEF FollowIInv
  <2>3. ASSUME NEW d \in rows PROVE IsFiniteSet(Without(d))
    BY WithoutOwn DEF FollowIInv, TypeIInv
  <2>4. CASE \E r \in rows : \E s : rows' = (rows \ {r}) \cup {s}
    <3>1. PICK r \in rows : \E s : rows' = (rows \ {r}) \cup {s}
      BY <2>4
    <3>2. PICK s : rows' = (rows \ {r}) \cup {s}
      BY <3>1
    <3>3. QED
      BY <2>1, <3>2, Zenon
  <2>5. CASE \E d \in rows : rows' = Without(d)
    <3>1. PICK d \in rows : rows' = Without(d)
      BY <2>5
    <3>2. IsFiniteSet(Without(d))
      BY <2>3
    <3>3. QED
      BY <3>1, <3>2, Zenon
  <2>6. CASE \E s : rows' = rows \cup {s}
    <3>1. PICK s : rows' = rows \cup {s}
      BY <2>6
    <3>2. QED
      BY <2>2, <3>1, Zenon
  <2>7. CASE rows' = rows
    BY <2>7, Zenon DEF FollowIInv
  <2>8. QED
    BY <1>3, <2>4, <2>5, <2>6, <2>7
<1>5. ~shifted' => ~shifted /\ \A o \in Owners : HasOwn(o) => HasOwn(o)'
  <2>1. ~shifted' => ~shifted
    BY <1>3
  <2>2. ASSUME NEW r \in rows, NEW s, rows' = (rows \ {r}) \cup {s}, s.key = r.key, s.id = r.id
        PROVE  \A o \in Owners : HasOwn(o) => HasOwn(o)'
    BY <1>1, <2>2 DEF HasOwn
  <2>3. ASSUME NEW s, rows' = rows \cup {s}
        PROVE  \A o \in Owners : HasOwn(o) => HasOwn(o)'
    BY <1>1, <2>3 DEF HasOwn
  <2>4. CASE UNCHANGED <<rows, shifted>>
    BY <1>1, <2>4 DEF HasOwn
  <2>5. CASE \E d \in rows : rows' = Without(d) /\ shifted' = TRUE
    BY <2>5
  <2>6. CASE \E r \in rows : \E s : /\ rows' = (rows \ {r}) \cup {s}
                                   /\ s.key = r.key /\ s.id = r.id
    BY <2>1, <2>2, <2>6
  <2>7. CASE \E s : rows' = rows \cup {s}
    BY <2>1, <2>3, <2>7
  <2>8. QED
    BY <1>3, <2>4, <2>5, <2>6, <2>7
<1>6. \A o \in Owners : /\ GoesById(o)' => GoesById(o)
                        /\ HasDeleted(o) => HasDeleted(o)'
  BY <1>1, <1>2 DEF GoesById, HasDeleted
<1>7. QED
  BY <1>1, <1>2, <1>4, <1>5, <1>6 DEF FollowIInv

LEMMA FollowInductive == TrueFlags /\ Spec => []FollowIInv
<1>1. Init => FollowIInv
  <2> SUFFICES ASSUME Init PROVE FollowIInv
    OBVIOUS
  <2>1. PICK r : rows = {r}
    BY DEF Init
  <2>2. IsFiniteSet(rows)
    BY <2>1, FS_Singleton
  <2>3. \A o \in Owners : op[o] = "none" /\ ~GoesById(o)
    BY DEF Init, GoesById
  <2>4. phase = "apply"
    BY DEF Init
  <2>5. QED
    BY <2>2, <2>3, <2>4 DEF FollowIInv
<1>2. TypeIInv /\ FollowIInv /\ [Next]_vars => FollowIInv'
  <2> SUFFICES ASSUME TypeIInv, FollowIInv, [Next]_vars PROVE FollowIInv'
    OBVIOUS
  <2>1. CASE Next
    BY <2>1, FollowCall, FollowTerraform, FollowSomebodyElse DEF Next
  <2>2. CASE UNCHANGED vars
    BY <2>2 DEF vars, FollowIInv, GoesById, HasOwn, HasDeleted, WritesById, This
  <2>3. QED
    BY <2>1, <2>2
<1>3. QED
  BY <1>1, <1>2, TypeInductive, PTL DEF Spec

-----------------------------------------------------------------------------
(* The content of another key changes only through an id.                  *)

LEMMA Trespass ==
    ASSUME TypeIInv, FollowIInv, NEW o \in Owners, Call(o),
           NEW R, Change(o, R), After(o, R), trespassed' # trespassed,
           ~shifted, ~Ambiguous, ~This.byid
    PROVE  FALSE
<1>1. ~trespassed /\ \E k \in Keys \ {o} : Content(R, k) # Content(rows, k)
  BY DEF Change, TypeIInv, DeviceType
<1>2. PICK k \in Keys \ {o} : Content(R, k) # Content(rows, k)
  BY <1>1
<1>3. \A r, s \in rows : r # s => r.id # s.id
  BY DEF Ambiguous
<1>4. DeviceType /\ IsFiniteSet(rows)
  BY DEF TypeIInv, FollowIInv
<1>5. CASE R = rows \/ Grown(o, R) \/ Refilled(o, R)
  <2>1. Own(R, k) = Own(rows, k)
    <3>1. CASE R = rows
      BY <3>1
    <3>2. CASE Grown(o, R)
      BY <3>2 DEF Grown, Own
    <3>3. CASE Refilled(o, R)
      <4>1. PICK w \in DOMAIN Form : R = Written(o, w)
        BY <3>3 DEF Refilled
      <4>2. Own(Written(o, w), k) = Own(rows, k)
        BY <1>2, <1>4, WrittenRows
      <4>3. QED
        BY <4>1, <4>2
    <3>4. QED
      BY <1>5, <3>1, <3>2, <3>3
  <2>2. QED
    BY <1>2, <2>1, SameRows
<1>6. CASE Overwritten(o, R)
  <2>1. drawn[o] # -1
    BY <1>6 DEF Overwritten, Ids
  <2>2. RowsAt(drawn[o]) = {}
    BY <2>1 DEF Ambiguous
  <2>3. Own(R, k) = Own(rows, k)
    BY <1>6, <2>2 DEF Overwritten, Own
  <2>4. QED
    BY <1>2, <2>3, SameRows
<1>7. ASSUME Word(o) \in ById, NEW r \in rows, r.id = saved[o].id
      PROVE  r.key = o
  <2>1. op[o] \in Ops /\ step[o] \in 1..Len(This[op[o]]) /\ This[op[o]][step[o]] \in ById
    BY <1>7, WordFacts, CallGoesOn DEF Word
  <2>2. WritesById
    BY <2>1 DEF WritesById
  <2>3. op[o] \in {"update", "delete"}
    <3>1. Word(o) \in Writes
      BY <1>7 DEF ById, Writes, RowWrites
    <3>2. QED
      BY <1>7, <2>1, <3>1, WordFacts, CallGoesOn DEF Ops
  <2>4. HasOwn(o) \/ HasDeleted(o)
    BY <1>1, <2>2, <2>3 DEF FollowIInv, GoesById
  <2>5. ~HasDeleted(o)
    <3>1. WellFormed(This)
      BY KindFacts DEF TypeIInv
    <3>2. \A i, j \in 1..Len(This[op[o]]) :
            i < j /\ This[op[o]][i] \in {"delete", "deleteid"} => This[op[o]][j] \notin ById
      BY <2>1, <3>1 DEF WellFormed
    <3>3. Len(This[op[o]]) \in Nat
      BY WordFacts, CallGoesOn
    <3>4. QED
      BY <2>1, <3>2, <3>3 DEF HasDeleted
  <2>6. QED
    BY <1>3, <1>7, <2>4, <2>5 DEF HasOwn
<1>8. CASE Rekeyed(o, R)
  <2>1. PICK r \in rows, s \in Row : /\ Word(o) = "edit" /\ r.id = saved[o].id
                                     /\ s.id = r.id /\ s.key = o
                                     /\ R = (rows \ {r}) \cup {s}
    BY <1>8 DEF Rekeyed
  <2>2. r.key = o
    BY <1>7, <2>1 DEF ById
  <2>3. Own(R, k) = Own(rows, k)
    BY <2>1, <2>2 DEF Own
  <2>4. QED
    BY <1>2, <2>3, SameRows
<1>9. CASE Deleted(o, R)
  <2>1. PICK d \in rows : R = Without(d) /\ d.key = o
    BY <1>7, <1>9 DEF Deleted, ById
  <2>2. QED
    BY <1>2, <1>3, <1>4, <2>1, WithoutOthers
<1>10. QED
  BY <1>5, <1>6, <1>8, <1>9 DEF After

(* For any kinds of resources whose flags are true: an operation changes a *)
(* row of another block, or of nobody, only through an id that has come to *)
(* name another row since the refresh, or that two rows share.  The flag   *)
(* that collectors share is not a row: every write of a block turns it.    *)
THEOREM OnlyOwnRows == TrueFlags /\ Spec => OwnRowsOnly
<1>1. TypeIInv /\ FollowIInv /\ [Next]_vars
        => [trespassed' # trespassed => shifted \/ Ambiguous \/ This.byid]_vars
  <2> SUFFICES ASSUME TypeIInv, FollowIInv, Next, trespassed' # trespassed
               PROVE  shifted \/ Ambiguous \/ This.byid
    BY DEF vars
  <2>1. ASSUME NEW o \in Owners, Call(o) PROVE shifted \/ Ambiguous \/ This.byid
    BY <2>1, CallChanges, Trespass DEF Steady
  <2>2. CASE SomebodyElse
    BY <2>2 DEF SomebodyElse, SetMine, SetRest, Remove, Appear, SetBeside, Elsewhere
  <2>3. CASE \/ StartRun \/ Plan \/ Kill
             \/ \E o \in Owners : Import(o)
             \/ \E o \in Owners, g \in Goals \cup {"none"}, n \in Labels : Configure(o, g, n)
    BY <2>3 DEF StartRun, Plan, Kill, Import, Configure
  <2>4. QED
    BY <2>1, <2>2, <2>3 DEF Next
<1>2. QED
  BY <1>1, TypeInductive, FollowInductive, PTL DEF Spec, OwnRowsOnly

=============================================================================
