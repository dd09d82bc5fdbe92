--------------------------- MODULE TerraformApply ---------------------------
(***************************************************************************)
(* The Terraform provider, resource by resource: what plan and apply do to *)
(* an appliance through the client calls of Create, Read, Update, Delete.  *)
(*                                                                         *)
(* One behaviour is about the resources of one kind.  A kind is a table of *)
(* programs (PR60XResources, ...): one per operation, one word per call,   *)
(* in the order of the code, with the checks the code makes of the answer. *)
(* Calls are atomic, since every client holds its mutex for one call;      *)
(* operations are not, and Terraform runs those of one apply in parallel.  *)
(*                                                                         *)
(* A call can fail, take effect and fail, or be answered with success and  *)
(* discarded; a run can be killed; somebody else can change the appliance  *)
(* at any time.  A row stands for an object on the appliance: `mine' for   *)
(* the fields the resource manages, `rest' for the others on the same      *)
(* object (for a service profile: "y" while a forwarding rule names it).   *)
(* `key' says whose it is, by its name; `name' is 1 or 2, since some kinds *)
(* let the configuration change the name of a block.  `beside' is a value  *)
(* outside the rows: a flag of the whole appliance that the resource       *)
(* shows as its own, or another object that must be there ("off": is not). *)
(***************************************************************************)
EXTENDS Integers, Sequences, FiniteSets

CONSTANTS
    Kinds,          \* the kinds of resources: a function to their programs
    Owners,         \* the blocks of one kind in the configuration
    First,          \* the only block of a kind that is one setting
    Stranger,       \* the key of rows that are nobody's
    MaxId,          \* bound on the ids of a table
    MaxEvents       \* bound on faults, edits by others and new configurations

(* The words of a program that write an object that is there.  An object   *)
(* has two fields of the resource, which some programs write in two calls: *)
(* `to' is what the fields `parts' get; `rest' is what becomes of the      *)
(* fields of others: not sent, sent as they were read, or sent as a        *)
(* constant; `spare' leaves the call out when what was read is what is     *)
(* wanted.                                                                 *)
Form ==
    LET To(parts, to, rest, spare) == [parts |-> parts, to |-> to, rest |-> rest, spare |-> spare]
    IN  [patch         |-> To({1, 2}, "goal", "kept", FALSE),
         merge         |-> To({1, 2}, "goal", "carried", FALSE),
         mergediff     |-> To({1, 2}, "goal", "carried", TRUE),
         flag          |-> To({1}, "goal", "kept", FALSE),
         mergeflag     |-> To({1}, "goal", "carried", FALSE),
         mergeflagdiff |-> To({1}, "goal", "carried", TRUE),
         detail        |-> To({2}, "goal", "kept", FALSE),
         detaildiff    |-> To({2}, "goal", "kept", TRUE),
         mergedetail   |-> To({2}, "goal", "carried", FALSE),
         clear         |-> To({2}, "off", "kept", FALSE),
         cleardiff     |-> To({2}, "off", "kept", TRUE),
         form          |-> To({1}, "goal", "zero", FALSE),
         formoff       |-> To({1}, "off", "zero", FALSE),
         off           |-> To({1}, "off", "kept", FALSE),
         mergeoff      |-> To({1}, "off", "carried", FALSE),
         mergeoffdiff  |-> To({1}, "off", "carried", TRUE),
         wipe          |-> To({1, 2}, "off", "kept", FALSE),
         blank         |-> To({1, 2}, "off", "zero", FALSE)]

(* The other words.                                                        *)
Asks == {"refuse", "known", "unused", "on", "fetch", "list", "peek", "draw", "compare"}
RowWrites == {"enable", "state", "add", "bare", "insert", "try", "edit", "delete", "deleteid"}
Writes == RowWrites \cup DOMAIN Form
Saves == {"save", "saveid", "savesame", "saveortrust", "trust"}
Looks == {"find", "findid", "show"}
ById == {"edit", "deleteid"}
Removals == {"enable", "delete", "deleteid"} \cup {w \in DOMAIN Form : Form[w].to = "off"}
Words == Asks \cup Writes \cup Saves \cup Looks \cup {"gone"}

Ops == {"create", "read", "update", "delete"}
Goals == {"a", "b"}
Values == Goals \cup {"off"}
Mine == Values \X Values
Both(v) == <<v, v>>
Nothing == Both("none")
Rest == {"x", "y", "zero"}
Keys == Owners \cup {Stranger}
Ids == 0..MaxId
Labels == {1, 2}
Row == [id : Ids, key : Keys, name : Labels, mine : Mine, rest : Rest]

(* A kind of resource:                                                     *)
(*   collection  rows come and go; otherwise one object that is there      *)
(*   renumbers   a delete shifts the ids of the rows behind it             *)
(*   named       other objects refer to a row by its name                  *)
(*   vanishes    the object can go although it is not a row of ours        *)
(*   clobbers    a write does not preserve the rest of the object          *)
(*   lingers     Delete leaves the setting on the appliance                *)
(*   repeats     Create does not look for a row of the same name           *)
(*   byid        the state follows a row by its id alone                   *)
(*   renames     Update gives a row another name                           *)
(*   aside       `beside' is a flag that every block shows as its own      *)
(*   needs       `beside' is an object that has to be there first          *)
(*   trusts      operations that save what they sent, unread               *)
Flags == {"collection", "renumbers", "named", "vanishes", "clobbers", "lingers", "repeats", "byid",
          "renames", "aside", "needs"}

(* Programs end with the one word that saves state; a Delete may end with  *)
(* its last write or with the check of it.  Read writes nothing; Create    *)
(* has no id to go by yet, and what has been deleted is not gone back to.  *)
WellFormed(k) ==
    /\ DOMAIN k = Flags \cup Ops \cup {"trusts"}
    /\ \A f \in Flags : k[f] \in BOOLEAN
    /\ k.trusts \subseteq Ops
    /\ \A p \in Ops :
        /\ k[p] \in Seq(Words) \ {<<>>}
        /\ \A i \in 1..(Len(k[p]) - 1) : k[p][i] \in Asks \cup Writes
        /\ \A i \in 1..Len(k[p]) :
            k[p][i] = "insert" => \E j \in 1..(i - 1) : k[p][j] = "draw"
        /\ \A i, j \in 1..Len(k[p]) :
            i < j /\ k[p][i] \in {"delete", "deleteid"} => k[p][j] \notin ById
    /\ \A p \in {"create", "update"} : k[p][Len(k[p])] \in Saves
    /\ k.read[Len(k.read)] \in Looks
    /\ k.delete[Len(k.delete)] \in Writes \cup {"compare", "gone"}
    /\ \A i \in 1..Len(k.create) : k.create[i] \notin ById
    /\ \A i \in 1..Len(k.read) : k.read[i] \notin Writes
    /\ \A i \in 1..Len(k.delete) : k.delete[i] \in Writes => k.delete[i] \in Removals

(* What the i-th call of a program p relies on: the answer w, with nothing *)
(* written since it came; the object, as it was read to be written back.   *)
Guarded(p, i, w) == \E j \in 1..(i - 1) : p[j] = w /\ \A n \in j..(i - 1) : p[n] \in Asks
Fetched(p, i) == \E j \in 1..(i - 1) : p[j] = "fetch" /\ \A n \in j..(i - 1) : p[n] \notin {"list", "peek"}
Carries(w) == w = "try" \/ (w \in DOMAIN Form /\ Form[w].rest = "carried")

(* The call that takes the row away, or turns the setting off.             *)
Undoes(k, i) ==
    LET w == k.delete[i]
    IN  IF k.collection
        THEN w \in {"delete", "deleteid"}
        ELSE w \in DOMAIN Form /\ 1 \in Form[w].parts /\ (Form[w].spare => Fetched(k.delete, i))

(* What the flags promise of the programs.  An operation that is not said  *)
(* to trust saves what it has read.  Rows that are written by their ids    *)
(* are found by their names first.  Only tables have rows made and taken.  *)
(* A Create that does not repeat looks for its name first, and one that    *)
(* does reads back the id it drew, as Read does from then on.  A named row *)
(* is asked about before it goes; only a setting is shown without being    *)
(* looked for.  Only a row that is looked for by its name, and not made    *)
(* twice, gets another.  Unless a kind clobbers, it sends back the rest of *)
(* the object as it has read it, and unless it lingers, its Delete undoes  *)
(* what is there.                                                          *)
TrueToFlags(k) ==
    /\ \A p \in {"create", "update"} \ k.trusts : k[p][Len(k[p])] \notin {"trust", "saveortrust"}
    /\ (\E p \in Ops : \E i \in 1..Len(k[p]) : k[p][i] \in ById)
        => k.byid \/ k.read[Len(k.read)] = "find"
    /\ \A p \in Ops : \A i \in 1..Len(k[p]) :
        /\ k[p][i] \in RowWrites \ {"enable", "state", "try"} => k.collection
        /\ k[p][i] = "state" => k.aside
        /\ k[p][i] = "insert" /\ ~k.repeats => Guarded(k[p], i, "refuse")
        /\ k[p][i] \in {"delete", "deleteid"} /\ k.named => Guarded(k[p], i, "unused")
        /\ ~k.clobbers => /\ k[p][i] \in DOMAIN Form => Form[k[p][i]].rest # "zero"
                          /\ Carries(k[p][i]) => Fetched(k[p], i)
        /\ k.repeats => k[p][i] \notin {"add", "bare"}
        /\ k[p][i] \in {"insert", "saveid"} /\ k.repeats =>
            p = "create" /\ i >= Len(k.create) - 1 /\ k.create[Len(k.create)] = "saveid"
    /\ k.repeats => k.collection /\ ~k.renumbers /\ k.read[Len(k.read)] = "findid"
    /\ k.renames => k.collection /\ ~k.repeats
    /\ k.read[Len(k.read)] = "show" => ~k.collection
    /\ ~k.lingers => \E i \in 1..Len(k.delete) : Undoes(k, i)

(* The kinds whose flags are true of their programs: all, as TypeOK says.  *)
Flagged == {n \in DOMAIN Kinds : TrueToFlags(Kinds[n])}

ASSUME KindAssumption == \A n \in DOMAIN Kinds : WellFormed(Kinds[n])
ASSUME OwnerAssumption == First \in Owners /\ Stranger \notin Owners
ASSUME BoundAssumption ==
    /\ MaxId \in Nat
    /\ MaxEvents \in Nat

VARIABLES
    kind,           \* the kind this behaviour is about
    rows,           \* the appliance
    beside,         \* the flag, or the object, outside the rows
    goal,           \* the configuration: a value for each block, or "none"
    called,         \* the configuration: the name of each block
    renamed,        \* blocks whose name has changed while they were in the state
    saved,          \* the Terraform state: id, name and value of each block
    phase,          \* "refresh" or "apply"
    op,             \* the operation under way for each block, or "none"
    step,           \* the call it has come to
    carry,          \* the object it has read in order to write it back
    drawn,          \* the id it has drawn for a new row, or -1
    outcome,        \* how its last operation ended
    wish,           \* the rest of the object as it was last set elsewhere
    raced,          \* the rest was set in the middle of an operation
    meddled,        \* blocks whose row others changed since their operation began
    shifted,        \* since the run began a row has gone, and ids may name others
    trespassed,     \* an operation has changed a row of another key
    dangling,       \* a profile was deleted while a rule named it
    faults,         \* calls that went wrong, and kills
    changes         \* edits by somebody else and changes of the configuration

deviceVars == <<rows, beside, meddled, shifted, trespassed, dangling>>
localVars == <<op, step, carry, drawn>>
configVars == <<goal, called, renamed>>
vars == <<kind, rows, beside, goal, called, renamed, saved, phase, op, step, carry, drawn,
          outcome, wish, raced, meddled, shifted, trespassed, dangling, faults, changes>>

This == Kinds[kind]
Blocks == IF This.collection THEN Owners ELSE {First}
NoState == [id |-> -1, name |-> 0, mine |-> Nothing, aside |-> "off"]
NoCarry == [mine |-> Nothing, rest |-> "zero"]
Besides == IF This.aside THEN Values ELSE IF This.needs THEN {"a", "off"} ELSE {"off"}

(* The fields of its resource that no Update of the kind writes.           *)
Fields(w) ==
    IF w \in DOMAIN Form THEN Form[w].parts
    ELSE IF w = "bare" THEN {2}
    ELSE IF w \in {"add", "insert", "try", "edit"} THEN {1, 2} ELSE {}
Untouched == {1, 2} \ UNION {Fields(This.update[i]) : i \in DOMAIN This.update}

TypeOK ==
    /\ kind \in DOMAIN Kinds
    /\ kind \in Flagged
    /\ rows \in SUBSET Row
    /\ beside \in Values
    /\ goal \in [Owners -> Goals \cup {"none"}]
    /\ called \in [Owners -> Labels]
    /\ renamed \in SUBSET Owners
    /\ saved \in [Owners -> [id : Ids \cup {-1}, name : Labels \cup {0},
                             mine : Mine \cup {Nothing}, aside : Values]]
    /\ phase \in {"refresh", "apply"}
    /\ op \in [Owners -> Ops \cup {"none"}]
    /\ step \in [Owners -> Nat]
    /\ \A o \in Owners : op[o] # "none" => step[o] \in DOMAIN This[op[o]]
    /\ carry \in [Owners -> [mine : Mine \cup {Nothing}, rest : Rest]]
    /\ drawn \in [Owners -> Ids \cup {-1}]
    /\ outcome \in [Owners -> Ops \cup {"none", "error"}]
    /\ wish \in Rest
    /\ meddled \in SUBSET Owners
    /\ <<raced, shifted, trespassed, dangling>> \in BOOLEAN \X BOOLEAN \X BOOLEAN \X BOOLEAN
    /\ faults \in 0..MaxEvents
    /\ changes \in 0..MaxEvents

(* A setting is there, in some state, and a field that is never written is *)
(* as it is wanted or not; a table holds a row that is not ours.           *)
Init ==
    /\ kind \in DOMAIN Kinds
    /\ \E v \in IF This.collection \/ 2 \notin Untouched THEN {"off"} ELSE {"off", "a"} :
        rows = {[id |-> 0, key |-> IF This.collection THEN Stranger ELSE First, name |-> 1,
                 mine |-> <<"off", v>>, rest |-> "x"]}
    /\ beside \in Besides \ {"b"}
    /\ goal = [o \in Owners |-> IF o \in Blocks THEN "a" ELSE "none"]
    /\ called = [o \in Owners |-> 1]
    /\ renamed = {}
    /\ saved = [o \in Owners |-> NoState]
    /\ phase = "apply"
    /\ op = [o \in Owners |-> "none"]
    /\ step = [o \in Owners |-> 1]
    /\ carry = [o \in Owners |-> NoCarry]
    /\ drawn = [o \in Owners |-> -1]
    /\ outcome = [o \in Owners |-> "none"]
    /\ wish = "x"
    /\ raced = FALSE
    /\ meddled = {}
    /\ shifted = FALSE
    /\ trespassed = FALSE
    /\ dangling = FALSE
    /\ faults = 0
    /\ changes = 0

-----------------------------------------------------------------------------
(* The appliance.                                                          *)

RowsOf(k) == {r \in rows : r.key = k}
Named(o) == {r \in RowsOf(o) : r.name = called[o]}
RowsAt(i) == {r \in rows : r.id = i}
Content(R, k) ==
    LET own == {r \in R : r.key = k}
    IN  <<Cardinality(own), {<<r.name, r.mine, r.rest>> : r \in own}>>
Fresh == CHOOSE i \in Ids : (\A r \in rows : r.id < i) /\ (i = 0 \/ \E r \in rows : r.id = i - 1)
Room == \A r \in rows : r.id < MaxId
Free == CHOOSE i \in Ids : RowsAt(i) = {}
NewRow(i, k, m) ==
    [id |-> i, key |-> k, name |-> IF k \in Owners THEN called[k] ELSE 1, mine |-> m, rest |-> "x"]

(* A positional table closes the gap that a deleted row leaves.            *)
Without(d) ==
    IF This.renumbers
    THEN {[r EXCEPT !.id = IF r.id > d.id THEN r.id - 1 ELSE r.id] : r \in rows \ {d}}
    ELSE rows \ {d}

(* The table after block o's object is written with the word w.            *)
Target(o, w) == IF Form[w].to = "off" THEN "off" ELSE goal[o]
Rewrite(o, w, r) ==
    [r EXCEPT !.mine = <<IF 1 \in Form[w].parts THEN Target(o, w) ELSE r.mine[1],
                         IF 2 \in Form[w].parts THEN Target(o, w) ELSE r.mine[2]>>,
              !.rest = IF Form[w].rest = "kept" THEN r.rest
                       ELSE IF Form[w].rest = "carried" THEN carry[o].rest ELSE "zero"]
Written(o, w) == {IF r.key = o THEN Rewrite(o, w, r) ELSE r : r \in rows}

(* Block o's operation turns the table into R, or the flag outside of it   *)
(* to what the block wants; then every other block has another flag.       *)
Change(o, R) ==
    /\ rows' = R
    /\ meddled' = meddled \cup {k \in Owners \ {o} : Content(R, k) # Content(rows, k)}
    /\ shifted' = (shifted \/ \E r \in rows : \A q \in R : q.id # r.id)
    /\ trespassed' = (trespassed \/ \E k \in Keys \ {o} : Content(R, k) # Content(rows, k))
    /\ dangling' = (dangling \/ \E r \in rows :
                        This.named /\ r.rest = "y" /\ \A q \in R : q.key # r.key)
    /\ UNCHANGED beside
Turn(o) ==
    /\ beside' = goal[o]
    /\ meddled' = IF beside = goal[o] THEN meddled ELSE meddled \cup (Owners \ {o})
    /\ UNCHANGED <<rows, shifted, trespassed, dangling>>

-----------------------------------------------------------------------------
(* One call of an operation.                                               *)

Word(o) == This[op[o]][step[o]]
Says(o, w) == op[o] # "none" /\ Word(o) = w
Final(o) == step[o] = Len(This[op[o]])
MayHappen == faults + changes < MaxEvents /\ ~trespassed
Resting == phase = "apply" /\ \A o \in Owners : op[o] = "none"

IdleMidway(o) ==
    /\ op' = [op EXCEPT ![o] = "none"]
    /\ UNCHANGED step
    /\ carry' = [carry EXCEPT ![o] = NoCarry]
    /\ drawn' = [drawn EXCEPT ![o] = -1]
Idle(o) ==
    /\ op' = [op EXCEPT ![o] = "none"]
    /\ step' = [step EXCEPT ![o] = 1]
    /\ carry' = [carry EXCEPT ![o] = NoCarry]
    /\ drawn' = [drawn EXCEPT ![o] = -1]

(* The operation ends and Terraform keeps s.                               *)
End(o, s, result) ==
    /\ Idle(o)
    /\ saved' = [saved EXCEPT ![o] = s]
    /\ outcome' = [outcome EXCEPT ![o] = result]
    /\ UNCHANGED phase

(* The operation ends in an error.  Terraform keeps what it had, and a     *)
(* refresh that fails ends the whole run.                                  *)
Fail(o) ==
    /\ outcome' = [outcome EXCEPT ![o] = "error"]
    /\ phase' = "apply"
    /\ IF phase = "apply"
       THEN Idle(o)
       ELSE /\ op' = [b \in Owners |-> "none"]
            /\ step' = [b \in Owners |-> 1]
            /\ carry' = [b \in Owners |-> NoCarry]
            /\ drawn' = [b \in Owners |-> -1]
    /\ UNCHANGED saved

(* The operation goes on to its next call; a Delete may be at its end.     *)
Continue(o) ==
    IF Final(o)
    THEN End(o, NoState, op[o])
    ELSE /\ step' = [step EXCEPT ![o] = @ + 1]
         /\ UNCHANGED <<op, carry, drawn, saved, outcome, phase>>

Asked(o, c, d) ==
    /\ step' = [step EXCEPT ![o] = @ + 1]
    /\ carry' = [carry EXCEPT ![o] = c]
    /\ drawn' = [drawn EXCEPT ![o] = d]
    /\ UNCHANGED <<op, saved, outcome, phase>>

Unread == UNCHANGED <<kind, configVars, wish, raced, changes>>

(* A read that the code goes on from if `good', or gives up after.         *)
Check(o, good) ==
    /\ IF good THEN Continue(o) ELSE Fail(o)
    /\ UNCHANGED <<deviceVars, faults>>
    /\ Unread

(* Create looks for a row of that name and refuses to adopt it.            *)
Refuse(o) == Says(o, "refuse") /\ Check(o, Named(o) = {})

(* Another object that a write will name is looked for.                    *)
Known(o) == Says(o, "known") /\ Check(o, beside # "off")

(* Delete of a service profile looks for rules that name it.               *)
Unused(o) == Says(o, "unused") /\ Check(o, \A r \in RowsOf(o) : r.rest # "y")

(* A setter of the client reads back what it wrote.                        *)
Took(o, r) == IF op[o] = "delete" THEN r.mine[1] = "off" ELSE r.mine = Both(goal[o])
Compare(o) == Says(o, "compare") /\ Check(o, \E r \in RowsOf(o) : Took(o, r))

(* The object is read in order to be written back.                         *)
Fetch(o) ==
    /\ Says(o, "fetch")
    /\ IF RowsOf(o) = {}
       THEN Fail(o)
       ELSE \E r \in RowsOf(o) : Asked(o, [mine |-> r.mine, rest |-> r.rest], drawn[o])
    /\ UNCHANGED <<deviceVars, faults>>
    /\ Unread

(* A list of servers is read, and one that has the address of a wanted one *)
(* passes for it, whatever its other fields are.                           *)
ListServers(o) ==
    /\ Says(o, "list")
    /\ IF RowsOf(o) = {}
       THEN Fail(o)
       ELSE \E r \in RowsOf(o) :
                \/ Asked(o, [mine |-> r.mine, rest |-> r.rest], drawn[o])
                \/ /\ r.mine[2] \in Goals /\ goal[o] \in Goals
                   /\ Asked(o, [mine |-> <<r.mine[1], goal[o]>>, rest |-> r.rest], drawn[o])
    /\ UNCHANGED <<deviceVars, faults>>
    /\ Unread

(* The object is read, and an error is not looked at.                      *)
Peek(o) ==
    /\ Says(o, "peek")
    /\ \/ \E r \in RowsOf(o) : Asked(o, [mine |-> r.mine, rest |-> r.rest], drawn[o]) /\ UNCHANGED faults
       \/ RowsOf(o) = {} /\ Asked(o, NoCarry, drawn[o]) /\ UNCHANGED faults
       \/ MayHappen /\ Asked(o, NoCarry, drawn[o]) /\ faults' = faults + 1
    /\ UNCHANGED deviceVars
    /\ Unread

(* The rows are listed and the next id is one past the highest.            *)
Draw(o) ==
    /\ Says(o, "draw")
    /\ Room
    /\ Asked(o, carry[o], Fresh)
    /\ UNCHANGED <<deviceVars, faults>>
    /\ Unread

(* A write with this effect: done, discarded by a firmware that reports    *)
(* success, not done, or done with the reply lost.                         *)
Sent(o, Effect) ==
    /\ \/ Effect /\ Continue(o) /\ UNCHANGED faults
       \/ /\ MayHappen
          /\ faults' = faults + 1
          /\ \/ UNCHANGED deviceVars /\ Continue(o)
             \/ UNCHANGED deviceVars /\ Fail(o)
             \/ Effect /\ Fail(o)
    /\ Unread
Send(o, R) == Sent(o, Change(o, R))

(* A write that the appliance turns down.                                  *)
Refused(o) == Fail(o) /\ UNCHANGED <<deviceVars, faults>> /\ Unread

(* A switch-wide flag that is only ever turned on, and that no resource    *)
(* reads back.                                                             *)
Enable(o) == Says(o, "enable") /\ Send(o, rows)

(* The switch-wide flag that every block reads back as its own.            *)
SetState(o) == Says(o, "state") /\ Sent(o, Turn(o))

(* A row the appliance knows by its name: a second one is refused, or      *)
(* discarded with an answer of success.                                    *)
AddRow(o, m) ==
    IF RowsOf(o) # {}
    THEN Refused(o) \/ Send(o, rows)
    ELSE Room /\ Send(o, rows \cup {NewRow(Free, o, m)})
Add(o) == Says(o, "add") /\ AddRow(o, Both(goal[o]))

(* The same, with one of its fields: the other follows in a call of its    *)
(* own.                                                                    *)
Bare(o) == Says(o, "bare") /\ AddRow(o, <<"off", goal[o]>>)

(* A row under the id that was drawn.  The router stores whatever id it is *)
(* sent: one that is taken is overwritten, or now names two rows.          *)
Insert(o) ==
    /\ Says(o, "insert")
    /\ LET new == NewRow(drawn[o], o, Both(goal[o]))
       IN  Send(o, rows \cup {new}) \/ Send(o, (rows \ RowsAt(drawn[o])) \cup {new})

(* Fields of an object that is there.                                      *)
Write(o) ==
    /\ op[o] # "none" /\ Word(o) \in DOMAIN Form
    /\ LET w == Word(o)
       IN  IF Form[w].spare /\ \A i \in Form[w].parts : carry[o].mine[i] \in {goal[o], Target(o, w)}
           THEN Continue(o) /\ UNCHANGED <<deviceVars, faults>> /\ Unread
           ELSE Send(o, Written(o, w))

(* A merge whose error is not looked at.                                   *)
Try(o) ==
    /\ Says(o, "try")
    /\ Continue(o)
    /\ \/ Change(o, Written(o, "merge")) /\ UNCHANGED faults
       \/ UNCHANGED deviceVars /\ MayHappen /\ faults' = faults + 1
    /\ Unread

(* The row that has the saved id, whichever row that is now, gets the      *)
(* fields and the name of the block: nobody asks whether another has it.   *)
(* No rule names it by that name yet.                                      *)
Edited(o, r) ==
    [r EXCEPT !.key = o, !.name = called[o], !.mine = Both(goal[o]),
              !.rest = IF r.key = o /\ r.name = called[o] THEN r.rest ELSE "x"]
Edit(o) ==
    /\ Says(o, "edit")
    /\ IF RowsAt(saved[o].id) = {}
       THEN Refused(o)
       ELSE \E r \in RowsAt(saved[o].id) : Send(o, (rows \ {r}) \cup {Edited(o, r)})

(* The row of that name, or the row that has the saved id.                 *)
Delete(o) ==
    /\ Says(o, "delete")
    /\ IF RowsOf(o) = {}
       THEN Send(o, rows)
       ELSE \E r \in RowsOf(o) : Send(o, Without(r))
DeleteId(o) ==
    /\ Says(o, "deleteid")
    /\ IF RowsAt(saved[o].id) = {}
       THEN Refused(o)
       ELSE \E r \in RowsAt(saved[o].id) : Send(o, Without(r))

-----------------------------------------------------------------------------
(* The ends of an operation.                                               *)

(* What a row means to block o; Terraform raises an error when a provider  *)
(* saves something else than was planned, and keeps it.                    *)
StateOf(o, r) ==
    [id |-> r.id,
     name |-> IF r.key = o THEN r.name ELSE 0,
     mine |-> IF r.key = o THEN r.mine ELSE Both("off"),
     aside |-> IF This.aside THEN beside ELSE "off"]
Planned(o) ==
    [id |-> IF saved[o].id = -1 THEN 0 ELSE saved[o].id,
     name |-> called[o],
     mine |-> Both(goal[o]),
     aside |-> IF This.aside THEN goal[o] ELSE "off"]
As(o, s) ==
    /\ s.name = called[o]
    /\ s.mine = Both(goal[o])
    /\ This.aside => s.aside = goal[o]
Ended(o, r) == End(o, StateOf(o, r), IF As(o, StateOf(o, r)) THEN op[o] ELSE "error")
NothingSent == UNCHANGED <<deviceVars, faults>> /\ Unread

(* Read back by name; a row that is not there is an error.                 *)
Save(o) ==
    /\ Says(o, "save") \/ Says(o, "saveortrust")
    /\ IF Named(o) = {} THEN Fail(o) ELSE \E r \in Named(o) : Ended(o, r)
    /\ NothingSent

(* Read back by the id that was drawn.                                     *)
SaveId(o) ==
    /\ Says(o, "saveid")
    /\ IF RowsAt(drawn[o]) = {} THEN Fail(o) ELSE \E r \in RowsAt(drawn[o]) : Ended(o, r)
    /\ NothingSent

(* Read back; anything else than what was asked for is an error.           *)
SaveSame(o) ==
    /\ Says(o, "savesame")
    /\ IF \E r \in RowsOf(o) : r.mine = Both(goal[o])
       THEN \E r \in RowsOf(o) : r.mine = Both(goal[o]) /\ Ended(o, r)
       ELSE Fail(o)
    /\ NothingSent

(* Not read back, or not reachable any more: the plan is believed.         *)
Trust(o) ==
    /\ Says(o, "trust") \/ Says(o, "saveortrust")
    /\ End(o, Planned(o), op[o])
    /\ NothingSent

(* Delete leaves the appliance alone.                                      *)
Gone(o) == Says(o, "gone") /\ End(o, NoState, op[o]) /\ NothingSent

(* Read: the id is a hint, the name in the state is the truth; a row that  *)
(* has gone is dropped from the state.                                     *)
Find(o) ==
    /\ Says(o, "find")
    /\ LET known == {r \in RowsOf(o) : r.name = saved[o].name}
           mineAt == {r \in known : r.id = saved[o].id}
           found == IF mineAt = {} THEN known ELSE mineAt
       IN  \/ found = {} /\ End(o, NoState, outcome[o])
           \/ \E r \in found : End(o, StateOf(o, r), outcome[o])
    /\ NothingSent

(* Read: the id is all there is.                                           *)
FindId(o) ==
    /\ Says(o, "findid")
    /\ \/ RowsAt(saved[o].id) = {} /\ End(o, NoState, outcome[o])
       \/ \E r \in RowsAt(saved[o].id) : End(o, StateOf(o, r), outcome[o])
    /\ NothingSent

(* Read: an object that is not there is an error.                          *)
Show(o) ==
    /\ Says(o, "show")
    /\ IF RowsOf(o) = {} THEN Fail(o) ELSE \E r \in RowsOf(o) : End(o, StateOf(o, r), outcome[o])
    /\ NothingSent

(* Read and apply refuse a clock that is not set by SNTP.                  *)
On(o) == Says(o, "on") /\ Check(o, \E r \in RowsOf(o) : r.mine[1] # "off")

(* A read that fails.                                                      *)
CallFails(o) ==
    /\ op[o] # "none"
    /\ Word(o) \in (Asks \ {"peek"}) \cup Looks \cup {"save", "saveid", "savesame"}
    /\ MayHappen
    /\ faults' = faults + 1
    /\ Fail(o)
    /\ UNCHANGED deviceVars
    /\ Unread

Call(o) ==
    /\ op[o] # "none"
    /\ \/ Refuse(o) \/ Known(o) \/ Unused(o) \/ On(o) \/ Compare(o)
       \/ Fetch(o) \/ ListServers(o) \/ Peek(o) \/ Draw(o)
       \/ Enable(o) \/ SetState(o) \/ Add(o) \/ Bare(o) \/ Insert(o) \/ Write(o) \/ Try(o) \/ Edit(o)
       \/ Delete(o) \/ DeleteId(o)
       \/ Save(o) \/ SaveId(o) \/ SaveSame(o) \/ Trust(o) \/ Gone(o)
       \/ Find(o) \/ FindId(o) \/ Show(o)
       \/ CallFails(o)

-----------------------------------------------------------------------------
(* Terraform.                                                              *)

(* A run begins with a refresh of what is in the state.                    *)
StartRun ==
    /\ Resting
    /\ phase' = "refresh"
    /\ op' = [o \in Owners |-> IF saved[o] # NoState THEN "read" ELSE "none"]
    /\ shifted' = FALSE
    /\ UNCHANGED <<kind, rows, beside, configVars, saved, step, carry, drawn, outcome, wish, raced,
                   meddled, trespassed, dangling, faults, changes>>

Todo(o) ==
    IF goal[o] = "none"
    THEN IF saved[o] = NoState THEN "none" ELSE "delete"
    ELSE IF saved[o] = NoState THEN "create"
         ELSE IF As(o, saved[o]) THEN "none" ELSE "update"

(* What differs is created, updated and deleted, in parallel.              *)
Plan ==
    /\ phase = "refresh"
    /\ \A o \in Owners : op[o] = "none"
    /\ phase' = "apply"
    /\ op' = [o \in Owners |-> Todo(o)]
    /\ outcome' = [o \in Owners |-> IF Todo(o) = "none" THEN outcome[o] ELSE "none"]
    /\ meddled' = {o \in meddled : Todo(o) = "none"}
    /\ UNCHANGED <<kind, rows, beside, configVars, saved, step, carry, drawn, wish, raced, shifted,
                   trespassed, dangling, faults, changes>>

(* The run is killed.                                                      *)
Kill ==
    /\ ~Resting
    /\ MayHappen
    /\ faults' = faults + 1
    /\ phase' = "apply"
    /\ op' = [o \in Owners |-> "none"]
    /\ step' = [o \in Owners |-> 1]
    /\ carry' = [o \in Owners |-> NoCarry]
    /\ drawn' = [o \in Owners |-> -1]
    /\ outcome' = [o \in Owners |-> IF op[o] = "none" THEN outcome[o] ELSE "error"]
    /\ UNCHANGED <<kind, rows, beside, configVars, saved, wish, raced, meddled, shifted, trespassed,
                   dangling, changes>>

(* With another name for block o, its rows are nobody's unless the state   *)
(* follows them, and those that have the name already are the block's.     *)
Relabelled(o, n, S) ==
    {IF r \in S THEN [r EXCEPT !.key = o, !.name = n]
     ELSE IF r.key = o /\ saved[o] = NoState THEN [r EXCEPT !.key = Stranger, !.name = 1]
     ELSE r : r \in rows}

(* The administrator takes a block out of the configuration, or changes or *)
(* restores it, or gives it another name, which a row of nobody's may have.*)
(* Both of these are two steps, between which no run need begin.           *)
Configure(o, g, n) ==
    /\ Resting
    /\ o \in Blocks /\ (g # goal[o] <=> n = called[o])
    /\ MayHappen
    /\ changes' = changes + 1
    /\ goal' = [goal EXCEPT ![o] = g]
    /\ called' = [called EXCEPT ![o] = n]
    /\ \/ n = called[o] /\ UNCHANGED <<rows, renamed>>
       \/ /\ n # called[o] /\ This.renames
          /\ \E S \in {{}} \cup {{r} : r \in RowsOf(Stranger)} : rows' = Relabelled(o, n, S)
          /\ renamed' = IF saved[o] = NoState THEN renamed ELSE renamed \cup {o}
    /\ outcome' = [outcome EXCEPT ![o] = "none"]
    /\ UNCHANGED <<kind, beside, saved, phase, localVars, wish, raced, meddled, shifted,
                   trespassed, dangling, faults>>

(* ImportState: what is on the appliance becomes the state of a block.     *)
Import(o) ==
    /\ Resting
    /\ goal[o] # "none" /\ saved[o] = NoState
    /\ \E r \in RowsOf(o) : saved' = [saved EXCEPT ![o] = StateOf(o, r)]
    /\ outcome' = [outcome EXCEPT ![o] = "none"]
    /\ UNCHANGED <<kind, rows, beside, configVars, phase, localVars, wish, raced, meddled, shifted,
                   trespassed, dangling, faults, changes>>

-----------------------------------------------------------------------------
(* Somebody else.                                                          *)

Elsewhere ==
    /\ MayHappen
    /\ changes' = changes + 1
    /\ UNCHANGED <<kind, configVars, saved, phase, localVars, outcome, trespassed, dangling,
                   faults>>

(* Another value for the fields a block manages.                           *)
SetMine(r, m) ==
    /\ r.key \in Owners /\ m # r.mine
    /\ rows' = (rows \ {r}) \cup {[r EXCEPT !.mine = m]}
    /\ meddled' = meddled \cup {r.key}
    /\ Elsewhere
    /\ UNCHANGED <<beside, wish, raced, shifted>>

(* Another value for the rest of the object, or a rule that names it.      *)
SetRest(r, q) ==
    /\ r.key \in Owners /\ q # r.rest
    /\ This.collection => This.named
    /\ rows' = (rows \ {r}) \cup {[r EXCEPT !.rest = q]}
    /\ wish' = IF This.collection THEN wish ELSE q
    /\ raced' = (raced \/ op[r.key] # "none")
    /\ Elsewhere
    /\ UNCHANGED <<beside, meddled, shifted>>

Remove(r) ==
    /\ This.collection \/ This.vanishes
    /\ rows' = Without(r)
    /\ meddled' = meddled \cup (Owners \cap {r.key})
    /\ shifted' = TRUE
    /\ Elsewhere
    /\ UNCHANGED <<beside, wish, raced>>

Appear ==
    /\ IF This.collection THEN Room ELSE rows = {}
    /\ rows' = rows \cup {NewRow(Fresh, IF This.collection THEN Stranger ELSE First, Both("off"))}
    /\ wish' = IF This.collection THEN wish ELSE "x"
    /\ raced' = (raced \/ (~This.collection /\ op[First] # "none"))
    /\ meddled' = meddled \cup (IF This.collection THEN {} ELSE {First})
    /\ Elsewhere
    /\ UNCHANGED <<beside, shifted>>

(* Another value for the flag, or the other object is made or taken.       *)
SetBeside(v) ==
    /\ v # beside
    /\ beside' = v
    /\ meddled' = IF This.aside THEN Owners ELSE meddled
    /\ Elsewhere
    /\ UNCHANGED <<rows, wish, raced, shifted>>

(* The fields together, or without the one that is never written.          *)
Edits(r) ==
    {Both(v) : v \in Values}
        \cup {<<v, r.mine[2]>> : v \in IF 2 \in Untouched THEN Values ELSE {}}

SomebodyElse ==
    \/ \E r \in rows : \/ \E m \in Edits(r) : SetMine(r, m)
                       \/ \E q \in {"x", "y"} : SetRest(r, q)
                       \/ Remove(r)
    \/ Appear
    \/ \E v \in Besides : SetBeside(v)

Next ==
    \/ \E o \in Owners : Call(o) \/ Import(o)
    \/ \E o \in Owners, g \in Goals \cup {"none"}, n \in Labels : Configure(o, g, n)
    \/ StartRun \/ Plan \/ Kill
    \/ SomebodyElse

Spec == Init /\ [][Next]_vars

(* The pipeline goes on applying, and every call has a timeout.            *)
Running == StartRun \/ Plan \/ \E o \in Owners : Call(o)
FairSpec == Spec /\ WF_vars(Running)

-----------------------------------------------------------------------------
(* Properties.                                                             *)

(* Block o is on the appliance as it is configured: a row of its name, and *)
(* the flag outside the rows.                                              *)
Done(o) ==
    /\ This.aside => beside = goal[o]
    /\ \E r \in Named(o) : r.mine = Both(goal[o])

(* An apply that reports success has put the planned value on the          *)
(* appliance, also on a firmware that confirms writes it discards, unless  *)
(* somebody else wrote since, or an operation of another block turned the  *)
(* flag they share.  Not for an operation that reads nothing back.         *)
SuccessIsReal ==
    \A o \in Owners :
        outcome[o] \in {"create", "update"} \ This.trusts /\ o \notin meddled /\ ~trespassed
            => Done(o)

(* Fields of an object that the resource does not manage stay as they were *)
(* last set, whatever fails, unless they were set in the middle of an      *)
(* operation.  Not for a kind that sends constants for them.               *)
RestKept ==
    ~This.collection /\ ~This.clobbers /\ ~raced
        => \A r \in rows : r.rest = wish

(* No block has two rows on the appliance: a Create that failed half way   *)
(* does not make a second one the next time.  Not for a block that was     *)
(* given another name while it was in the state: Update does not look for  *)
(* a row that has the name already.                                        *)
NoDuplicateRows ==
    ~This.repeats /\ ~trespassed
        => \A o \in Owners \ renamed : \A r, s \in RowsOf(o) : r = s

(* Two rows have one id, or a new row is about to take the id of another.  *)
Ambiguous ==
    \/ \E r, s \in rows : r # s /\ r.id = s.id
    \/ \E o \in Owners : drawn[o] # -1 /\ RowsAt(drawn[o]) # {}

(* An operation changes a row of another block, or of nobody, only through *)
(* an id whose row has gone since the run began, or that two rows share;   *)
(* or, where Read follows the id alone, after somebody else edited.  This  *)
(* is about rows: the flag that blocks share is outside of them.           *)
OwnRowsOnly ==
    [][trespassed' # trespassed => shifted \/ Ambiguous \/ This.byid]_vars

(* No service profile is deleted while a forwarding rule names it, unless  *)
(* the rule came between the check and the delete.  About deletes: Update  *)
(* renames a profile without asking who names it.                          *)
NoDanglingRule == dangling => raced \/ trespassed

(* After a Delete that met no fault the object is gone, or switched off.   *)
DestroyedIsGone ==
    \A o \in Owners \ renamed :
        outcome[o] = "delete" /\ ~This.lingers /\ faults = 0 /\ o \notin meddled /\ ~trespassed
            => \A r \in RowsOf(o) : ~This.collection /\ r.mine[1] = "off"

(* Terraform and the appliance are as configured.                          *)
Settled(o) ==
    IF goal[o] = "none"
    THEN saved[o] = NoState
    ELSE /\ As(o, saved[o])
         /\ This.aside => beside = goal[o]
         /\ \E r \in Named(o) : r.id = saved[o].id /\ r.mine = Both(goal[o])

Has(p, w) == \E i \in DOMAIN This[p] : This[p][i] = w

(* What plan and apply cannot get out of alone.  A row made by a Create    *)
(* that failed, or renamed by an Update that did: it is to be imported.    *)
(* An object that is not there, and another that a write has to name.  A   *)
(* profile that a rule names.  A clock that is not set by SNTP any more.   *)
(* Ids that name the wrong rows.                                           *)
Blocked(o) ==
    \/ This.collection /\ saved[o] = NoState /\ Named(o) # {}
    \/ ~This.collection /\ RowsOf(o) = {}
    \/ Todo(o) # "none" /\ Has(Todo(o), "known") /\ beside = "off"
    \/ goal[o] = "none" /\ \E r \in RowsOf(o) : r.rest = "y"
    \/ This.read[1] = "on" /\ \E r \in RowsOf(o) : r.mine[1] = "off"
    \/ trespassed \/ Ambiguous

(* What the code does not write, or not for good, though the resource      *)
(* manages it: a field that Update leaves out; a flag that no operation    *)
(* sets, or that another block wants otherwise; a server that has the      *)
(* wanted address and other fields.                                        *)
Unwritten(o) ==
    /\ goal[o] # "none"
    /\ \/ \E r \in RowsOf(o), i \in Untouched : r.mine[i] # goal[o]
       \/ This.aside /\ ~Has("update", "state") /\ beside # goal[o]
       \/ This.aside /\ Has("update", "state") /\ \E b \in Owners : goal[b] \notin {"none", goal[o]}
       \/ Has("update", "list") /\ \E r \in RowsOf(o) : r.mine[2] \in Goals \ {goal[o]}
Stuck(o) == Blocked(o) \/ Unwritten(o)

(* Once nobody edits any more and calls work, repeated runs bring every    *)
(* block to what is configured, unless it is blocked, or wants what the    *)
(* code does not write.                                                    *)
Converges == <>[](\A o \in Blocks : Settled(o) \/ Stuck(o))
=============================================================================
