------------------------- MODULE RotateAdminProofs -------------------------
(***************************************************************************)
(* Proofs about RotateAdmin, for every finite set of runs and every bound  *)
(* on edits.  The order of the argument: types; how many versions can have *)
(* been written (Counted), so that a mount that keeps enough of them has   *)
(* dropped none; who may hold a stored password (Stored), from which       *)
(* custody and the refinement follow; the shape of a fault-free rotation   *)
(* (InStep), from which agreement follows, and that two versions are       *)
(* enough for it; and what the runs read of the other field (SameFields).  *)
(***************************************************************************)
EXTENDS RotateAdmin, FiniteSetTheorems, TLAPS

(* Every variable stays in its domain. *)
THEOREM TypeCorrect == Spec => []TypeOK
<1> USE EditsAssumption DEF TypeOK, Secret, Passwords, Steps, Outcomes, vaultVars
<1>1. Init => TypeOK
  BY DEF Init
<1>f. \A f \in Field : AsString(f) \in Field
  BY DEF Field, AsString
<1>2. TypeOK /\ [Next]_vars => TypeOK'
  <2> SUFFICES ASSUME TypeOK, [Next]_vars
               PROVE  TypeOK'
    OBVIOUS
  <2> USE DEF Goto, End
  <2>1. ASSUME NEW r \in Runs, ReadSecret(r)
        PROVE  TypeOK'
    BY <1>f, <2>1 DEF ReadSecret, ActiveRuns, Active
  <2>2. ASSUME NEW r \in Runs, Generate(r)
        PROVE  TypeOK'
    BY <2>2 DEF Generate
  <2>3. ASSUME NEW r \in Runs, StoreNew(r)
        PROVE  TypeOK'
    BY <2>3 DEF StoreNew, Write, VaultPut, CloneWith
  <2>4. ASSUME NEW r \in Runs, SetPassword(r)
        PROVE  TypeOK'
    BY <2>4 DEF SetPassword
  <2>5. ASSUME NEW r \in Runs, RollBack(r)
        PROVE  TypeOK'
    BY <2>5 DEF RollBack, Write, VaultPut
  <2>6. ASSUME NEW r \in Runs, Verify(r)
        PROVE  TypeOK'
    BY <2>6 DEF Verify
  <2>7. ASSUME NEW r \in Runs, Kill(r)
        PROVE  TypeOK'
    BY <2>7 DEF Kill
  <2>8. CASE EditOtherField
    BY <2>8 DEF EditOtherField, VaultPut
  <2>9. CASE UNCHANGED vars
    BY <2>9 DEF vars
  <2> QED
    BY <2>1, <2>2, <2>3, <2>4, <2>5, <2>6, <2>7, <2>8, <2>9 DEF Next, Rotate
<1> QED
  BY <1>1, <1>2, PTL DEF Spec

-----------------------------------------------------------------------------
(* Custody.                                                                *)

(* A run writes at most once before it is about to change the appliance,   *)
(* and at most once more before it ends.                                   *)
PutOnce == {r \in Runs : pc[r] \notin {"idle", "generate", "store"}}
PutTwice == {r \in Runs : pc[r] = "done"}

Counted == version =< 1 + edits + Cardinality(PutOnce) + Cardinality(PutTwice)

LEMMA CardinalityGrows ==
    ASSUME NEW S \in SUBSET Runs, NEW T \in SUBSET Runs, S \subseteq T
    PROVE  /\ Cardinality(S) \in Nat
           /\ Cardinality(T) \in Nat
           /\ Cardinality(S) =< Cardinality(T)
           /\ \A r \in T \ S : Cardinality(S) + 1 =< Cardinality(T)
<1>1. IsFiniteSet(T) /\ IsFiniteSet(S)
  BY RunsAssumption, FS_Subset
<1>2. Cardinality(T) \in Nat /\ Cardinality(S) \in Nat
  BY <1>1, FS_CardinalityType
<1>3. Cardinality(S) =< Cardinality(T)
  BY <1>1, FS_Subset
<1>4. ASSUME NEW r \in T \ S
      PROVE  Cardinality(S) + 1 =< Cardinality(T)
  <2>1. Cardinality(S \cup {r}) = Cardinality(S) + 1
    BY <1>1, <1>4, FS_AddElement
  <2>2. S \cup {r} \in SUBSET T
    BY <1>4
  <2> QED
    BY <1>1, <2>1, <2>2, FS_Subset
<1> QED
  BY <1>2, <1>3, <1>4

LEMMA CountedStep ==
    ASSUME TypeOK, Counted, [Next]_vars
    PROVE  Counted'
<1> USE DEF TypeOK, Goto, End, vaultVars
<1> DEFINE C1 == Cardinality(PutOnce)
           C2 == Cardinality(PutTwice)
<1>1. PutOnce \in SUBSET Runs /\ PutTwice \in SUBSET Runs
      /\ PutOnce' \in SUBSET Runs /\ PutTwice' \in SUBSET Runs
  BY DEF PutOnce, PutTwice
<1>2. C1 \in Nat /\ C2 \in Nat /\ C1' \in Nat /\ C2' \in Nat
  BY <1>1, CardinalityGrows
<1>3. ASSUME UNCHANGED <<version, edits>>, PutOnce \subseteq PutOnce', PutTwice \subseteq PutTwice'
      PROVE  Counted'
  <2>1. C1 =< C1' /\ C2 =< C2'
    BY <1>1, <1>3, CardinalityGrows
  <2> QED
    BY <1>2, <1>3, <2>1 DEF Counted
<1>4. ASSUME NEW r \in Runs,
             ReadSecret(r) \/ Generate(r) \/ SetPassword(r) \/ Verify(r) \/ Kill(r)
      PROVE  Counted'
  <2>1. UNCHANGED <<version, edits>>
    BY <1>4 DEF ReadSecret, Generate, SetPassword, Verify, Kill
  <2>2. PutOnce \subseteq PutOnce' /\ PutTwice \subseteq PutTwice'
    BY <1>4 DEF ReadSecret, Generate, SetPassword, Verify, Kill, PutOnce, PutTwice, Active
  <2> QED
    BY <1>3, <2>1, <2>2
<1>5. ASSUME NEW r \in Runs, StoreNew(r)
      PROVE  Counted'
  <2>1. version' =< version + 1 /\ edits' = edits
    BY <1>5 DEF StoreNew, Write, VaultPut
  <2>2. PutOnce \subseteq PutOnce' /\ PutTwice \subseteq PutTwice' /\ r \in PutOnce' \ PutOnce
    BY <1>5 DEF StoreNew, Write, PutOnce, PutTwice
  <2>3. C1 + 1 =< C1' /\ C2 =< C2'
    BY <1>1, <2>2, CardinalityGrows
  <2>4. version' \in Nat
    BY <1>5 DEF StoreNew, Write, VaultPut
  <2> QED
    BY <1>2, <2>1, <2>3, <2>4 DEF Counted
<1>6. ASSUME NEW r \in Runs, RollBack(r)
      PROVE  Counted'
  <2>1. version' =< version + 1 /\ edits' = edits
    BY <1>6 DEF RollBack, Write, VaultPut
  <2>2. PutOnce \subseteq PutOnce' /\ PutTwice \subseteq PutTwice' /\ r \in PutTwice' \ PutTwice
    BY <1>6 DEF RollBack, Write, PutOnce, PutTwice
  <2>3. C1 =< C1' /\ C2 + 1 =< C2'
    BY <1>1, <2>2, CardinalityGrows
  <2>4. version' \in Nat
    BY <1>6 DEF RollBack, Write, VaultPut
  <2> QED
    BY <1>2, <2>1, <2>3, <2>4 DEF Counted
<1>7. CASE EditOtherField
  <2>1. version' = version + 1 /\ edits' = edits + 1 /\ pc' = pc
    BY <1>7 DEF EditOtherField, VaultPut
  <2>2. C1' = C1 /\ C2' = C2
    BY <2>1 DEF PutOnce, PutTwice
  <2> QED
    BY <1>2, <2>1, <2>2, EditsAssumption DEF Counted
<1>8. CASE UNCHANGED vars
  BY <1>3, <1>8 DEF vars, PutOnce, PutTwice
<1> QED
  BY <1>4, <1>5, <1>6, <1>7, <1>8 DEF Next, Rotate

(* Every password that was ever written. *)
Held == {p \in Passwords : written[p] > 0}

(* A mount that keeps as many versions as can have been written has        *)
(* dropped none of them.                                                   *)
LEMMA NothingDropped ==
    ASSUME TypeOK, Counted, EnoughVersions
    PROVE  Kept = Held
<1>1. PutOnce \in SUBSET Runs /\ PutTwice \in SUBSET Runs /\ Runs \in SUBSET Runs
  BY DEF PutOnce, PutTwice
<1>2. /\ Cardinality(PutOnce) \in Nat /\ Cardinality(PutTwice) \in Nat
      /\ Cardinality(Runs) \in Nat
      /\ Cardinality(PutOnce) =< Cardinality(Runs)
      /\ Cardinality(PutTwice) =< Cardinality(Runs)
  BY <1>1, CardinalityGrows
<1>3. version =< MaxVersions
  BY <1>2, VersionsAssumption, EditsAssumption DEF Counted, EnoughVersions, TypeOK
<1>4. ASSUME NEW p \in Passwords, written[p] > 0
      PROVE  written[p] + MaxVersions > version
  BY <1>3, <1>4, VersionsAssumption DEF TypeOK
<1> QED
  BY <1>4 DEF Kept, Held

(* A run about to change the appliance has stored the password it will set. *)
Stored == \A r \in Runs : pc[r] = "change" => r \in Held

CustodyInv == TypeOK /\ Counted /\ devicePw \in Held /\ Stored

(* A password that was written once stays so. *)
LEMMA HeldGrows ==
    ASSUME TypeOK, [Next]_vars
    PROVE  Held \subseteq Held'
<1> USE DEF VaultPut, Write, TypeOK, Secret, Held, vaultVars
<1>1. ASSUME NEW r \in Runs, StoreNew(r) \/ RollBack(r)
      PROVE  Held \subseteq Held'
  BY <1>1 DEF StoreNew, RollBack, CloneWith
<1>2. ASSUME NEW r \in Runs,
             ReadSecret(r) \/ Generate(r) \/ SetPassword(r) \/ Verify(r) \/ Kill(r)
      PROVE  Held \subseteq Held'
  BY <1>2 DEF ReadSecret, Generate, SetPassword, Verify, Kill
<1>3. CASE EditOtherField
  BY <1>3 DEF EditOtherField
<1>4. CASE UNCHANGED vars
  BY <1>4 DEF vars
<1> QED
  BY <1>1, <1>2, <1>3, <1>4 DEF Next, Rotate

(* The appliance moves only to the password of a run that stood at         *)
(* "change", and no other step moves it.                                   *)
LEMMA PasswordMoves ==
    ASSUME [Next]_vars
    PROVE  \/ devicePw' = devicePw
           \/ \E r \in Runs : pc[r] = "change" /\ devicePw' = r /\ UNCHANGED vaultVars
<1>1. ASSUME NEW r \in Runs, Rotate(r)
      PROVE  \/ devicePw' = devicePw
             \/ pc[r] = "change" /\ devicePw' = r /\ UNCHANGED vaultVars
  BY <1>1 DEF Rotate, ReadSecret, Generate, StoreNew, SetPassword, RollBack, Verify
<1>2. ASSUME NEW r \in Runs, Kill(r)
      PROVE  devicePw' = devicePw
  BY <1>2 DEF Kill
<1> QED
  BY <1>1, <1>2 DEF Next, EditOtherField, vars

(* A run reaches "change" only by a write of its password that succeeded.  *)
LEMMA ChangeAfterStore ==
    ASSUME TypeOK, [Next]_vars, NEW r \in Runs, pc'[r] = "change"
    PROVE  pc[r] = "change" \/ r \in Held'
<1> USE DEF TypeOK, Goto, End
<1>1. ASSUME NEW q \in Runs, StoreNew(q)
      PROVE  pc[r] = "change" \/ r \in Held'
  BY <1>1 DEF StoreNew, Write, VaultPut, CloneWith, Secret, Held, Passwords
<1>2. ASSUME NEW q \in Runs,
             ReadSecret(q) \/ Generate(q) \/ SetPassword(q) \/ Verify(q) \/ Kill(q)
      PROVE  pc[r] = "change"
  BY <1>2 DEF ReadSecret, Generate, SetPassword, Verify, Kill
<1>3. ASSUME NEW q \in Runs, RollBack(q)
      PROVE  pc[r] = "change"
  BY <1>3 DEF RollBack, Write
<1> QED
  BY <1>1, <1>2, <1>3 DEF Next, Rotate, EditOtherField, vars

LEMMA CustodyInvariant == Spec => []CustodyInv
<1>1. ASSUME Init
      PROVE  Counted /\ devicePw \in Held /\ Stored
  <2>1. PutOnce = {} /\ PutTwice = {}
    BY <1>1 DEF Init, PutOnce, PutTwice
  <2>2. Counted
    BY <1>1, <2>1, FS_EmptySet DEF Init, Counted
  <2> QED
    BY <1>1, <2>2 DEF Init, Stored, Held, Passwords
<1>2. CustodyInv /\ [Next]_vars => (Counted /\ devicePw \in Held /\ Stored)'
  <2> SUFFICES ASSUME CustodyInv, [Next]_vars
               PROVE  Counted' /\ devicePw' \in Held' /\ Stored'
    OBVIOUS
  <2> USE DEF CustodyInv
  <2>1. devicePw' \in Held'
    BY HeldGrows, PasswordMoves DEF Stored
  <2>2. Stored'
    BY HeldGrows, ChangeAfterStore DEF Stored
  <2> QED
    BY <2>1, <2>2, CountedStep
<1> QED
  BY <1>1, <1>2, TypeCorrect, PTL DEF Spec, CustodyInv

(* The password in use can be read back from some version of the secret,   *)
(* through any number of rotations, kills and lost replies, overlapping or *)
(* not, as long as the mount keeps the versions they may write: the first, *)
(* two for each run and one for each edit (four rotations and an edit on a *)
(* mount with the default of ten).                                         *)
THEOREM AlwaysRecoverable == ASSUME EnoughVersions PROVE Spec => []Recoverable
<1>1. CustodyInv => Recoverable
  BY NothingDropped DEF CustodyInv, Recoverable
<1> QED
  BY <1>1, CustodyInvariant, PTL

(* Under the same condition every step of the rotator is a step of         *)
(* PasswordCustody, or none.                                               *)
THEOREM CustodyImplemented == ASSUME EnoughVersions PROVE Spec => CustodyHolds
<1>1. ASSUME Init
      PROVE  Custody!Init
  <2>1. Kept = {InitialPw}
    BY <1>1, VersionsAssumption, RunsAssumption DEF Init, Kept, Passwords
  <2> QED
    BY <1>1, <2>1 DEF Init, Custody!Init
<1>2. CustodyInv => Kept = Held
  BY NothingDropped DEF CustodyInv
<1>3. CustodyInv /\ Kept = Held /\ (CustodyInv /\ Kept = Held)' /\ [Next]_vars
         => [Custody!Next]_Custody!vars
  <2> SUFFICES ASSUME CustodyInv, Kept = Held, CustodyInv', Kept' = Held', [Next]_vars
               PROVE  [Custody!Next]_Custody!vars
    OBVIOUS
  <2> USE DEF Custody!Next, Custody!Keep, Custody!Adopt, Custody!vars
  <2>1. CASE devicePw' = devicePw
    BY <2>1 DEF CustodyInv, Held
  <2>2. ASSUME NEW r \in Runs, pc[r] = "change", devicePw' = r, UNCHANGED vaultVars
        PROVE  Custody!Next
    <3>1. Kept' = Kept
      BY <2>2 DEF Kept, vaultVars
    <3> QED
      BY <2>2, <3>1 DEF CustodyInv, Stored, Passwords
  <2> QED
    BY <2>1, <2>2, PasswordMoves
<1> QED
  BY <1>1, <1>2, <1>3, CustodyInvariant, PTL DEF Spec, CustodyHolds, Custody!Spec

-----------------------------------------------------------------------------
(* Agreement.                                                              *)

(* A rotation that has met no other: the password it read is in Vault till *)
(* it writes, its own password is there until it writes again, and the     *)
(* appliance is on that password once SetPassword reported success.        *)
InStep(r) ==
    /\ \A q \in Runs : pc[q] \in Active => q = r
    /\ pc[r] \in {"generate", "store"} => vault.password = secret[r].password
    /\ pc[r] \in {"change", "rollback"} => vault.password = r
    /\ pc[r] = "verify" => vault.password = r /\ devicePw = r

LoneRotations == \A r \in Runs : pc[r] \in Active /\ r \notin overlapped => InStep(r)

(* Without a fault, the appliance is on the password Vault holds or, while *)
(* a rotation is about to change it or to roll back, on the one it read.   *)
NoFaultYet ==
    Faultless =>
        /\ ActiveRuns = {} => vault.password = devicePw
        /\ \A r \in Runs :
            /\ pc[r] \in {"generate", "store"} => devicePw = vault.password
            /\ pc[r] \in {"change", "rollback"} => devicePw = secret[r].password

NoneUntilDone == \A r \in Runs : pc[r] # "done" => outcome[r] = "none"

AgreeInv == TypeOK /\ LoneRotations /\ NoFaultYet /\ NoneUntilDone

(* A fault stays on record. *)
LEMMA FaultsStay ==
    ASSUME TypeOK, NoneUntilDone, [Next]_vars, Faultless'
    PROVE  Faultless
<1> USE DEF Faultless, TypeOK, NoneUntilDone, Goto, End, vaultVars
<1>1. ASSUME NEW r \in Runs, Rotate(r)
      PROVE  Faultless
  BY <1>1 DEF Rotate, ReadSecret, Generate, StoreNew, SetPassword, RollBack, Verify, Write
<1>2. ASSUME NEW r \in Runs, Kill(r)
      PROVE  Faultless
  BY <1>2 DEF Kill, Active
<1>3. CASE EditOtherField
  BY <1>3 DEF EditOtherField
<1>4. CASE UNCHANGED vars
  BY <1>4 DEF vars
<1> QED
  BY <1>1, <1>2, <1>3, <1>4 DEF Next

LEMMA NoneUntilDoneStep ==
    ASSUME TypeOK, NoneUntilDone, [Next]_vars
    PROVE  NoneUntilDone'
<1> USE DEF TypeOK, NoneUntilDone, Goto, End, vaultVars
<1>1. ASSUME NEW r \in Runs, Rotate(r)
      PROVE  NoneUntilDone'
  BY <1>1 DEF Rotate, ReadSecret, Generate, StoreNew, SetPassword, RollBack, Verify, Write
<1>2. ASSUME NEW r \in Runs, Kill(r)
      PROVE  NoneUntilDone'
  BY <1>2 DEF Kill, Active
<1> QED
  BY <1>1, <1>2 DEF Next, EditOtherField, vars

(* A rotation that starts while another is active, or is active when one   *)
(* starts, has met it; so a lone one stays alone.                          *)
LEMMA LoneRotationsStep ==
    ASSUME TypeOK, LoneRotations, [Next]_vars
    PROVE  LoneRotations'
<1> USE DEF TypeOK, Goto, End, Active, vaultVars
<1> SUFFICES ASSUME NEW r \in Runs, pc'[r] \in Active, r \notin overlapped'
             PROVE  InStep(r)'
  BY DEF LoneRotations
<1>1. ASSUME NEW q \in Runs, ReadSecret(q)
      PROVE  InStep(r)'
  <2>1. CASE ActiveRuns = {}
    BY <1>1, <2>1 DEF ReadSecret, InStep, ActiveRuns, Secret
  <2>2. CASE ActiveRuns # {}
    <3>1. r # q /\ r \notin ActiveRuns
      BY <1>1, <2>2 DEF ReadSecret
    <3> QED
      BY <1>1, <3>1 DEF ReadSecret, ActiveRuns
  <2> QED
    BY <2>1, <2>2
<1> DEFINE Works(q) == \/ Generate(q) \/ StoreNew(q) \/ SetPassword(q)
                       \/ RollBack(q) \/ Verify(q) \/ Kill(q)
<1>2. ASSUME NEW q \in Runs, Works(q)
      PROVE  pc[q] \in Active /\ pc[r] \in Active /\ overlapped' = overlapped
  BY <1>2 DEF Generate, StoreNew, SetPassword, RollBack, Verify, Kill, Write
<1>3. ASSUME NEW q \in Runs, Works(q)
      PROVE  q = r /\ InStep(r)
  BY <1>2, <1>3 DEF LoneRotations, InStep
<1>4. ASSUME NEW q \in Runs, Generate(q)
      PROVE  InStep(r)'
  BY <1>3, <1>4 DEF Generate, InStep
<1>5. ASSUME NEW q \in Runs, StoreNew(q)
      PROVE  InStep(r)'
  BY <1>3, <1>5 DEF StoreNew, Write, VaultPut, CloneWith, Secret, InStep
<1>6. ASSUME NEW q \in Runs, SetPassword(q)
      PROVE  InStep(r)'
  BY <1>3, <1>6 DEF SetPassword, InStep
<1>7. ASSUME NEW q \in Runs, RollBack(q)
      PROVE  InStep(r)'
  BY <1>3, <1>7 DEF RollBack, Write, InStep
<1>8. ASSUME NEW q \in Runs, Verify(q) \/ Kill(q)
      PROVE  InStep(r)'
  BY <1>3, <1>8 DEF Verify, Kill, InStep
<1>9. CASE EditOtherField
  BY <1>9 DEF EditOtherField, ActiveRuns, VaultPut
<1>10. CASE UNCHANGED vars
  BY <1>10 DEF vars, LoneRotations, InStep
<1> QED
  BY <1>1, <1>4, <1>5, <1>6, <1>7, <1>8, <1>9, <1>10 DEF Next, Rotate

LEMMA NoFaultYetStep ==
    ASSUME AgreeInv, [Next]_vars
    PROVE  NoFaultYet'
<1> USE DEF TypeOK, Goto, End, Active, vaultVars
<1> SUFFICES ASSUME Faultless'
             PROVE  /\ ActiveRuns' = {} => vault'.password = devicePw'
                    /\ \A r \in Runs :
                        /\ pc'[r] \in {"generate", "store"} => devicePw' = vault'.password
                        /\ pc'[r] \in {"change", "rollback"} => devicePw' = secret'[r].password
  BY DEF NoFaultYet
<1>1. Faultless /\ overlapped = {} /\ overlapped' = {} /\ ambiguous' = {}
  BY FaultsStay DEF AgreeInv, Faultless
<1>2. \A r \in Runs : pc[r] \in Active => InStep(r) /\ ActiveRuns = {r}
  BY <1>1 DEF AgreeInv, LoneRotations, InStep, ActiveRuns
<1>3. /\ ActiveRuns = {} => vault.password = devicePw
      /\ \A r \in Runs :
            /\ pc[r] \in {"generate", "store"} => devicePw = vault.password
            /\ pc[r] \in {"change", "rollback"} => devicePw = secret[r].password
  BY <1>1 DEF AgreeInv, NoFaultYet
<1>4. ASSUME NEW q \in Runs, ReadSecret(q)
      PROVE  NoFaultYet'
  <2>1. ActiveRuns = {}
    BY <1>1, <1>4 DEF ReadSecret
  <2> QED
    BY <1>3, <1>4, <2>1 DEF ReadSecret, ActiveRuns, NoFaultYet, AgreeInv
<1>5. ASSUME NEW q \in Runs, Generate(q)
      PROVE  NoFaultYet'
  BY <1>2, <1>3, <1>5 DEF Generate, ActiveRuns, NoFaultYet, AgreeInv
<1>6. ASSUME NEW q \in Runs, StoreNew(q)
      PROVE  NoFaultYet'
  <2>1. ambiguous' # ambiguous \cup {q}
    BY <1>1
  <2>2. vault.password = secret[q].password /\ ActiveRuns = {q} /\ devicePw = vault.password
    BY <1>2, <1>3, <1>6 DEF StoreNew, InStep
  <2>3. \/ pc' = [pc EXCEPT ![q] = "change"]
        \/ pc' = [pc EXCEPT ![q] = "done"] /\ UNCHANGED vault
    BY <1>6, <2>1 DEF StoreNew, Write
  <2> QED
    BY <1>6, <2>2, <2>3 DEF StoreNew, ActiveRuns, NoFaultYet, AgreeInv
<1>7. ASSUME NEW q \in Runs, SetPassword(q)
      PROVE  NoFaultYet'
  <2>1. ambiguous' # ambiguous \cup {q}
    BY <1>1
  <2> QED
    BY <1>2, <1>3, <1>7, <2>1 DEF SetPassword, ActiveRuns, NoFaultYet, AgreeInv
<1>8. ASSUME NEW q \in Runs, RollBack(q)
      PROVE  NoFaultYet'
  <2>1. outcome'[q] # "diverged"
    BY <1>8 DEF Faultless
  <2>2. VaultPut(secret[q]) /\ pc' = [pc EXCEPT ![q] = "done"]
    BY <1>8, <2>1 DEF RollBack, Write, AgreeInv
  <2>3. devicePw' = secret[q].password /\ ActiveRuns = {q}
    BY <1>2, <1>3, <1>8 DEF RollBack
  <2> QED
    BY <1>8, <2>2, <2>3 DEF VaultPut, ActiveRuns, NoFaultYet, AgreeInv, RollBack
<1>9. ASSUME NEW q \in Runs, Verify(q)
      PROVE  NoFaultYet'
  BY <1>2, <1>9 DEF Verify, InStep, ActiveRuns, NoFaultYet, AgreeInv
<1>10. ASSUME NEW q \in Runs, Kill(q)
       PROVE  FALSE
  BY <1>10 DEF Kill, Faultless, AgreeInv
<1>11. CASE EditOtherField
  BY <1>3, <1>11 DEF EditOtherField, VaultPut, ActiveRuns, NoFaultYet, AgreeInv, Secret
<1>12. CASE UNCHANGED vars
  BY <1>3, <1>12 DEF vars, ActiveRuns, NoFaultYet
<1> QED
  BY <1>4, <1>5, <1>6, <1>7, <1>8, <1>9, <1>10, <1>11, <1>12 DEF Next, Rotate, NoFaultYet

LEMMA AgreeInvariant == Spec => []AgreeInv
<1>1. Init => LoneRotations /\ NoFaultYet /\ NoneUntilDone
  BY DEF Init, LoneRotations, NoFaultYet, NoneUntilDone, Active
<1>2. AgreeInv /\ [Next]_vars => (LoneRotations /\ NoFaultYet /\ NoneUntilDone)'
  BY LoneRotationsStep, NoFaultYetStep, NoneUntilDoneStep DEF AgreeInv
<1> QED
  BY <1>1, <1>2, TypeCorrect, PTL DEF Spec, AgreeInv

(* Between rotations Vault and the appliance agree unless some fault set   *)
(* them apart: failing calls that had no effect never do.                  *)
THEOREM AgreementWithoutFaults == Spec => []AgreeUnlessFault
<1>1. AgreeInv => AgreeUnlessFault
  BY DEF AgreeInv, NoFaultYet, AgreeUnlessFault
<1> QED
  BY <1>1, AgreeInvariant, PTL

(* Exit codes 0 and 3 of a rotation that met no other are true: Vault and  *)
(* the appliance are both on the new password.                             *)
THEOREM SuccessIsReal == Spec => SuccessAgrees
<1>1. ASSUME AgreeInv, [Next]_vars, NEW r \in Runs \ overlapped',
             outcome[r] = "none", outcome'[r] \in {"success", "verifyFlaky"}
      PROVE  vault'.password = r /\ devicePw' = r
  <2> USE DEF AgreeInv, TypeOK, Goto, End, vaultVars
  <2>1. ASSUME NEW q \in Runs, Verify(q)
        PROVE  vault'.password = r /\ devicePw' = r
    BY <1>1, <2>1 DEF Verify, LoneRotations, InStep, Active
  <2>2. ASSUME NEW q \in Runs,
               \/ ReadSecret(q) \/ Generate(q) \/ SetPassword(q)
               \/ StoreNew(q) \/ RollBack(q) \/ Kill(q)
        PROVE  FALSE
    BY <1>1, <2>2 DEF ReadSecret, Generate, StoreNew, SetPassword, RollBack, Kill, Write
  <2> QED
    BY <1>1, <2>1, <2>2 DEF Next, Rotate, EditOtherField, vars
<1>2. AgreeInv /\ [Next]_vars => [SuccessStep]_vars
  BY <1>1 DEF SuccessStep
<1> QED
  BY <1>2, AgreeInvariant, PTL DEF Spec, SuccessAgrees

(* While a fault-free rotation may still roll back, the password it read   *)
(* is in the version before the current one, if not in the current one.    *)
TwoSuffice ==
    /\ written[vault.password] = version
    /\ Faultless =>
        \A r \in Runs : pc[r] \in {"change", "rollback"} =>
            /\ written[secret[r].password] > 0
            /\ written[secret[r].password] + 1 >= version

LEMMA TwoSufficeStep ==
    ASSUME AgreeInv, TwoSuffice, [Next]_vars
    PROVE  TwoSuffice'
<1> USE DEF TypeOK, Goto, End, Active, vaultVars
<1> DEFINE Two == Faultless =>
        \A r \in Runs : pc[r] \in {"change", "rollback"} =>
            /\ written[secret[r].password] > 0
            /\ written[secret[r].password] + 1 >= version
<1>1. ASSUME NEW q \in Runs, StoreNew(q) \/ RollBack(q)
      PROVE  (written[vault.password] = version)'
  BY <1>1 DEF StoreNew, RollBack, Write, VaultPut, CloneWith, Secret, Passwords, TwoSuffice, AgreeInv
<1>2. Faultless' => Faultless /\ overlapped = {}
  BY FaultsStay DEF AgreeInv, Faultless
<1>3. Faultless => \A r \in Runs : pc[r] \in Active => InStep(r) /\ ActiveRuns = {r}
  BY DEF AgreeInv, LoneRotations, InStep, ActiveRuns, Faultless
<1>4. ASSUME NEW q \in Runs, StoreNew(q), Faultless'
      PROVE  Two'
  <2>1. vault.password = secret[q].password /\ ActiveRuns = {q}
    BY <1>2, <1>3, <1>4 DEF StoreNew, InStep
  <2>2. secret' = secret /\ \A r \in Runs : pc'[r] \in {"change", "rollback"} => r = q
    BY <1>4, <2>1 DEF StoreNew, Write, ActiveRuns, AgreeInv
  <2>3. ASSUME pc'[q] \in {"change", "rollback"}
        PROVE  VaultPut(CloneWith(secret[q], q))
    BY <1>4, <2>3, <1>2 DEF StoreNew, Write, AgreeInv, Faultless
  <2>4. ASSUME VaultPut(CloneWith(secret[q], q))
        PROVE  /\ written'[secret[q].password] > 0
               /\ written'[secret[q].password] + 1 >= version'
    BY <2>1, <2>4 DEF VaultPut, CloneWith, Secret, Passwords, TwoSuffice, AgreeInv
  <2> QED
    BY <2>2, <2>3, <2>4
<1>5. ASSUME NEW q \in Runs, RollBack(q), Faultless'
      PROVE  Two'
  <2>1. ActiveRuns = {q}
    BY <1>2, <1>3, <1>5 DEF RollBack
  <2>2. \A r \in Runs : pc'[r] \notin {"change", "rollback"}
    BY <1>5, <2>1 DEF RollBack, Write, ActiveRuns, AgreeInv
  <2> QED
    BY <2>2
<1>6. ASSUME NEW q \in Runs,
             Generate(q) \/ SetPassword(q) \/ Verify(q) \/ Kill(q), Faultless'
      PROVE  Two'
  BY <1>2, <1>6 DEF Generate, SetPassword, Verify, Kill, TwoSuffice, AgreeInv
<1>7. ASSUME NEW q \in Runs, ReadSecret(q), Faultless'
      PROVE  Two'
  <2>1. \A r \in Runs : pc'[r] \in {"change", "rollback"} => r # q /\ pc[r] = pc'[r]
    BY <1>7 DEF ReadSecret, AgreeInv
  <2>2. \A r \in Runs \ {q} : secret'[r] = secret[r]
    BY <1>7 DEF ReadSecret, AgreeInv
  <2>3. UNCHANGED vaultVars
    BY <1>7 DEF ReadSecret
  <2> QED
    BY <1>2, <2>1, <2>2, <2>3 DEF TwoSuffice
<1>8. CASE EditOtherField
  <2>1. \A r \in Runs : pc'[r] \notin Active
    BY <1>8 DEF EditOtherField, ActiveRuns
  <2>2. (written[vault.password] = version)'
    BY <1>8 DEF EditOtherField, VaultPut, Secret, AgreeInv
  <2> QED
    BY <2>1, <2>2 DEF TwoSuffice
<1>9. ASSUME NEW q \in Runs,
             ReadSecret(q) \/ Generate(q) \/ SetPassword(q) \/ Verify(q) \/ Kill(q)
      PROVE  (written[vault.password] = version)'
  BY <1>9 DEF ReadSecret, Generate, SetPassword, Verify, Kill, TwoSuffice
<1>10. CASE UNCHANGED vars
  BY <1>10 DEF vars, TwoSuffice, Faultless
<1> QED
  BY <1>1, <1>4, <1>5, <1>6, <1>7, <1>8, <1>9, <1>10 DEF Next, Rotate, TwoSuffice

(* However many rotations and edits there are, two versions are enough     *)
(* until a call takes effect and reports an error, a run is killed, a      *)
(* roll-back fails or two rotations overlap.                               *)
THEOREM RecoverableUntilFault ==
    ASSUME MaxVersions >= 2 PROVE Spec => [](Faultless => Recoverable)
<1>1. ASSUME Init
      PROVE  TwoSuffice
  BY <1>1 DEF Init, TwoSuffice, Passwords
<1>2. AgreeInv /\ TwoSuffice => (Faultless => Recoverable)
  <2> SUFFICES ASSUME AgreeInv, TwoSuffice, Faultless
               PROVE  Recoverable
    OBVIOUS
  <2> USE VersionsAssumption DEF AgreeInv, TypeOK, Recoverable, Kept, TwoSuffice, Secret
  <2>1. CASE ActiveRuns = {}
    BY <2>1 DEF NoFaultYet
  <2>2. ASSUME NEW r \in Runs, pc[r] \in {"generate", "store", "verify"}
        PROVE  Recoverable
    BY <2>2 DEF NoFaultYet, LoneRotations, InStep, Faultless, Active
  <2>3. ASSUME NEW r \in Runs, pc[r] \in {"change", "rollback"}
        PROVE  Recoverable
    BY <2>3 DEF NoFaultYet
  <2> QED
    BY <2>1, <2>2, <2>3 DEF ActiveRuns, Active
<1> QED
  BY <1>1, <1>2, TwoSufficeStep, AgreeInvariant, PTL DEF Spec

-----------------------------------------------------------------------------
(* The other fields.                                                       *)

(* What an active run read of them is how Vault's copy reads, also when    *)
(* runs overlap: every write in between carried the same texts over.       *)
SameFields ==
    \A r \in Runs : pc[r] \in Active => secret[r].others = AsString(vault.others)

LEMMA SameFieldsStep ==
    ASSUME TypeOK, SameFields, [Next]_vars
    PROVE  SameFields' /\ [FieldsStep]_vars
<1> USE DEF TypeOK, SameFields, Active, Goto, End, FieldsStep, vaultVars
<1>s. \A f \in Field : AsString(AsString(f)) = AsString(f)
  BY DEF Field, AsString
<1>v. vault.others \in Field
  BY DEF Secret
<1>1. ASSUME NEW r \in Runs,
             Generate(r) \/ SetPassword(r) \/ Verify(r) \/ Kill(r)
      PROVE  SameFields' /\ UNCHANGED vault
  BY <1>1 DEF Generate, SetPassword, Verify, Kill
<1>2. ASSUME NEW r \in Runs, ReadSecret(r)
      PROVE  SameFields' /\ UNCHANGED vault
  <2>1. UNCHANGED vault
    BY <1>2 DEF ReadSecret
  <2>2. ASSUME NEW q \in Runs, pc'[q] \in Active
        PROVE  secret'[q].others = AsString(vault.others)
    BY <1>2, <2>2 DEF ReadSecret, Secret
  <2> QED
    BY <2>1, <2>2
<1>3. ASSUME NEW r \in Runs, StoreNew(r) \/ RollBack(r), UNCHANGED vault
      PROVE  SameFields'
  BY <1>3 DEF StoreNew, RollBack, Write
<1>4. ASSUME NEW r \in Runs, StoreNew(r) \/ RollBack(r), vault' # vault
      PROVE  SameFields' /\ vault'.others = AsString(vault.others)
  <2>1. vault'.others = secret[r].others /\ pc[r] \in Active /\ secret' = secret
    BY <1>4 DEF StoreNew, RollBack, Write, VaultPut, CloneWith, Secret
  <2>2. \A q \in Runs : pc'[q] \in Active => pc[q] \in Active
    BY <1>4 DEF StoreNew, RollBack, Write
  <2> QED
    BY <1>s, <1>v, <2>1, <2>2
<1>5. CASE EditOtherField
  BY <1>5 DEF EditOtherField, ActiveRuns
<1>6. CASE UNCHANGED vars
  BY <1>6 DEF vars
<1> QED
  BY <1>1, <1>2, <1>3, <1>4, <1>5, <1>6 DEF Next, Rotate

(* No rotation, however it ends and whatever runs beside it, changes what  *)
(* the other fields of the secret read as.                                 *)
THEOREM OtherFieldsSurvive == Spec => OtherFieldsKept
<1>1. Init => SameFields
  BY DEF Init, SameFields, Active
<1> QED
  BY <1>1, SameFieldsStep, TypeCorrect, PTL DEF Spec, OtherFieldsKept
=============================================================================
