---------------------------- MODULE RotateAdmin ----------------------------
(***************************************************************************)
(* cmd/rotate-admin: one-shot rotations of an appliance's admin password,  *)
(* kept in step with a Vault KV secret.  Each element of Runs is one       *)
(* invocation of the command.  rotate() is a straight line of calls to     *)
(* Vault and to the appliance; an action below is one such call, with      *)
(* every way it can end:                                                   *)
(*   - it takes effect and reports success;                                *)
(*   - it does not take effect and reports an error;                       *)
(*   - it takes effect and still reports an error, because the reply was   *)
(*     lost or the HTTP client gave up first (30 s for Vault, 60 s for the *)
(*     router).  The run then joins `ambiguous'.                           *)
(* A run can be killed between any two calls, and an operator can start    *)
(* another one at any time.  A password is named by the run that generated *)
(* it: crypto/rand does not repeat one.                                    *)
(***************************************************************************)
EXTENDS Naturals, FiniteSets

CONSTANTS
    Runs,           \* invocations of the command
    InitialPw,      \* the password in Vault and on the appliance at the start
    MaxVersions,    \* versions the mount keeps: max_versions of KV v2 (10
                    \* unless configured otherwise), 1 for KV v1
    Texts,          \* values of the secret's other field, written out
    NoText,         \* the empty text
    MaxEdits        \* bound on edits of the other field

ASSUME RunsAssumption == InitialPw \notin Runs /\ IsFiniteSet(Runs)
ASSUME VersionsAssumption == MaxVersions \in Nat \ {0}
ASSUME EditsAssumption == MaxEdits \in Nat

VARIABLES
    vault,          \* the current version of the secret
    version,        \* its number: Vault counts the writes
    written,        \* the last version that holds a password, 0 for none
    edits,          \* edits of the other field so far
    devicePw,       \* the password the appliance accepts
    pc,             \* where each run stands in rotate()
    secret,         \* the secret each run read: `secret' in rotate()
    outcome,        \* the Outcome of each run that ended
    ambiguous,      \* runs with a call that took effect and reported an error
    overlapped      \* runs that were active together with another one

vaultVars == <<vault, version, written>>
vars == <<vaultVars, edits, devicePw, pc, secret, outcome, ambiguous, overlapped>>

Passwords == Runs \cup {InitialPw}

(* A field is a string, another JSON value (a number, a flag, an object),  *)
(* or null, which has no text.                                             *)
Field == {f \in [form : {"string", "json", "null"}, text : Texts \cup {NoText}] :
            f.form = "null" => f.text = NoText}

(* One other field stands for all: each is read and written by itself.     *)
Secret == [password : Passwords, others : Field]

Steps == {"idle", "generate", "store", "change", "rollback", "verify", "done", "killed"}
Active == {"generate", "store", "change", "rollback", "verify"}
Outcomes == {"none", "success", "precondition", "rolledBack", "verifyFlaky", "diverged"}

ActiveRuns == {r \in Runs : pc[r] \in Active}

TypeOK ==
    /\ vault \in Secret
    /\ version \in Nat \ {0}
    /\ written \in [Passwords -> 0..version]
    /\ edits \in 0..MaxEdits
    /\ devicePw \in Passwords
    /\ pc \in [Runs -> Steps]
    /\ secret \in [Runs -> Secret]
    /\ outcome \in [Runs -> Outcomes]
    /\ ambiguous \in SUBSET Runs
    /\ overlapped \in SUBSET Runs

(* The passwords that can be read back: those of the versions the mount    *)
(* has not dropped.                                                        *)
Kept == {p \in Passwords : written[p] > 0 /\ written[p] + MaxVersions > version}

(* The command requires the current password to be in Vault already. *)
Init ==
    /\ vault \in [password : {InitialPw}, others : Field]
    /\ version = 1
    /\ written = [p \in Passwords |-> IF p = InitialPw THEN 1 ELSE 0]
    /\ edits = 0
    /\ devicePw = InitialPw
    /\ pc = [r \in Runs |-> "idle"]
    /\ secret = [r \in Runs |-> vault]
    /\ outcome = [r \in Runs |-> "none"]
    /\ ambiguous = {}
    /\ overlapped = {}

-----------------------------------------------------------------------------
(* The calls a run makes.                                                  *)

Goto(r, step) == pc' = [pc EXCEPT ![r] = step]

EndUnnamed(r, result) ==
    /\ Goto(r, "done")
    /\ outcome' = [outcome EXCEPT ![r] = "unexpected"]

End(r, result) ==
    /\ Goto(r, "done")
    /\ outcome' = [outcome EXCEPT ![r] = result]

(* What Read makes of a field: a string stays as it is, any other value    *)
(* becomes the string of its JSON text, and null the empty string.         *)
AsString(f) == [f EXCEPT !.form = "string"]

CloneBare(s, p) == [password |-> p, others |-> [form |-> "string", text |-> NoText]]

(* cloneWith: the fields that were read, with the password replaced. *)
CloneWith(s, p) == [s EXCEPT !.password = p]

VaultForgets(s) ==
    /\ vault' = s
    /\ version' = version + 1
    /\ written' = [p \in Passwords |-> IF p = s.password THEN version + 1 ELSE 0]

(* A write replaces the whole secret with a new version. *)
VaultPut(s) ==
    /\ vault' = s
    /\ version' = version + 1
    /\ written' = [written EXCEPT ![s.password] = version + 1]

(* SecretStore.Write as a run sees it.  `ok' and `failed' say what the run *)
(* does next.                                                              *)
Write(r, s, ok, failed) ==
    \/ VaultPut(s) /\ ok /\ UNCHANGED ambiguous
    \/ UNCHANGED vaultVars /\ failed /\ UNCHANGED ambiguous
    \/ VaultPut(s) /\ failed /\ ambiguous' = ambiguous \cup {r}

(* rotate(), step 1.  A secret that cannot be read, or without the field,  *)
(* ends the run before anything is touched.  Every field is read as a      *)
(* string, and every write of the run puts those strings back.             *)
ReadSecret(r) ==
    /\ pc[r] = "idle"
    /\ overlapped' = IF ActiveRuns = {} THEN overlapped
                                        ELSE overlapped \cup ActiveRuns \cup {r}
    /\ \/ /\ secret' = [secret EXCEPT ![r] = [vault EXCEPT !.others = AsString(vault.others)]]
          /\ Goto(r, "generate")
          /\ UNCHANGED outcome
       \/ /\ End(r, "precondition")
          /\ UNCHANGED secret
    /\ UNCHANGED <<vaultVars, edits, devicePw, ambiguous>>

(* Step 2. *)
Generate(r) ==
    /\ pc[r] = "generate"
    /\ \/ Goto(r, "store") /\ UNCHANGED outcome
       \/ End(r, "precondition")
    /\ UNCHANGED <<vaultVars, edits, devicePw, secret, ambiguous, overlapped>>

StoreNothing(r) ==
    /\ pc[r] = "store"
    /\ Goto(r, "change")
    /\ UNCHANGED <<vaultVars, edits, devicePw, secret, outcome, ambiguous, overlapped>>

(* Step 3: the new password goes to Vault before the appliance is touched. *)
StoreNew(r) ==
    /\ pc[r] = "store"
    /\ Write(r, CloneWith(secret[r], r),
             Goto(r, "change") /\ UNCHANGED outcome,
             End(r, "precondition"))
    /\ UNCHANGED <<edits, devicePw, secret, overlapped>>

SetPasswordUnchecked(r) ==
    /\ pc[r] = "change"
    /\ Goto(r, "verify")
    /\ \/ devicePw = secret[r].password /\ devicePw' = r
       \/ UNCHANGED devicePw
    /\ UNCHANGED <<vaultVars, edits, secret, outcome, ambiguous, overlapped>>

(* Step 4: pr60xDevice.SetPassword logs in with the password the run read, *)
(* which only works while the appliance is still on it, and posts          *)
(* setAdminPassword once.                                                  *)
SetPassword(r) ==
    /\ pc[r] = "change"
    /\ \/ /\ devicePw = secret[r].password
          /\ devicePw' = r
          /\ Goto(r, "verify")
          /\ UNCHANGED ambiguous
       \/ /\ devicePw = secret[r].password
          /\ devicePw' = r
          /\ Goto(r, "rollback")
          /\ ambiguous' = ambiguous \cup {r}
       \/ /\ Goto(r, "rollback")
          /\ UNCHANGED <<devicePw, ambiguous>>
    /\ UNCHANGED <<vaultVars, edits, secret, outcome, overlapped>>

LeaveStored(r) ==
    /\ pc[r] = "rollback"
    /\ End(r, "rolledBack")
    /\ UNCHANGED <<vaultVars, edits, devicePw, secret, ambiguous, overlapped>>

(* Step 4, when SetPassword reported an error: write back what was read.   *)
RollBack(r) ==
    /\ pc[r] = "rollback"
    /\ Write(r, secret[r], End(r, "rolledBack"), End(r, "diverged"))
    /\ UNCHANGED <<edits, devicePw, secret, overlapped>>

(* Step 5: a fresh login with the new password.  It can only succeed when  *)
(* the appliance is on it, and it can fail for any reason.                 *)
Verify(r) ==
    /\ pc[r] = "verify"
    /\ \/ devicePw = r /\ End(r, "success")
       \/ End(r, "verifyFlaky")
    /\ UNCHANGED <<vaultVars, edits, devicePw, secret, ambiguous, overlapped>>

-----------------------------------------------------------------------------
(* Everything else that happens.                                           *)

(* A run is killed: what it held in memory is gone. *)
Kill(r) ==
    /\ pc[r] \in Active
    /\ Goto(r, "killed")
    /\ UNCHANGED <<vaultVars, edits, devicePw, secret, outcome, ambiguous, overlapped>>

(* Somebody edits the other field while no rotation is under way: a new    *)
(* version with the same password.                                         *)
EditOtherField ==
    /\ ActiveRuns = {}
    /\ edits < MaxEdits
    /\ edits' = edits + 1
    /\ \E f \in Field : VaultPut([vault EXCEPT !.others = f])
    /\ UNCHANGED <<devicePw, pc, secret, outcome, ambiguous, overlapped>>

Rotate(r) ==
    \/ ReadSecret(r)
    \/ Generate(r)
    \/ StoreNew(r)
    \/ SetPassword(r)
    \/ RollBack(r)
    \/ Verify(r)

Next ==
    \/ \E r \in Runs : Rotate(r) \/ Kill(r)
    \/ EditOtherField

Spec == Init /\ [][Next]_vars

-----------------------------------------------------------------------------
(* Properties.                                                             *)

(* The password the appliance is on can always be read back from some      *)
(* version of the secret: whatever is killed, repeated or lost, nobody is  *)
(* locked out for good (main.go:20, "the new password exists durably").    *)
(* That holds as long as the mount keeps as many versions as are written:  *)
(* the first, two for each run and one for each edit.  Past that it keeps  *)
(* holding after rotations without a fault, and nothing else is promised.  *)
Recoverable == devicePw \in Kept

EnoughVersions == 1 + 2 * Cardinality(Runs) + MaxEdits =< MaxVersions

(* A rotation that had the secret to itself, and ends "success" or "verify *)
(* flaky", ends with Vault and the appliance both on the new password      *)
(* (exit codes 0 and 3: rollback here would lose access).                  *)
SuccessStep ==
    \A r \in Runs \ overlapped' :
        /\ outcome[r] = "none"
        /\ outcome'[r] \in {"success", "verifyFlaky"}
        => vault'.password = r /\ devicePw' = r

SuccessAgrees == [][SuccessStep]_vars

(* Nothing that could set Vault and the appliance apart has happened: no   *)
(* kill, no call that took effect and reported an error, no failed         *)
(* rollback, no two rotations at once.                                     *)
Faultless ==
    /\ ambiguous = {}
    /\ overlapped = {}
    /\ \A r \in Runs : pc[r] # "killed" /\ outcome[r] # "diverged"

(* Whatever calls fail, and in whatever order rotations succeed and are    *)
(* rolled back, Vault's current password is the appliance's whenever no    *)
(* rotation is under way, as long as nothing in Faultless went wrong.      *)
AgreeUnlessFault ==
    Faultless /\ ActiveRuns = {} => vault.password = devicePw

(* The README's invariant that the two "never silently diverge": a run     *)
(* that reports "rolled back" leaves Vault and the appliance in agreement  *)
(* ("The two agree again; safe to re-run", rotate.go:67).                  *)
RolledBackAgrees ==
    [][\A r \in Runs :
        /\ outcome[r] = "none"
        /\ outcome'[r] = "rolledBack"
        => vault'.password = devicePw']_vars

(* A rotation, rolled back or not, never changes what the other fields     *)
(* read as: every write carries over the texts that were read (rotate.go:  *)
(* 44), whatever was rolled back or overlapped, and a string stays the     *)
(* same string.                                                            *)
FieldsStep ==
    vault'.others # vault.others => EditOtherField \/ vault'.others = AsString(vault.others)

OtherFieldsKept == [][FieldsStep]_vars

(* The rotator implements the custody promise.                             *)
Custody == INSTANCE PasswordCustody WITH custody <- Kept
CustodyHolds == Custody!Spec
=============================================================================
