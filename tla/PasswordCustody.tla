-------------------------- MODULE PasswordCustody --------------------------
(***************************************************************************)
(* What rotate-admin promises, with Vault reduced to the set of passwords  *)
(* an operator could still read back from it: the appliance only ever      *)
(* moves to a password that is already in custody, and the password it is  *)
(* on is never dropped.  cmd/rotate-admin/main.go calls this its safety    *)
(* guarantee ("without EVER losing the new password").                     *)
(***************************************************************************)
CONSTANTS
    Passwords,      \* every password that can occur
    InitialPw       \* the one the appliance and Vault start on

VARIABLES
    devicePw,       \* the password the appliance accepts
    custody         \* the passwords that can be read back from Vault

vars == <<devicePw, custody>>

Init ==
    /\ devicePw = InitialPw
    /\ custody = {InitialPw}

(* Vault learns passwords; it may forget some, never the one in use. *)
Keep ==
    /\ custody' \in SUBSET Passwords
    /\ devicePw \in custody'
    /\ UNCHANGED devicePw

(* The appliance moves to a password Vault already holds. *)
Adopt(p) ==
    /\ p \in custody
    /\ devicePw' = p
    /\ UNCHANGED custody

Next ==
    \/ Keep
    \/ \E p \in Passwords : Adopt(p)

Spec == Init /\ [][Next]_vars
=============================================================================
