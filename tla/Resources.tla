----------------------------- MODULE Resources -----------------------------
(***************************************************************************)
(* The form of a kind of resource; the words of its programs are explained *)
(* in TerraformApply.  Calls that only read other objects are left out     *)
(* when nothing depends on the answer but an error: the operation then     *)
(* ends as it does when the next call fails.                               *)
(***************************************************************************)
EXTENDS Sequences

(* One setting, or a row that always exists: Create and Update both apply. *)
Setting(apply, read, delete) ==
    [collection |-> FALSE, renumbers |-> FALSE, named |-> FALSE, vanishes |-> FALSE,
     clobbers |-> FALSE, lingers |-> FALSE, repeats |-> FALSE, byid |-> FALSE,
     renames |-> FALSE, aside |-> FALSE, needs |-> FALSE, trusts |-> {},
     create |-> apply, update |-> apply, read |-> read, delete |-> delete]

(* A table whose rows Create adds and Delete removes.                      *)
Table(create, update, read, delete) ==
    [Setting(create, read, delete) EXCEPT !.collection = TRUE, !.update = update]

(* The kind k with these flags set, or with operations that save unread.   *)
With(k, flags) == [f \in DOMAIN k |-> IF f \in flags THEN TRUE ELSE k[f]]
Trusting(k, ops) == [k EXCEPT !.trusts = ops]

(* Delete returns at once: the code explains that the setting is better    *)
(* left as it is.                                                          *)
LeaveAlone == <<"gone">>
=============================================================================
