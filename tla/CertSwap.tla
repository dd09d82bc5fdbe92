------------------------------ MODULE CertSwap ------------------------------
(***************************************************************************)
(* What replacing a web certificate on the XS508TM has to respect, stated  *)
(* without the steps that do it (internal/xs508tm/upload.go, "Why the      *)
(* ordering is a safety measure"): the certificate and the key are         *)
(* replaced one at a time, only while HTTPS is off, and HTTPS comes on     *)
(* only over a pair that matches.  The promise is one writer's: once two   *)
(* have been at the switch together it is void.                            *)
(***************************************************************************)
CONSTANT Certs

VARIABLES
    https,          \* the HTTPS listener is enabled
    certFile,       \* the certificate installed on the switch
    keyFile,        \* the certificate whose private key is installed
    contended       \* two writers have been active together

vars == <<https, certFile, keyFile, contended>>

Init ==
    /\ https \in BOOLEAN
    /\ certFile \in Certs
    /\ keyFile = certFile
    /\ contended = FALSE

Replace ==
    /\ ~https
    /\ \/ certFile' \in Certs /\ UNCHANGED keyFile
       \/ keyFile' \in Certs /\ UNCHANGED certFile
    /\ UNCHANGED <<https, contended>>

Enable ==
    /\ certFile = keyFile
    /\ https' = TRUE
    /\ UNCHANGED <<certFile, keyFile, contended>>

Disable ==
    /\ https' = FALSE
    /\ UNCHANGED <<certFile, keyFile, contended>>

(* Two writers are, or have been, active together: anything may follow. *)
Contend == contended'

Next == Replace \/ Enable \/ Disable \/ Contend

Spec == Init /\ [][Next]_vars
=============================================================================
