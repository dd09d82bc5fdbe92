---------------------------- MODULE XS508Upload ----------------------------
(***************************************************************************)
(* Replacing the web certificate of the XS508TM over its REST API:         *)
(* UploadCertificate of internal/xs508tm, run by cert-operator, beside the *)
(* Terraform resource that writes the same http_config row.  Each element  *)
(* of Jobs is one upload and each element of Appliers one apply, with a    *)
(* client of its own: nothing serialises them but the switch.              *)
(*                                                                         *)
(* An action is one request with every way it can end.  do() repeats a     *)
(* request after a transient failure, also one that took effect and whose  *)
(* reply was lost, until it gives up.  An upload can be killed anywhere.   *)
(*                                                                         *)
(* Sessions, pacing and the choice of port are left out, and the endpoint  *)
(* is plain HTTP, as upload.go assumes when it turns HTTPS off.            *)
(***************************************************************************)
CONSTANTS
    Jobs,           \* uploads
    Appliers,       \* applies of the Terraform web-access resource
    Certs,          \* certificates, each with a private key of its own
    FactoryRow,     \* the other fields of http_config as found
    SilentRefusals  \* TRUE: a refused config write may answer HTTP 200

ASSUME ActorsAssumption == Jobs \cap Appliers = {} /\ FactoryRow \notin Appliers
ASSUME RefusalAssumption == SilentRefusals \in BOOLEAN

VARIABLES
    config,         \* http_config: the HTTPS flag, and who last wrote the rest
    installed,      \* the certificate and the key on the switch
    spool,          \* /tmp/lighttpd/upload.tmp: one path for every client
    web,            \* whether lighttpd is alive
    pc,             \* where each upload or apply stands
    orig,           \* the http_config each one read: `orig', `cur'
    pem,            \* the certificate and the key each upload installs
    wanted,         \* http_config as found, or as the last apply left it
    contended       \* two actors have been active together

switch == <<config, installed, spool, web>>
vars == <<config, installed, spool, web, pc, orig, pem, wanted, contended>>

Actors == Jobs \cup Appliers
Files == {"cert", "key"}
Configs == [https : BOOLEAN, rest : Appliers \cup {FactoryRow}]
Pairs == [Files -> Certs]
NoFile == [file |-> "none"]
Spooled == [file : Files, of : Certs] \cup {NoFile}

UploadSteps == {"config", "off", "spoolCert", "importCert", "spoolKey",
                "importKey", "status", "restore"}
ApplySteps == {"readConfig", "readStatus", "write", "readBack"}
Active == UploadSteps \cup ApplySteps
Steps == Active \cup {"idle", "done", "failed", "killed"}

ActiveActors == {a \in Actors : pc[a] \in Active}

(* certstatus of https_cert_mgmt: the installed pair is one. *)
Matched == installed["cert"] = installed["key"]

TypeOK ==
    /\ config \in Configs
    /\ installed \in Pairs
    /\ spool \in Spooled
    /\ web \in {"up", "dead"}
    /\ pc \in [Actors -> Steps]
    /\ orig \in [Actors -> Configs]
    /\ pem \in [Jobs -> Pairs]
    /\ wanted \in Configs
    /\ contended \in BOOLEAN

(* The switch ships with a valid pair; HTTPS may be on or off. *)
Init ==
    /\ config \in [https : BOOLEAN, rest : {FactoryRow}]
    /\ \E c \in Certs : installed = [f \in Files |-> c]
    /\ spool = NoFile
    /\ web = "up"
    /\ pc = [a \in Actors |-> "idle"]
    /\ orig = [a \in Actors |-> config]
    /\ pem = [j \in Jobs |-> installed]
    /\ wanted = config
    /\ contended = FALSE

-----------------------------------------------------------------------------
(* The switch.                                                             *)

(* A write of http_config.  lighttpd does not survive HTTPS over a pair    *)
(* that does not match.                                                    *)
WriteRow(row) ==
    /\ config' = row
    /\ web' = IF row.https /\ ~Matched THEN "dead" ELSE web
    /\ UNCHANGED <<installed, spool>>

Spool(content) ==
    /\ spool' = content
    /\ UNCHANGED <<config, installed, web>>

ImportRaw(file) ==
    /\ spool.file = file
    /\ installed' = [installed EXCEPT ![file] = spool]
    /\ UNCHANGED <<config, web, spool>>

(* https_cert_upld installs what is spooled, if it is of the kind asked    *)
(* for.  Completing a pair while HTTPS is on makes lighttpd reload and die.*)
Import(file) ==
    /\ spool.file = file
    /\ installed' = [installed EXCEPT ![file] = spool.of]
    /\ web' = IF config.https /\ ~Matched /\ Matched' THEN "dead" ELSE web
    /\ UNCHANGED <<config, spool>>

-----------------------------------------------------------------------------
(* A request.                                                              *)

Goto(a, step) == pc' = [pc EXCEPT ![a] = step]
Fail(a) == Goto(a, "failed")

(* The request takes effect, or not, and the caller goes on, gives up or   *)
(* sends it again.                                                         *)
Request(a, effect, next) ==
    \/ web = "up" /\ effect /\ Goto(a, next)
    \/ web = "up" /\ effect /\ Fail(a)
    \/ web = "up" /\ effect /\ UNCHANGED pc
    \/ UNCHANGED switch /\ Fail(a)

(* A config write, whose reply body nobody looks at. *)
WriteConfig(a, row, next) ==
    \/ Request(a, WriteRow(row), next)
    \/ SilentRefusals /\ web = "up" /\ UNCHANGED switch /\ Goto(a, next)

(* A read changes nothing and ends in `answered' or in a failure. *)
Query(a, answered) ==
    /\ \/ web = "up" /\ answered
       \/ Fail(a) /\ UNCHANGED orig
    /\ UNCHANGED switch

(* Logging in; a login that fails leaves nothing behind. *)
Begin(a, step) ==
    /\ pc[a] = "idle"
    /\ Goto(a, step)
    /\ contended' = (contended \/ ActiveActors # {})
    /\ UNCHANGED <<switch, orig, wanted>>

-----------------------------------------------------------------------------
(* UploadCertificate.                                                      *)

StartUpload(j) ==
    /\ Begin(j, "config")
    /\ \E p \in Pairs : pem' = [pem EXCEPT ![j] = p]

NeverOff(j) ==
    /\ pc[j] = "config"
    /\ Query(j, orig' = [orig EXCEPT ![j] = config] /\ Goto(j, "spoolCert"))
    /\ UNCHANGED <<pem, wanted, contended>>

(* HTTPS goes off before the certificate is touched. *)
ReadConfig(j) ==
    /\ pc[j] = "config"
    /\ Query(j, /\ orig' = [orig EXCEPT ![j] = config]
                /\ Goto(j, IF config.https THEN "off" ELSE "spoolCert"))
    /\ UNCHANGED <<pem, wanted, contended>>

DisableHTTPS(j) ==
    /\ pc[j] = "off"
    /\ WriteConfig(j, [orig[j] EXCEPT !.https = FALSE], "spoolCert")
    /\ UNCHANGED <<orig, pem, wanted, contended>>

(* spoolFileLocked: one try, no retry. *)
SpoolFile(j, here, file, next) ==
    /\ pc[j] = here
    /\ \/ web = "up" /\ Spool([file |-> file, of |-> pem[j][file]]) /\ (Goto(j, next) \/ Fail(j))
       \/ UNCHANGED switch /\ Fail(j)
    /\ UNCHANGED <<orig, pem, wanted, contended>>

ImportUnread(j, here, file, next) ==
    /\ pc[j] = here
    /\ Request(j, Import(file), next) \/ (UNCHANGED switch /\ Goto(j, next))
    /\ UNCHANGED <<orig, pem, wanted, contended>>

ImportFile(j, here, file, next) ==
    /\ pc[j] = here
    /\ Request(j, Import(file), next)
    /\ UNCHANGED <<orig, pem, wanted, contended>>

StatusUnread(j) ==
    /\ pc[j] = "status"
    /\ Query(j, Goto(j, "restore") /\ UNCHANGED orig)
    /\ UNCHANGED <<pem, wanted, contended>>

(* A pair that does not match leaves HTTPS off. *)
CheckPair(j) ==
    /\ pc[j] = "status"
    /\ Query(j, Goto(j, IF Matched THEN "restore" ELSE "failed") /\ UNCHANGED orig)
    /\ UNCHANGED <<pem, wanted, contended>>

RestoreOn(j) ==
    /\ pc[j] = "restore"
    /\ WriteConfig(j, [orig[j] EXCEPT !.https = TRUE], "done")
    /\ UNCHANGED <<orig, pem, wanted, contended>>

(* The whole row goes back as it was read. *)
Restore(j) ==
    /\ pc[j] = "restore"
    /\ WriteConfig(j, orig[j], "done")
    /\ UNCHANGED <<orig, pem, wanted, contended>>

Kill(j) ==
    /\ pc[j] \in UploadSteps
    /\ Goto(j, "killed")
    /\ UNCHANGED <<switch, orig, pem, wanted, contended>>

UploadCertificate(j) ==
    \/ StartUpload(j)
    \/ ReadConfig(j)
    \/ DisableHTTPS(j)
    \/ SpoolFile(j, "spoolCert", "cert", "importCert")
    \/ ImportFile(j, "importCert", "cert", "spoolKey")
    \/ SpoolFile(j, "spoolKey", "key", "importKey")
    \/ ImportFile(j, "importKey", "key", "status")
    \/ CheckPair(j)
    \/ Restore(j)

-----------------------------------------------------------------------------
(* apply() of the web-access resource: read the row and the certificate    *)
(* status, refuse HTTPS without a pair, write the row back changed, and    *)
(* read it again.                                                          *)

StartApply(a) ==
    /\ Begin(a, "readConfig")
    /\ UNCHANGED pem

ApplyReadConfig(a) ==
    /\ pc[a] = "readConfig"
    /\ Query(a, orig' = [orig EXCEPT ![a] = config] /\ Goto(a, "readStatus"))
    /\ UNCHANGED <<pem, wanted, contended>>

ApplyAnyway(a) ==
    /\ pc[a] = "readStatus"
    /\ \E https \in BOOLEAN :
          Query(a, /\ orig' = [orig EXCEPT ![a] = [https |-> https, rest |-> a]]
                   /\ Goto(a, "write"))
    /\ UNCHANGED <<pem, wanted, contended>>

(* From here on orig holds the row to be written, `want'. *)
ApplyReadStatus(a) ==
    /\ pc[a] = "readStatus"
    /\ \E https \in BOOLEAN :
          Query(a, /\ https => Matched
                   /\ orig' = [orig EXCEPT ![a] = [https |-> https, rest |-> a]]
                   /\ Goto(a, "write"))
    /\ UNCHANGED <<pem, wanted, contended>>

ApplyWrite(a) ==
    /\ pc[a] = "write"
    /\ WriteConfig(a, orig[a], "readBack")
    /\ wanted' = config'
    /\ UNCHANGED <<orig, pem, contended>>

ApplyReadBack(a) ==
    /\ pc[a] = "readBack"
    /\ Query(a, Goto(a, "done") /\ UNCHANGED orig)
    /\ UNCHANGED <<pem, wanted, contended>>

Apply(a) ==
    \/ StartApply(a)
    \/ ApplyReadConfig(a)
    \/ ApplyReadStatus(a)
    \/ ApplyWrite(a)
    \/ ApplyReadBack(a)

Next ==
    \/ \E j \in Jobs : UploadCertificate(j) \/ Kill(j)
    \/ \E a \in Appliers : Apply(a)

Spec == Init /\ [][Next]_vars

-----------------------------------------------------------------------------
(* Properties.                                                             *)

(* As long as no two writers meet, the web server survives every failed,   *)
(* repeated, killed or mismatched upload (upload.go, "a live mismatch ...  *)
(* it dies outright").                                                     *)
NoWedge == ~contended => web = "up"

(* Nor is HTTPS ever left enabled over a certificate and a key that do not *)
(* belong together ("HTTPS left DISABLED to avoid wedging lighttpd").      *)
HttpsServable == ~contended /\ config.https => Matched

(* If every upload so far ended well, the web configuration is the one the *)
(* administrator last asked for: no upload leaves HTTPS off, or another    *)
(* field changed, behind a success ("so HTTPS is restored to how it was"). *)
ConfigRestored ==
    /\ ~contended
    /\ ActiveActors = {}
    /\ \A j \in Jobs : pc[j] \in {"idle", "done"}
    => config = wanted

(* An upload that ends well, alone, has installed the certificate and the  *)
(* key it was given, over a living web server.                             *)
InstallStep ==
    \A j \in Jobs :
        /\ ~contended'
        /\ pc[j] # "done"
        /\ pc'[j] = "done"
        => installed' = pem[j] /\ web' = "up"

DoneInstalled == [][InstallStep]_vars

(* The uploads and applies implement the certificate-swap discipline.      *)
Swap == INSTANCE CertSwap WITH
    https <- config.https,
    certFile <- installed["cert"],
    keyFile <- installed["key"]
SwapDiscipline == Swap!Spec
=============================================================================
