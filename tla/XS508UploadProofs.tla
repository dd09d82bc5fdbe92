------------------------- MODULE XS508UploadProofs -------------------------
(***************************************************************************)
(* Proofs about XS508Upload, for any number of uploads, applies and        *)
(* certificates, on a switch that does not hide a refused config write     *)
(* (SilentRefusals = FALSE).  What makes it work is LoneInv: while nobody  *)
(* contends, HTTPS is off from the moment an upload may touch a file, and  *)
(* whoever is about to turn it on has a matching pair under it.            *)
(***************************************************************************)
EXTENDS XS508Upload, TLAPS

LEMMA TypeStep ==
    ASSUME TypeOK, [Next]_vars
    PROVE  TypeOK'
<1> USE ActorsAssumption DEF TypeOK, Actors, Files, Configs, Pairs, NoFile, Spooled,
        UploadSteps, ApplySteps, Active, Steps
<1> USE DEF Goto, Fail, switch, Query
<1>1. ASSUME NEW j \in Jobs, StartUpload(j)
      PROVE  TypeOK'
  <2>1. contended' \in BOOLEAN
    BY <1>1 DEF StartUpload, Begin
  <2>2. pem' \in [Jobs -> Pairs]
    BY <1>1 DEF StartUpload
  <2>3. pc' \in [Actors -> Steps]
    BY <1>1 DEF StartUpload, Begin
  <2>4. UNCHANGED <<switch, orig, wanted>>
    BY <1>1 DEF StartUpload, Begin
  <2> QED
    BY <2>1, <2>2, <2>3, <2>4
<1>2. ASSUME NEW j \in Jobs, ReadConfig(j)
      PROVE  TypeOK'
  <2>1. orig' \in [Actors -> Configs]
    BY <1>2 DEF ReadConfig
  <2>2. pc' \in [Actors -> Steps]
    BY <1>2 DEF ReadConfig
  <2>3. UNCHANGED <<switch, pem, wanted, contended>>
    BY <1>2 DEF ReadConfig
  <2> QED
    BY <2>1, <2>2, <2>3
<1>3. ASSUME NEW j \in Jobs, DisableHTTPS(j)
      PROVE  TypeOK'
  BY <1>3 DEF DisableHTTPS, WriteConfig, Request, WriteRow
<1>4. ASSUME NEW j \in Jobs, NEW here, NEW file \in Files, NEW next \in Steps,
             SpoolFile(j, here, file, next)
      PROVE  TypeOK'
  BY <1>4 DEF SpoolFile, Spool
<1>5. ASSUME NEW j \in Jobs, NEW here, NEW file \in Files, NEW next \in Steps,
             ImportFile(j, here, file, next)
      PROVE  TypeOK'
  BY <1>5 DEF ImportFile, Request, Import
<1>6. ASSUME NEW j \in Jobs, CheckPair(j)
      PROVE  TypeOK'
  BY <1>6 DEF CheckPair
<1>7. ASSUME NEW j \in Jobs, Restore(j)
      PROVE  TypeOK'
  BY <1>7 DEF Restore, WriteConfig, Request, WriteRow
<1>8. ASSUME NEW j \in Jobs, Kill(j)
      PROVE  TypeOK'
  BY <1>8 DEF Kill
<1>9. ASSUME NEW a \in Appliers, StartApply(a)
      PROVE  TypeOK'
  BY <1>9 DEF StartApply, Begin
<1>10. ASSUME NEW a \in Appliers, ApplyReadConfig(a)
       PROVE  TypeOK'
  BY <1>10 DEF ApplyReadConfig
<1>11. ASSUME NEW a \in Appliers, ApplyReadStatus(a)
       PROVE  TypeOK'
  <2>1. orig' \in [Actors -> Configs]
    BY <1>11 DEF ApplyReadStatus
  <2>2. pc' \in [Actors -> Steps]
    BY <1>11 DEF ApplyReadStatus
  <2>3. UNCHANGED <<switch, pem, wanted, contended>>
    BY <1>11 DEF ApplyReadStatus
  <2> QED
    BY <2>1, <2>2, <2>3
<1>12. ASSUME NEW a \in Appliers, ApplyWrite(a)
       PROVE  TypeOK'
  BY <1>12 DEF ApplyWrite, WriteConfig, Request, WriteRow
<1>13. ASSUME NEW a \in Appliers, ApplyReadBack(a)
       PROVE  TypeOK'
  BY <1>13 DEF ApplyReadBack
<1>14. CASE UNCHANGED vars
  BY <1>14 DEF vars
<1> HIDE DEF TypeOK
<1> QED
  BY <1>1, <1>2, <1>3, <1>4, <1>5, <1>6, <1>7, <1>8, <1>9, <1>10, <1>11, <1>12, <1>13, <1>14
     DEF Next, UploadCertificate, Apply

(* Every variable stays in its domain. *)
THEOREM TypeCorrect == Spec => []TypeOK
<1> USE ActorsAssumption DEF TypeOK, Actors, Files, Configs, Pairs, NoFile, Spooled,
        UploadSteps, ApplySteps, Active, Steps
<1>1. ASSUME Init
      PROVE  TypeOK
  <2>1. config \in Configs /\ wanted \in Configs
    BY <1>1 DEF Init
  <2>2. installed \in Pairs
    BY <1>1 DEF Init
  <2>3. orig \in [Actors -> Configs]
    BY <1>1, <2>1 DEF Init
  <2>4. pem \in [Jobs -> Pairs]
    BY <1>1, <2>2 DEF Init
  <2> QED
    BY <1>1, <2>1, <2>2, <2>3, <2>4 DEF Init
<1>2. TypeOK /\ [Next]_vars => TypeOK'
  BY TypeStep
<1> QED
  BY <1>1, <1>2, PTL DEF Spec

-----------------------------------------------------------------------------
(* What holds while nobody contends.                                       *)

(* Steps of an upload between turning HTTPS off and restoring it. *)
Swapping == {"spoolCert", "importCert", "spoolKey", "importKey", "status"}

OneActive == \A a, b \in Actors : pc[a] \in Active /\ pc[b] \in Active => a = b

OffWhileSwapping == \A j \in Jobs : pc[j] \in Swapping => ~config.https

PairUnderRestore == \A j \in Jobs : pc[j] = "restore" => Matched

PairUnderWrite == \A a \in Appliers : pc[a] = "write" /\ orig[a].https => Matched

Servable == web = "up" /\ (config.https => Matched)

Lone == OneActive /\ OffWhileSwapping /\ PairUnderRestore /\ PairUnderWrite /\ Servable

LoneInv == ~contended => Lone

(* Contention is remembered, and the first to start makes nobody contend   *)
(* only if nobody was active.                                              *)
LEMMA ContentionStays ==
    ASSUME [Next]_vars, ~contended'
    PROVE  ~contended
<1>1. ASSUME NEW j \in Jobs, UploadCertificate(j)
      PROVE  ~contended
  BY <1>1 DEF UploadCertificate, StartUpload, Begin, ReadConfig, DisableHTTPS, SpoolFile,
              ImportFile, CheckPair, Restore
<1>2. ASSUME NEW j \in Jobs, Kill(j)
      PROVE  ~contended
  BY <1>2 DEF Kill
<1>3. ASSUME NEW a \in Appliers, Apply(a)
      PROVE  ~contended
  BY <1>3 DEF Apply, StartApply, Begin, ApplyReadConfig, ApplyReadStatus, ApplyWrite,
              ApplyReadBack
<1> QED
  BY <1>1, <1>2, <1>3 DEF Next, vars

(* A step moves the pc of one actor, which was active or is the only one   *)
(* to become active.                                                       *)
LEMMA OneMoves ==
    ASSUME TypeOK, [Next]_vars, ~contended'
    PROVE  \/ UNCHANGED pc
           \/ \E a \in Actors, step \in Steps :
                 /\ pc' = [pc EXCEPT ![a] = step]
                 /\ pc[a] \in Active \/ \A b \in Actors : pc[b] \notin Active
<1> USE DEF Actors, Active, UploadSteps, ApplySteps, Steps, Goto, Fail, Query, Request,
            WriteConfig
<1>1. ASSUME NEW a \in Actors, NEW step \in Steps, Begin(a, step)
      PROVE  pc' = [pc EXCEPT ![a] = step] /\ \A b \in Actors : pc[b] \notin Active
  <2>1. ActiveActors = {}
    BY <1>1 DEF Begin
  <2> HIDE DEF Active, Actors
  <2> QED
    BY <1>1, <2>1 DEF Begin, ActiveActors
<1>2. ASSUME NEW j \in Jobs, UploadCertificate(j)
      PROVE  \/ UNCHANGED pc
             \/ \E a \in Actors, step \in Steps :
                   /\ pc' = [pc EXCEPT ![a] = step]
                   /\ pc[a] \in Active \/ \A b \in Actors : pc[b] \notin Active
  <2>1. CASE StartUpload(j)
    BY <2>1, <1>1 DEF StartUpload
  <2>2. CASE ReadConfig(j)
    BY <2>2 DEF ReadConfig
  <2>3. CASE DisableHTTPS(j)
    BY <2>3 DEF DisableHTTPS
  <2>4. ASSUME NEW here \in Active, NEW file, NEW next \in Steps, SpoolFile(j, here, file, next)
        PROVE  \E a \in Actors, step \in Steps : pc' = [pc EXCEPT ![a] = step] /\ pc[a] \in Active
    BY <2>4 DEF SpoolFile
  <2>5. ASSUME NEW here \in Active, NEW file, NEW next \in Steps, ImportFile(j, here, file, next)
        PROVE  \/ UNCHANGED pc
               \/ \E a \in Actors, step \in Steps : pc' = [pc EXCEPT ![a] = step] /\ pc[a] \in Active
    BY <2>5 DEF ImportFile
  <2>6. CASE CheckPair(j)
    BY <2>6 DEF CheckPair
  <2>7. CASE Restore(j)
    BY <2>7 DEF Restore
  <2> QED
    BY <1>2, <2>1, <2>2, <2>3, <2>4, <2>5, <2>6, <2>7 DEF UploadCertificate
<1>3. ASSUME NEW j \in Jobs, Kill(j)
      PROVE  \E a \in Actors, step \in Steps : pc' = [pc EXCEPT ![a] = step] /\ pc[a] \in Active
  BY <1>3 DEF Kill
<1>4. ASSUME NEW a \in Appliers, Apply(a)
      PROVE  \/ UNCHANGED pc
             \/ \E b \in Actors, step \in Steps :
                   /\ pc' = [pc EXCEPT ![b] = step]
                   /\ pc[b] \in Active \/ \A c \in Actors : pc[c] \notin Active
  <2>1. CASE StartApply(a)
    BY <2>1, <1>1 DEF StartApply
  <2>2. CASE ApplyReadConfig(a)
    BY <2>2 DEF ApplyReadConfig
  <2>3. CASE ApplyReadStatus(a)
    BY <2>3 DEF ApplyReadStatus
  <2>4. CASE ApplyWrite(a)
    BY <2>4 DEF ApplyWrite
  <2>5. CASE ApplyReadBack(a)
    BY <2>5 DEF ApplyReadBack
  <2> QED
    BY <1>4, <2>1, <2>2, <2>3, <2>4, <2>5 DEF Apply
<1> QED
  BY <1>2, <1>3, <1>4 DEF Next, vars

LEMMA OneActiveStep ==
    ASSUME TypeOK, OneActive, [Next]_vars, ~contended'
    PROVE  OneActive'
<1>1. CASE UNCHANGED pc
  BY <1>1 DEF OneActive
<1>2. ASSUME NEW a \in Actors, NEW step \in Steps,
             pc' = [pc EXCEPT ![a] = step],
             pc[a] \in Active \/ \A b \in Actors : pc[b] \notin Active
      PROVE  \A b \in Actors : pc'[b] \in Active => b = a
  BY <1>2 DEF OneActive, TypeOK
<1> QED
  BY <1>1, <1>2, OneMoves DEF OneActive

(* While nobody contends, the switch changes only under the actor that is  *)
(* active, and everybody else is at rest.                                  *)
LEMMA LoneStep ==
    ASSUME TypeOK, Lone, ~SilentRefusals, [Next]_vars, ~contended'
    PROVE  Lone'
<1>0. OneActive'
  BY OneActiveStep DEF Lone
<1> SUFFICES OffWhileSwapping' /\ PairUnderRestore' /\ PairUnderWrite' /\ Servable'
  BY <1>0 DEF Lone
<1> USE ActorsAssumption DEF OffWhileSwapping, PairUnderRestore, PairUnderWrite, Servable, Matched
<1> USE DEF TypeOK, Lone, OneActive, Swapping, Active, UploadSteps, ApplySteps, Actors,
            Goto, Fail, switch
<1>1. ASSUME NEW j \in Jobs, StartUpload(j)
      PROVE  OffWhileSwapping' /\ PairUnderRestore' /\ PairUnderWrite' /\ Servable'
  BY <1>1 DEF StartUpload, Begin
<1>2. ASSUME NEW j \in Jobs, ReadConfig(j)
      PROVE  OffWhileSwapping' /\ PairUnderRestore' /\ PairUnderWrite' /\ Servable'
  BY <1>2 DEF ReadConfig, Query
<1>3. ASSUME NEW j \in Jobs, DisableHTTPS(j)
      PROVE  OffWhileSwapping' /\ PairUnderRestore' /\ PairUnderWrite' /\ Servable'
  BY <1>3 DEF DisableHTTPS, WriteConfig, Request, WriteRow, Configs
<1>4. ASSUME NEW j \in Jobs, NEW here \in Swapping, NEW file, NEW next \in Swapping,
             SpoolFile(j, here, file, next)
      PROVE  OffWhileSwapping' /\ PairUnderRestore' /\ PairUnderWrite' /\ Servable'
  BY <1>4 DEF SpoolFile, Spool
<1>5. ASSUME NEW j \in Jobs, NEW here \in Swapping, NEW file,
             NEW next \in Swapping, ImportFile(j, here, file, next)
      PROVE  OffWhileSwapping' /\ PairUnderRestore' /\ PairUnderWrite' /\ Servable'
  BY <1>5 DEF ImportFile, Request, Import
<1>6. ASSUME NEW j \in Jobs, CheckPair(j)
      PROVE  OffWhileSwapping' /\ PairUnderRestore' /\ PairUnderWrite' /\ Servable'
  BY <1>6 DEF CheckPair, Query
<1>7. ASSUME NEW j \in Jobs, Restore(j)
      PROVE  OffWhileSwapping' /\ PairUnderRestore' /\ PairUnderWrite' /\ Servable'
  BY <1>7 DEF Restore, WriteConfig, Request, WriteRow
<1>8. ASSUME NEW j \in Jobs, Kill(j)
      PROVE  OffWhileSwapping' /\ PairUnderRestore' /\ PairUnderWrite' /\ Servable'
  BY <1>8 DEF Kill
<1>9. ASSUME NEW a \in Appliers, StartApply(a)
      PROVE  OffWhileSwapping' /\ PairUnderRestore' /\ PairUnderWrite' /\ Servable'
  BY <1>9 DEF StartApply, Begin
<1>10. ASSUME NEW a \in Appliers, ApplyReadConfig(a)
       PROVE  OffWhileSwapping' /\ PairUnderRestore' /\ PairUnderWrite' /\ Servable'
  BY <1>10 DEF ApplyReadConfig, Query
<1>11. ASSUME NEW a \in Appliers, ApplyReadStatus(a)
       PROVE  OffWhileSwapping' /\ PairUnderRestore' /\ PairUnderWrite' /\ Servable'
  BY <1>11 DEF ApplyReadStatus, Query
<1>12. ASSUME NEW a \in Appliers, ApplyWrite(a)
       PROVE  OffWhileSwapping' /\ PairUnderRestore' /\ PairUnderWrite' /\ Servable'
  BY <1>12 DEF ApplyWrite, WriteConfig, Request, WriteRow
<1>13. ASSUME NEW a \in Appliers, ApplyReadBack(a)
       PROVE  OffWhileSwapping' /\ PairUnderRestore' /\ PairUnderWrite' /\ Servable'
  BY <1>13 DEF ApplyReadBack, Query
<1>14. CASE UNCHANGED vars
  BY <1>14 DEF vars
<1> QED
  BY <1>1, <1>2, <1>3, <1>4, <1>5, <1>6, <1>7, <1>8, <1>9, <1>10, <1>11, <1>12, <1>13, <1>14
     DEF Next, UploadCertificate, Apply

LEMMA LoneInvariant == ASSUME ~SilentRefusals PROVE Spec => [](TypeOK /\ LoneInv)
<1>1. Init => LoneInv
  BY DEF Init, LoneInv, Lone, OneActive, OffWhileSwapping, PairUnderRestore, PairUnderWrite,
         Servable, Matched, Active, UploadSteps, ApplySteps, Swapping, Actors, Files
<1>2. TypeOK /\ LoneInv /\ [Next]_vars => LoneInv'
  BY ContentionStays, LoneStep DEF LoneInv
<1> QED
  BY <1>1, <1>2, TypeCorrect, PTL DEF Spec

(* As long as no two writers meet, the web server stays alive. *)
THEOREM WebServerSurvives == ASSUME ~SilentRefusals PROVE Spec => []NoWedge
<1>1. LoneInv => NoWedge
  BY DEF LoneInv, Lone, Servable, NoWedge
<1> QED
  BY <1>1, LoneInvariant, PTL

(* As long as no two writers meet, HTTPS is on only over a matching pair. *)
THEOREM HttpsAlwaysServable == ASSUME ~SilentRefusals PROVE Spec => []HttpsServable
<1>1. LoneInv => HttpsServable
  BY DEF LoneInv, Lone, Servable, HttpsServable
<1> QED
  BY <1>1, LoneInvariant, PTL

-----------------------------------------------------------------------------
(* The refinement.                                                         *)

(* A step of an upload or an apply is a step of the discipline, or none of *)
(* its business.                                                           *)
LEMMA SwapStep ==
    ASSUME TypeOK, LoneInv, ~SilentRefusals, [Next]_vars
    PROVE  [Swap!Next]_(Swap!vars)
<1>1. CASE contended'
  BY <1>1 DEF Swap!Next, Swap!Contend
<1>2. CASE ~contended'
  <2>0. ~contended /\ Lone
    BY <1>2, ContentionStays DEF LoneInv
  <2> contended' = contended
    BY <2>0, <1>2, TypeStep DEF TypeOK
  <2> USE <2>0, ActorsAssumption DEF Lone, OffWhileSwapping, PairUnderRestore, PairUnderWrite, Servable,
          Matched, switch, Goto, Fail, Swapping, Swap!vars, Swap!Next, Swap!Replace, Swap!Enable,
          Swap!Disable
  <2>1. ASSUME NEW row \in Configs, WriteRow(row), row.https => Matched
        PROVE  [Swap!Next]_(Swap!vars)
    BY <2>1 DEF WriteRow, Configs
  <2>2. ASSUME NEW j \in Jobs, NEW here \in Swapping, NEW file \in Files, NEW next,
               ImportFile(j, here, file, next)
        PROVE  [Swap!Next]_(Swap!vars)
    <3>1. UNCHANGED <<config, installed>> \/ Import(file)
      BY <2>2 DEF ImportFile, Request
    <3>2. CASE Import(file)
      <4>1. ~config.https
        BY <2>2 DEF ImportFile
      <4>2. spool.of \in Certs
        BY <3>2 DEF Import, TypeOK, Spooled, NoFile, Files
      <4>3. \/ installed'["cert"] = spool.of /\ installed'["key"] = installed["key"]
            \/ installed'["key"] = spool.of /\ installed'["cert"] = installed["cert"]
        BY <3>2 DEF Import, TypeOK, Pairs, Files
      <4> QED
        BY <4>1, <4>2, <4>3, <3>2 DEF Import
    <3> QED
      BY <3>1, <3>2
  <2>3. ASSUME NEW j \in Jobs, DisableHTTPS(j)
        PROVE  [Swap!Next]_(Swap!vars)
    <3>1. UNCHANGED <<config, installed>> \/ WriteRow([orig[j] EXCEPT !.https = FALSE])
      BY <2>3 DEF DisableHTTPS, WriteConfig, Request
    <3>2. [orig[j] EXCEPT !.https = FALSE] \in Configs /\ [orig[j] EXCEPT !.https = FALSE].https = FALSE
      BY DEF TypeOK, Configs, Actors
    <3> QED
      BY <3>1, <3>2, <2>1
  <2>4. ASSUME NEW j \in Jobs, Restore(j)
        PROVE  [Swap!Next]_(Swap!vars)
    <3>1. UNCHANGED <<config, installed>> \/ WriteRow(orig[j])
      BY <2>4 DEF Restore, WriteConfig, Request
    <3>2. orig[j] \in Configs /\ Matched
      BY <2>4 DEF TypeOK, Actors, Restore
    <3> QED
      BY <3>1, <3>2, <2>1
  <2>5. ASSUME NEW a \in Appliers, ApplyWrite(a)
        PROVE  [Swap!Next]_(Swap!vars)
    <3>1. UNCHANGED <<config, installed>> \/ WriteRow(orig[a])
      BY <2>5 DEF ApplyWrite, WriteConfig, Request
    <3>2. orig[a] \in Configs /\ (orig[a].https => Matched)
      BY <2>5 DEF TypeOK, Actors, ApplyWrite
    <3> QED
      BY <3>1, <3>2, <2>1
  <2>6. ASSUME NEW j \in Jobs, NEW here, NEW file, NEW next,
               \/ StartUpload(j) \/ ReadConfig(j) \/ SpoolFile(j, here, file, next)
               \/ CheckPair(j) \/ Kill(j)
        PROVE  UNCHANGED <<config, installed>>
    BY <2>6 DEF StartUpload, Begin, ReadConfig, Query, SpoolFile, Spool, CheckPair, Kill
  <2>7. ASSUME NEW a \in Appliers,
               StartApply(a) \/ ApplyReadConfig(a) \/ ApplyReadStatus(a) \/ ApplyReadBack(a)
        PROVE  UNCHANGED <<config, installed>>
    BY <2>7 DEF StartApply, Begin, ApplyReadConfig, Query, ApplyReadStatus, ApplyReadBack
  <2>8. CASE UNCHANGED vars
    BY <2>8 DEF vars
  <2> QED
    BY <2>2, <2>3, <2>4, <2>5, <2>6, <2>7, <2>8 DEF Next, UploadCertificate, Apply, Files
<1> QED
  BY <1>1, <1>2

(* Uploads and applies implement the certificate-swap discipline. *)
THEOREM SwapImplemented == ASSUME ~SilentRefusals PROVE Spec => SwapDiscipline
<1>1. Init => Swap!Init
  BY DEF Init, Swap!Init, Files
<1>2. TypeOK /\ LoneInv /\ [Next]_vars => [Swap!Next]_(Swap!vars)
  BY SwapStep
<1> QED
  BY <1>1, <1>2, LoneInvariant, PTL DEF Spec, SwapDiscipline, Swap!Spec

-----------------------------------------------------------------------------
(* What an upload has installed so far.                                    *)

SpooledCert == \A j \in Jobs :
    pc[j] = "importCert" => spool.file = "cert" /\ spool.of = pem[j]["cert"]
SpooledKey == \A j \in Jobs :
    pc[j] = "importKey" => spool.file = "key" /\ spool.of = pem[j]["key"]
CertIn == \A j \in Jobs :
    pc[j] \in {"spoolKey", "importKey", "status", "restore"}
        => installed["cert"] = pem[j]["cert"]
KeyIn == \A j \in Jobs :
    pc[j] \in {"status", "restore"} => installed["key"] = pem[j]["key"]

Progress == SpooledCert /\ SpooledKey /\ CertIn /\ KeyIn

ProgressInv == ~contended => Progress

LEMMA ProgressStep ==
    ASSUME TypeOK, Lone, Progress, ~SilentRefusals, [Next]_vars, ~contended'
    PROVE  Progress'
<1> USE ActorsAssumption DEF Progress, SpooledCert, SpooledKey, CertIn, KeyIn, TypeOK, Lone,
        OneActive, Active, UploadSteps, ApplySteps, Actors, Files, Pairs, Goto, Fail, switch
<1>1. ASSUME NEW j \in Jobs, StartUpload(j)
      PROVE  Progress'
  <2>1. ActiveActors = {} /\ UNCHANGED <<installed, spool>> /\ pc' = [pc EXCEPT ![j] = "config"]
    BY <1>1 DEF StartUpload, Begin
  <2>2. \A k \in Jobs : k # j => pem'[k] = pem[k]
    BY <1>1 DEF StartUpload
  <2> QED
    BY <2>1, <2>2
<1>2. ASSUME NEW j \in Jobs, ReadConfig(j)
      PROVE  Progress'
  BY <1>2 DEF ReadConfig, Query
<1>3. ASSUME NEW j \in Jobs, DisableHTTPS(j)
      PROVE  Progress'
  BY <1>3 DEF DisableHTTPS, WriteConfig, Request, WriteRow
<1>4. CASE \E j \in Jobs : SpoolFile(j, "spoolCert", "cert", "importCert")
  BY <1>4 DEF SpoolFile, Spool
<1>5. CASE \E j \in Jobs : ImportFile(j, "importCert", "cert", "spoolKey")
  BY <1>5 DEF ImportFile, Request, Import
<1>6. CASE \E j \in Jobs : SpoolFile(j, "spoolKey", "key", "importKey")
  BY <1>6 DEF SpoolFile, Spool
<1>7. CASE \E j \in Jobs : ImportFile(j, "importKey", "key", "status")
  BY <1>7 DEF ImportFile, Request, Import
<1>8. ASSUME NEW j \in Jobs, CheckPair(j)
      PROVE  Progress'
  BY <1>8 DEF CheckPair, Query
<1>9. ASSUME NEW j \in Jobs, Restore(j)
      PROVE  Progress'
  BY <1>9 DEF Restore, WriteConfig, Request, WriteRow
<1>10. ASSUME NEW j \in Jobs, Kill(j)
       PROVE  Progress'
  BY <1>10 DEF Kill
<1>11. ASSUME NEW a \in Appliers, Apply(a)
       PROVE  Progress'
  <2>1. UNCHANGED <<installed, spool, pem>>
    BY <1>11 DEF Apply, StartApply, Begin, ApplyReadConfig, ApplyReadStatus, ApplyWrite,
                 ApplyReadBack, Query, WriteConfig, Request, WriteRow
  <2>2. \A j \in Jobs : pc'[j] = pc[j]
    BY <1>11 DEF Apply, StartApply, Begin, ApplyReadConfig, ApplyReadStatus, ApplyWrite,
                 ApplyReadBack, Query, WriteConfig, Request, WriteRow
  <2> QED
    BY <2>1, <2>2
<1>12. CASE UNCHANGED vars
  BY <1>12 DEF vars
<1> HIDE DEF Progress
<1> QED
  BY <1>1, <1>2, <1>3, <1>4, <1>5, <1>6, <1>7, <1>8, <1>9, <1>10, <1>11, <1>12
     DEF Next, UploadCertificate

LEMMA ProgressInvariant ==
    ASSUME ~SilentRefusals PROVE Spec => [](TypeOK /\ LoneInv /\ ProgressInv)
<1>1. Init => ProgressInv
  BY DEF Init, ProgressInv, Progress, SpooledCert, SpooledKey, CertIn, KeyIn, Actors
<1>2. TypeOK /\ LoneInv /\ ProgressInv /\ [Next]_vars => ProgressInv'
  BY ContentionStays, ProgressStep DEF LoneInv, ProgressInv
<1> QED
  BY <1>1, <1>2, LoneInvariant, PTL DEF Spec

(* Only restoring the configuration ends an upload well. *)
LEMMA DoneByRestore ==
    ASSUME TypeOK, [Next]_vars, NEW j \in Jobs, pc[j] # "done", pc'[j] = "done"
    PROVE  Restore(j)
<1> USE ActorsAssumption DEF TypeOK, Actors, Goto, Fail, Query, Request, WriteConfig
<1>1. ASSUME NEW k \in Jobs, NEW here, NEW file, NEW next,
             next # "done",
             \/ StartUpload(k) \/ ReadConfig(k) \/ DisableHTTPS(k) \/ CheckPair(k) \/ Kill(k)
             \/ SpoolFile(k, here, file, next) \/ ImportFile(k, here, file, next)
      PROVE  FALSE
  BY <1>1 DEF StartUpload, Begin, ReadConfig, DisableHTTPS, CheckPair, Kill, SpoolFile, ImportFile
<1>2. ASSUME NEW k \in Jobs, Restore(k)
      PROVE  k = j
  BY <1>2 DEF Restore
<1>3. ASSUME NEW a \in Appliers, Apply(a)
      PROVE  FALSE
  BY <1>3 DEF Apply, StartApply, Begin, ApplyReadConfig, ApplyReadStatus, ApplyWrite, ApplyReadBack
<1>4. ~UNCHANGED vars
  BY DEF vars
<1>5. ASSUME NEW k \in Jobs, UploadCertificate(k)
      PROVE  Restore(k)
  BY <1>5, <1>1 DEF UploadCertificate
<1> QED
  BY <1>1, <1>2, <1>3, <1>4, <1>5 DEF Next

(* An upload that ends well, alone, has installed what it was given. *)
THEOREM DoneIsInstalled == ASSUME ~SilentRefusals PROVE Spec => DoneInstalled
<1>1. TypeOK /\ LoneInv /\ ProgressInv /\ [Next]_vars => InstallStep
  <2> SUFFICES ASSUME TypeOK, LoneInv, ProgressInv, [Next]_vars,
                      NEW j \in Jobs, ~contended', pc[j] # "done", pc'[j] = "done"
               PROVE  installed' = pem[j] /\ web' = "up"
    BY DEF InstallStep
  <2>1. Restore(j) /\ Lone /\ Progress
    BY DoneByRestore, ContentionStays DEF LoneInv, ProgressInv
  <2>2. installed' = installed
    BY <2>1 DEF Restore, WriteConfig, Request, WriteRow, switch
  <2>3. installed["cert"] = pem[j]["cert"] /\ installed["key"] = pem[j]["key"]
    BY <2>1 DEF Restore, Progress, CertIn, KeyIn
  <2>4. installed = pem[j]
    BY <2>3 DEF TypeOK, Pairs, Files
  <2>5. Lone'
    BY <2>1, LoneStep
  <2> QED
    BY <2>2, <2>4, <2>5 DEF Lone, Servable
<1> QED
  BY <1>1, ProgressInvariant, PTL DEF Spec, DoneInstalled

-----------------------------------------------------------------------------
(* What happens to the web configuration.                                  *)

Touching == {"off", "restore"} \cup Swapping

AllWell == \A j \in Jobs : pc[j] \notin {"failed", "killed"}

KeptAside == \A j \in Jobs : pc[j] \in Touching => orig[j] = wanted
Untouched == (\A j \in Jobs : pc[j] \notin Touching) => config = wanted

RestoreInv == ~contended /\ AllWell => KeptAside /\ Untouched

LEMMA RestoreStep ==
    ASSUME TypeOK, Lone, AllWell => KeptAside /\ Untouched, ~SilentRefusals,
           [Next]_vars, ~contended', AllWell'
    PROVE  KeptAside' /\ Untouched'
<1> USE ActorsAssumption DEF KeptAside, Untouched, AllWell, TypeOK, Lone, OneActive, Active,
        UploadSteps, ApplySteps, Actors, Touching, Swapping, Goto, Fail, switch
<1>1. ASSUME NEW j \in Jobs, StartUpload(j)
      PROVE  KeptAside' /\ Untouched'
  BY <1>1 DEF StartUpload, Begin
<1>2. ASSUME NEW j \in Jobs, ReadConfig(j)
      PROVE  KeptAside' /\ Untouched'
  BY <1>2 DEF ReadConfig, Query
<1>3. ASSUME NEW j \in Jobs, DisableHTTPS(j)
      PROVE  KeptAside' /\ Untouched'
  BY <1>3 DEF DisableHTTPS, WriteConfig, Request
<1>4. ASSUME NEW j \in Jobs, NEW here \in Swapping, NEW file, NEW next \in Swapping,
             SpoolFile(j, here, file, next)
      PROVE  KeptAside' /\ Untouched'
  BY <1>4 DEF SpoolFile
<1>5. ASSUME NEW j \in Jobs, NEW here \in Swapping, NEW file, NEW next \in Swapping,
             ImportFile(j, here, file, next)
      PROVE  KeptAside' /\ Untouched'
  BY <1>5 DEF ImportFile, Request
<1>6. ASSUME NEW j \in Jobs, CheckPair(j)
      PROVE  KeptAside' /\ Untouched'
  BY <1>6 DEF CheckPair, Query
<1>7. ASSUME NEW j \in Jobs, Restore(j)
      PROVE  KeptAside' /\ Untouched'
  BY <1>7 DEF Restore, WriteConfig, Request, WriteRow
<1>8. ASSUME NEW j \in Jobs, Kill(j)
      PROVE  FALSE
  BY <1>8 DEF Kill
<1>9. ASSUME NEW a \in Appliers, StartApply(a)
      PROVE  KeptAside' /\ Untouched'
  BY <1>9 DEF StartApply, Begin
<1>10. ASSUME NEW a \in Appliers,
              ApplyReadConfig(a) \/ ApplyReadStatus(a) \/ ApplyReadBack(a)
       PROVE  KeptAside' /\ Untouched'
  <2>1. UNCHANGED <<config, wanted>> /\ \A j \in Jobs : orig'[j] = orig[j] /\ pc'[j] = pc[j]
    BY <1>10 DEF ApplyReadConfig, ApplyReadStatus, ApplyReadBack, Query
  <2> QED
    BY <2>1
<1>11. ASSUME NEW a \in Appliers, ApplyWrite(a)
       PROVE  KeptAside' /\ Untouched'
  <2>1. wanted' = config' /\ \A j \in Jobs : pc'[j] = pc[j] /\ pc[j] \notin Active
    BY <1>11 DEF ApplyWrite, WriteConfig, Request
  <2> QED
    BY <2>1
<1>12. CASE UNCHANGED vars
  BY <1>12 DEF vars
<1> HIDE DEF KeptAside, Untouched, AllWell, TypeOK, Lone
<1> QED
  BY <1>1, <1>2, <1>3, <1>4, <1>5, <1>6, <1>7, <1>8, <1>9, <1>10, <1>11, <1>12
     DEF Next, UploadCertificate, Apply

(* If every upload so far ended well and nobody contended, the web         *)
(* configuration at rest is the one last asked for.                        *)
THEOREM ConfigIsRestored == ASSUME ~SilentRefusals PROVE Spec => []ConfigRestored
<1>1. Init => RestoreInv
  BY DEF Init, RestoreInv, KeptAside, Untouched, Touching, Swapping, Actors
<1>2. TypeOK /\ LoneInv /\ RestoreInv /\ [Next]_vars => RestoreInv'
  BY ContentionStays, RestoreStep DEF LoneInv, RestoreInv
<1>3. RestoreInv => ConfigRestored
  BY DEF RestoreInv, ConfigRestored, AllWell, Untouched, Touching, Swapping
<1> QED
  BY <1>1, <1>2, <1>3, LoneInvariant, PTL DEF Spec
=============================================================================
