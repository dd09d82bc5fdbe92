-------------------------- MODULE ExportersProofs --------------------------
(***************************************************************************)
(* What holds of every exporter, for any collectors, any devices and any   *)
(* number of faults.                                                       *)
(***************************************************************************)
EXTENDS Exporters, WAX630ESessionsProofs

(* What makes `up' honest at the end of a poll holds from the moment the   *)
(* family's own read is over: if nothing has gone wrong and the device has *)
(* not changed, the registry shows what the device has; a family that is   *)
(* empty for a moment is about to be filled with that.                     *)
Told == ~moved /\ ~garbled => (emptied => got = there)
Kept == read > family.read /\ ~failed /\ ~moved /\ ~garbled => Matches
HonestIInv ==
    /\ emptied => Watched
    /\ emptied => family.policy # "add"
    /\ Told
    /\ Kept
    /\ UpShowsDevice

ExporterIInv == ExporterTypeOK /\ SessionIInv /\ HonestIInv

USE EventAssumption

LEMMA FamilyFacts ==
    ASSUME ExporterTypeOK
    PROVE  /\ collector.reads \in Nat \ {0}
           /\ family.read \in 1..collector.reads
           /\ family.policy \in {"set", "keep", "reset", "ifany", "add"}
           /\ read \in 0..(collector.reads + 1)
  BY CollectorAssumption DEF ExporterTypeOK

(* Each step of an exporter is a step of the sessions, or none.            *)
LEMMA ExporterSessionStep ==
    ASSUME ExporterNext
    PROVE  [SessionNext]_sessionVars
<1> USE DEF With, Apart, SessionNext, Clients
<1>1. CASE BeginPoll \/ FinishPoll \/ Open
  BY <1>1 DEF BeginPoll, FinishPoll, Open
<1>2. CASE ReadGood \/ ReadBad
  BY <1>2 DEF ReadGood, ReadBad
<1>3. CASE Fill \/ Hang \/ DeviceMoves
  BY <1>3 DEF Fill, Hang, DeviceMoves
<1>4. CASE InSession
  BY <1>4 DEF InSession, Proceed, Methods
<1>5. CASE Leave
  BY <1>5 DEF Leave
<1>6. CASE DeviceRestarts
  BY <1>6 DEF DeviceRestarts
<1>7. CASE Others
  BY <1>7 DEF Others
<1>8. QED
  BY <1>1, <1>2, <1>3, <1>4, <1>5, <1>6, <1>7 DEF ExporterNext

(* What an update leaves, for a family being watched and for another.      *)
LEMMA UpdateFacts ==
    ASSUME ExporterTypeOK, NEW seen \in SUBSET Items, NEW parsed \in BOOLEAN,
           Update(seen, parsed), ~emptied, Reading
    PROVE  /\ shown' \in SUBSET Items /\ got' \in SUBSET Items
           /\ \/ emptied' = TRUE /\ read' = read
              \/ emptied' = FALSE /\ read' = read + 1
           /\ emptied' => Watched /\ family.policy \in {"reset", "ifany"}
           /\ ~Watched => shown' = shown
           /\ Watched /\ parsed =>
                IF emptied' THEN got' = seen
                ELSE IF family.policy = "add" THEN seen \subseteq shown' ELSE shown' = seen
           /\ family.policy = "ifany" /\ ~parsed => ~emptied'
  BY DEF Update, ExporterTypeOK, Reading

(* The types, with what is Boolean apart.                                  *)
Flagged ==
    /\ emptied \in BOOLEAN /\ failed \in BOOLEAN /\ garbled \in BOOLEAN
    /\ moved \in BOOLEAN /\ hung \in BOOLEAN /\ open \in BOOLEAN
Bounded ==
    /\ collector \in Collector
    /\ family \in collector.families
    /\ read \in 0..(collector.reads + 1)
    /\ up \in {0, 1}
    /\ got \in SUBSET Items /\ there \in SUBSET Items /\ shown \in SUBSET Items
    /\ events \in 0..MaxEvents
Midway ==
    /\ emptied \/ (hung /\ open) => Reading
    /\ ~open => read = 0 /\ collector.behind
    /\ ~(emptied /\ hung)

LEMMA TypeParts == ExporterTypeOK <=> SessionTypeOK /\ Flagged /\ Bounded /\ Midway
  BY DEF ExporterTypeOK, Flagged, Bounded, Midway, Reading

LEMMA ExporterTypeStep ==
    ASSUME ExporterTypeOK, ExporterNext, SessionTypeOK'
    PROVE  ExporterTypeOK'
<1> USE DEF Event
<1>1. CASE BeginPoll
  <2>1. Flagged'
    BY <1>1, TypeParts, Zenon DEF Flagged, BeginPoll
  <2>2. Bounded'
    BY <1>1, TypeParts, FamilyFacts DEF Bounded, BeginPoll
  <2>3. Midway'
    BY <1>1, TypeParts, FamilyFacts DEF Midway, Reading, BeginPoll
  <2>4. QED
    BY <2>1, <2>2, <2>3, TypeParts, PTL
<1>2. CASE ReadGood
  <2>1. /\ UNCHANGED <<collector, family, there, up, failed, moved, hung, open>>
        /\ Reading /\ ~emptied /\ ~hung
        /\ \/ Update(there, TRUE) /\ UNCHANGED <<garbled, events>>
           \/ Update({}, FALSE) /\ UNCHANGED <<garbled, events>>
           \/ Event /\ garbled' = TRUE /\ Update({}, FALSE)
    BY <1>2 DEF ReadGood
  <2>2. there \in SUBSET Items /\ {} \in SUBSET Items
    BY TypeParts DEF Bounded
  <2>3. /\ shown' \in SUBSET Items /\ got' \in SUBSET Items
        /\ \/ emptied' = TRUE /\ read' = read
           \/ emptied' = FALSE /\ read' = read + 1
    <3>1. CASE Update(there, TRUE)
      BY <2>1, <2>2, <3>1, UpdateFacts
    <3>2. CASE Update({}, FALSE)
      BY <2>1, <2>2, <3>2, UpdateFacts
    <3>3. QED
      BY <2>1, <3>1, <3>2
  <2>4. events' \in 0..MaxEvents
    <3>1. events' = events \/ (events < MaxEvents /\ events' = events + 1)
      BY <1>2 DEF ReadGood
    <3>2. QED
      BY <3>1, TypeParts DEF Bounded
  <2>5. Flagged'
    BY <2>1, <2>3, TypeParts, Zenon DEF Flagged
  <2>6. Bounded'
    BY <2>1, <2>2, <2>3, <2>4, TypeParts, FamilyFacts DEF Bounded, Reading
  <2>7. Midway'
    BY <2>1, <2>3, TypeParts, FamilyFacts DEF Midway, Reading
  <2>8. QED
    BY <2>5, <2>6, <2>7, TypeParts, PTL
<1>3. CASE Fill
  <2>1. read \in 1..collector.reads /\ ~hung
    BY <1>3, TypeParts DEF Midway, Reading, Fill
  <2>2. Flagged'
    BY <1>3, TypeParts, Zenon DEF Flagged, Fill
  <2>3. Bounded'
    BY <1>3, <2>1, TypeParts, FamilyFacts DEF Bounded, Fill
  <2>4. Midway'
    BY <1>3, <2>1, TypeParts, FamilyFacts DEF Midway, Reading, Fill
  <2>5. QED
    BY <2>2, <2>3, <2>4, TypeParts, PTL
<1>4. CASE ReadBad
  <2>1. Flagged'
    BY <1>4, TypeParts, Zenon DEF Flagged, ReadBad
  <2>2. Bounded'
    BY <1>4, TypeParts, FamilyFacts DEF Bounded, Reading, ReadBad
  <2>3. Midway'
    BY <1>4, TypeParts, FamilyFacts DEF Midway, Reading, ReadBad
  <2>4. QED
    BY <2>1, <2>2, <2>3, TypeParts, PTL
<1>5. CASE Hang
  <2>1. Flagged'
    BY <1>5, TypeParts, Zenon DEF Flagged, Hang
  <2>2. Bounded'
    BY <1>5, TypeParts DEF Bounded, Hang
  <2>3. Midway'
    BY <1>5, TypeParts, FamilyFacts DEF Midway, Reading, Hang
  <2>4. QED
    BY <2>1, <2>2, <2>3, TypeParts, PTL
<1>11. CASE Open
  <2>1. Flagged'
    BY <1>11, TypeParts, Zenon DEF Flagged, Open
  <2>2. Bounded'
    BY <1>11, TypeParts DEF Bounded, Open
  <2>3. Midway'
    BY <1>11, TypeParts, FamilyFacts DEF Midway, Reading, Open
  <2>4. QED
    BY <2>1, <2>2, <2>3, TypeParts, PTL
<1>6. CASE FinishPoll
  BY <1>6, FamilyFacts DEF ExporterTypeOK, FinishPoll
<1>7. CASE InSession \/ DeviceRestarts \/ Others
  BY <1>7 DEF ExporterTypeOK, InSession, DeviceRestarts, Others, pollVars
<1>8. CASE Leave
  <2>1. Flagged'
    BY <1>8, TypeParts, Zenon DEF Flagged, Leave
  <2>2. Bounded'
    BY <1>8, TypeParts, FamilyFacts DEF Bounded, Reading, Leave
  <2>3. Midway'
    BY <1>8, TypeParts, FamilyFacts DEF Midway, Reading, Leave
  <2>4. QED
    BY <2>1, <2>2, <2>3, TypeParts, PTL
<1>9. CASE DeviceMoves
  BY <1>9 DEF ExporterTypeOK, DeviceMoves
<1>10. QED
  BY <1>1, <1>2, <1>3, <1>4, <1>5, <1>6, <1>7, <1>8, <1>9, <1>11 DEF ExporterNext

(* What was seen at the family's own read reaches the registry, and stays  *)
(* there to the end of the poll and until the next one.                    *)
LEMMA HonestStep ==
    ASSUME ExporterTypeOK, HonestIInv, ExporterNext
    PROVE  HonestIInv'
<1> USE DEF HonestIInv, Told, Kept, UpShowsDevice, Matches, Watched
<1>1. CASE BeginPoll
  BY <1>1, FamilyFacts DEF BeginPoll, ExporterTypeOK
<1>2. CASE ReadGood
  <2>1. /\ UNCHANGED <<collector, family, there, up, failed, moved, hung>>
        /\ Reading /\ ~emptied
        /\ \/ Update(there, TRUE) /\ garbled' = garbled
           \/ /\ family.policy = "ifany" /\ there = {}
              /\ Update({}, FALSE) /\ garbled' = garbled
           \/ garbled' = TRUE /\ Update({}, FALSE)
    BY <1>2 DEF ReadGood
  <2>2. there \in SUBSET Items /\ {} \in SUBSET Items
    BY DEF ExporterTypeOK
  <2>3. read' # 0
    <3>1. read' \in {read, read + 1}
      <4>1. CASE Update(there, TRUE)
        BY <2>1, <2>2, <4>1, UpdateFacts
      <4>2. CASE Update({}, FALSE)
        BY <2>1, <2>2, <4>2, UpdateFacts
      <4>3. QED
        BY <2>1, <4>1, <4>2
    <3>2. QED
      BY <2>1, <3>1, FamilyFacts DEF Reading
  <2>4. CASE Update(there, TRUE) /\ garbled' = garbled
    <3>1. /\ \/ emptied' = TRUE /\ read' = read
             \/ emptied' = FALSE /\ read' = read + 1
          /\ emptied' => Watched /\ family.policy \in {"reset", "ifany"}
          /\ ~Watched => shown' = shown
          /\ Watched =>
                IF emptied' THEN got' = there
                ELSE IF family.policy = "add" THEN there \subseteq shown' ELSE shown' = there
      BY <2>1, <2>2, <2>4, UpdateFacts
    <3>2. CASE Watched
      BY <2>1, <2>3, <3>1, <3>2, FamilyFacts
    <3>3. CASE ~Watched
      BY <2>1, <2>3, <2>4, <3>1, <3>3, FamilyFacts
    <3>4. QED
      BY <3>2, <3>3
  <2>5. CASE /\ family.policy = "ifany" /\ there = {}
             /\ Update({}, FALSE) /\ garbled' = garbled
    BY <2>1, <2>2, <2>3, <2>5, UpdateFacts, FamilyFacts DEF Reading
  <2>6. CASE garbled' = TRUE /\ Update({}, FALSE)
    BY <2>1, <2>2, <2>3, <2>6, UpdateFacts, FamilyFacts DEF Reading
  <2>7. QED
    BY <2>1, <2>4, <2>5, <2>6
<1>3. CASE Fill
  BY <1>3, FamilyFacts DEF Fill, ExporterTypeOK
<1>4. CASE ReadBad
  BY <1>4, FamilyFacts DEF ReadBad, ExporterTypeOK, Reading
<1>5. CASE Hang \/ Open
  BY <1>5 DEF Hang, Open
<1>6. CASE FinishPoll
  BY <1>6, FamilyFacts DEF FinishPoll, ExporterTypeOK
<1>7. CASE InSession \/ DeviceRestarts \/ Others
  BY <1>7 DEF InSession, DeviceRestarts, Others, pollVars
<1>8. CASE Leave
  BY <1>8, FamilyFacts DEF Leave, ExporterTypeOK
<1>9. CASE DeviceMoves
  BY <1>9 DEF DeviceMoves
<1>10. QED
  BY <1>1, <1>2, <1>3, <1>4, <1>5, <1>6, <1>7, <1>8, <1>9 DEF ExporterNext

LEMMA ExporterInitially == ExporterInit => ExporterIInv
<1> SUFFICES ASSUME ExporterInit PROVE ExporterIInv
  OBVIOUS
<1>1. SessionIInv
  BY SessionInitially DEF ExporterInit
<1>2. ExporterTypeOK
  <2>1. SessionTypeOK
    BY <1>1 DEF SessionIInv
  <2>2. collector.reads \in Nat \ {0}
    BY CollectorAssumption DEF ExporterInit
  <2>3. Flagged /\ Midway
    BY Zenon DEF ExporterInit, Flagged, Midway
  <2>4. Bounded
    BY <2>2 DEF ExporterInit, Bounded
  <2>5. QED
    BY <2>1, <2>3, <2>4, TypeParts
<1>3. HonestIInv
  BY <1>2, FamilyFacts DEF ExporterInit, HonestIInv, Told, Kept, UpShowsDevice
<1>4. QED
  BY <1>1, <1>2, <1>3 DEF ExporterIInv

LEMMA ExporterStep == ExporterIInv /\ [ExporterNext]_exporterVars => ExporterIInv'
<1> SUFFICES ASSUME ExporterIInv, [ExporterNext]_exporterVars PROVE ExporterIInv'
  OBVIOUS
<1>1. CASE ExporterNext
  <2>1. SessionIInv'
    BY <1>1, ExporterSessionStep, SessionStep DEF ExporterIInv
  <2>2. ExporterTypeOK'
    BY <1>1, <2>1, ExporterTypeStep DEF ExporterIInv, SessionIInv
  <2>3. HonestIInv'
    BY <1>1, HonestStep DEF ExporterIInv
  <2>4. QED
    BY <2>1, <2>2, <2>3 DEF ExporterIInv
<1>2. CASE UNCHANGED exporterVars
  <2>1. UNCHANGED sessionVars /\ UNCHANGED pollVars
    BY <1>2 DEF exporterVars
  <2>2. SessionIInv'
    BY <2>1, SessionStep DEF ExporterIInv
  <2>3. ExporterTypeOK'
    BY <2>1, <2>2 DEF ExporterIInv, SessionIInv, ExporterTypeOK, pollVars
  <2>4. HonestIInv'
    BY <2>1 DEF ExporterIInv, pollVars, HonestIInv, Told, Kept, UpShowsDevice, Matches, Watched
  <2>5. QED
    BY <2>2, <2>3, <2>4 DEF ExporterIInv
<1>3. QED
  BY <1>1, <1>2

LEMMA ExporterInductive == ExporterSpec => []ExporterIInv
  BY ExporterInitially, ExporterStep, PTL DEF ExporterSpec

(* The exporters' variables keep their types, and so do the sessions'      *)
(* beneath them.                                                           *)
THEOREM ExporterTypeCorrect == ExporterSpec => []ExporterTypeOK
<1>1. ExporterIInv => ExporterTypeOK
  BY DEF ExporterIInv
<1>2. QED
  BY <1>1, ExporterInductive, PTL

(* Of the sessions in the table of an access point polled by an exporter   *)
(* and used by any number of tools, those that no client can end are no    *)
(* more than the calls that went unanswered, the processes that died, the  *)
(* Reboots that were refused and the SIGTERMs in a first poll.             *)
THEOREM SlotsAreAccounted == ExporterSpec => []SlotsAccounted
<1>1. ExporterIInv => SlotsAccounted
  BY DEF ExporterIInv, SessionIInv
<1>2. QED
  BY <1>1, ExporterInductive, PTL

(* Between two calls no tool holds a session beside the exporter's, unless *)
(* its Reboot got no answer.                                               *)
THEOREM ToolsRelease == ExporterSpec => []PerCallReleases
<1>1. ExporterIInv => PerCallReleases
  BY SessionConsequences DEF ExporterIInv
<1>2. QED
  BY <1>1, ExporterInductive, PTL

(* For any collectors, families of series and contents of the device: the  *)
(* gauge `up' is believed only where the registry shows what the device    *)
(* had at that poll.                                                       *)
THEOREM UpIsHonest == ExporterSpec => []UpShowsDevice
<1>1. ExporterIInv => UpShowsDevice
  BY DEF ExporterIInv, HonestIInv
<1>2. QED
  BY <1>1, ExporterInductive, PTL

(* An exporter on its access point is one more user of the sessions: seen  *)
(* through them alone it does nothing that they do not allow.              *)
THEOREM ExporterImplementsSessions == ExporterSpec => UsesSessionsRightly
<1>1. ExporterInit => SessionInit
  BY DEF ExporterInit
<1>2. [ExporterNext]_exporterVars => [SessionNext]_sessionVars
  BY ExporterSessionStep DEF exporterVars
<1>3. QED
  BY <1>1, <1>2, PTL DEF ExporterSpec, SessionSpec, UsesSessionsRightly
=============================================================================
