----------------------------- MODULE Exporters -----------------------------
(***************************************************************************)
(* The exporters: polls on their own schedule, a registry that is scraped  *)
(* at any time, and the gauge `up' that says whether to believe it.        *)
(*                                                                         *)
(* One behaviour is about one collector and one family of its series.      *)
(* `there' is what the device has for that family, `shown' what the        *)
(* registry has.  The collector of the access point's web API makes each   *)
(* of its reads as a call of WAX630ESessions, in competition with the      *)
(* tools; the others just get an answer or do not.                         *)
(***************************************************************************)
EXTENDS WAX630ESessions

CONSTANTS
    Collector,      \* the collectors
    Items,          \* what a device can have for a family of series
    MaxEvents       \* bound on changes of the device and on reads that go wrong

ASSUME CollectorAssumption ==
    \A c \in Collector :
        /\ c.reads \in Nat \ {0}
        /\ {c.shell, c.hangs, c.session, c.behind, c.partial} \subseteq BOOLEAN
        /\ c.behind => ~c.hangs
        /\ \A f \in c.families :
            /\ f.read \in 1..c.reads
            /\ f.policy \in {"set", "keep", "reset", "ifany", "add"}
ASSUME EventAssumption == MaxEvents \in Nat

VARIABLES
    collector,      \* the collector this behaviour is about
    family,         \* the family of series
    read,           \* the read the poll has come to, or 0 between polls
    emptied,        \* the family was reset and is about to be filled
    got,            \* what it is to be filled with
    there,          \* what the device has
    shown,          \* what the registry has
    up,             \* the gauge
    failed,         \* a read of this poll failed
    garbled,        \* a part of this poll's answer was missing or unreadable
    moved,          \* the device has changed since the poll began
    hung,           \* a shell that never ends its output
    open,           \* the collector has been started by its exporter
    events          \* changes and faults so far

pollVars == <<collector, family, read, emptied, got, there, shown, up, failed, garbled,
              moved, hung, open, events>>
exporterVars == <<sessionVars, pollVars>>

ExporterTypeOK ==
    /\ SessionTypeOK
    /\ collector \in Collector
    /\ family \in collector.families
    /\ read \in 0..(collector.reads + 1)
    /\ emptied \in BOOLEAN /\ failed \in BOOLEAN /\ garbled \in BOOLEAN
    /\ moved \in BOOLEAN /\ hung \in BOOLEAN /\ open \in BOOLEAN
    /\ up \in {0, 1}
    /\ got \in SUBSET Items /\ there \in SUBSET Items /\ shown \in SUBSET Items
    /\ emptied \/ (hung /\ open) => read \in 1..collector.reads
    /\ ~open => read = 0 /\ collector.behind
    /\ ~(emptied /\ hung)
    /\ events \in 0..MaxEvents

ExporterInit ==
    /\ SessionInit
    /\ collector \in Collector
    /\ family \in collector.families
    /\ read = 0
    /\ emptied = FALSE
    /\ got = {}
    /\ there = Items
    /\ shown = {}
    /\ up = 0
    /\ failed = FALSE
    /\ garbled = FALSE
    /\ moved = FALSE
    /\ hung = FALSE
    /\ open = ~collector.behind
    /\ events = 0

Event == events < MaxEvents /\ events' = events + 1
Reading == read \in 1..collector.reads
Watched == read = family.read

(* Steps that are also steps of the access point's session, and steps that *)
(* are not.                                                                *)
With(step) == IF collector.session THEN step ELSE UNCHANGED sessionVars
Apart == UNCHANGED sessionVars

-----------------------------------------------------------------------------
(* A poll.                                                                 *)

(* An exporter with a shell collector polls that once before it starts the *)
(* collector behind it; a shell that hangs there is cut off only when the  *)
(* device goes.                                                            *)
Open ==
    /\ ~open
    /\ collector.session => at[Poller] = "idle"
    /\ hung => ~serving
    /\ open' = TRUE
    /\ hung' = FALSE
    /\ Apart
    /\ UNCHANGED <<collector, family, read, emptied, got, there, shown, up, failed, garbled, moved, events>>

BeginPoll ==
    /\ read = 0
    /\ open
    /\ With(StartPoll)
    /\ read' = 1
    /\ failed' = FALSE
    /\ garbled' = FALSE
    /\ moved' = FALSE
    /\ UNCHANGED <<collector, family, emptied, got, there, shown, up, hung, open, events>>

(* The family is brought up to date with what was seen.  A section of a    *)
(* shell's output, or a number, may turn out not to be readable; a web     *)
(* page or reply may lack the part and be taken for good all the same; and *)
(* the file of a section may be empty where there is nothing to tell.      *)
Update(seen, parsed) ==
    LET new == IF ~Watched THEN shown
               ELSE IF family.policy = "add" THEN shown \cup seen
               ELSE IF family.policy \in {"keep", "ifany"} /\ ~parsed THEN shown
               ELSE IF parsed THEN seen ELSE {}
        empties == Watched /\ (family.policy = "reset" \/ (family.policy = "ifany" /\ parsed))
    IN  IF empties
        THEN /\ emptied' = TRUE /\ got' = new /\ shown' = {}
             /\ UNCHANGED read
        ELSE /\ shown' = new
             /\ read' = read + 1
             /\ UNCHANGED <<emptied, got>>

ReadGood ==
    /\ Reading /\ ~emptied /\ ~hung
    /\ IF collector.session THEN at[Poller] = "good" /\ Finish(Poller) ELSE serving /\ Apart
    /\ \/ Update(there, TRUE) /\ UNCHANGED <<garbled, events>>
       \/ /\ family.policy = "ifany" /\ there = {}
          /\ Update({}, FALSE) /\ UNCHANGED <<garbled, events>>
       \/ /\ collector.shell \/ collector.partial \/ family.policy = "keep"
          /\ Event /\ garbled' = TRUE /\ Update({}, FALSE)
    /\ UNCHANGED <<collector, family, there, up, failed, moved, hung, open>>

(* The series emptied before are filled again; a scrape in between sees    *)
(* none of them.                                                           *)
FillTwice ==
    /\ emptied
    /\ shown' = got
    /\ read' = read + 1
    /\ Apart
    /\ UNCHANGED <<collector, family, emptied, got, there, up, failed, garbled, moved, hung, open, events>>
Fill ==
    /\ emptied
    /\ emptied' = FALSE
    /\ shown' = got
    /\ got' = {}
    /\ read' = read + 1
    /\ Apart
    /\ UNCHANGED <<collector, family, there, up, failed, garbled, moved, hung, open, events>>

(* A read that gets no answer, or an answer that is an error.  A shell     *)
(* that hangs is cut off only when the device goes.                        *)
ReadBadUnnoticed ==
    /\ Reading /\ ~emptied
    /\ IF collector.session
       THEN at[Poller] = "bad" /\ Finish(Poller) /\ UNCHANGED events
       ELSE Apart /\ IF serving THEN ~hung /\ Event ELSE UNCHANGED events
    /\ read' = read + 1
    /\ hung' = FALSE
    /\ UNCHANGED <<collector, family, emptied, got, there, shown, up, failed, garbled, moved, open>>
ReadBad ==
    /\ Reading /\ ~emptied
    /\ IF collector.session
       THEN at[Poller] = "bad" /\ Finish(Poller) /\ UNCHANGED events
       ELSE Apart /\ IF serving THEN ~hung /\ Event ELSE UNCHANGED events
    /\ failed' = TRUE
    /\ read' = read + 1
    /\ hung' = FALSE
    /\ UNCHANGED <<collector, family, emptied, got, there, shown, up, garbled, moved, open>>

(* The time limit of the SSH collectors covers the dialling alone, also in *)
(* the poll an exporter begins with.                                       *)
Hang ==
    /\ IF open THEN collector.hangs /\ Reading /\ ~emptied ELSE collector.session => at[Poller] = "idle"
    /\ ~hung /\ serving
    /\ Event
    /\ hung' = TRUE
    /\ Apart
    /\ UNCHANGED <<collector, family, read, emptied, got, there, shown, up, failed, garbled, moved, open>>

FinishPollProudly ==
    /\ read = collector.reads + 1
    /\ With(EndPoll)
    /\ up' = IF failed THEN up ELSE 1
    /\ read' = 0
    /\ UNCHANGED <<collector, family, emptied, got, there, shown, failed, garbled, moved, hung, open, events>>
FinishPoll ==
    /\ read = collector.reads + 1
    /\ With(EndPoll)
    /\ up' = IF failed THEN 0 ELSE 1
    /\ read' = 0
    /\ UNCHANGED <<collector, family, emptied, got, there, shown, failed, garbled, moved, hung, open, events>>

(* The exporter's calls on the access point, up to their end.              *)
InSession ==
    /\ collector.session
    /\ \/ Probe \/ Login(Poller) \/ Request(Poller) \/ Logout(Poller)
       \/ Reading /\ ~emptied /\ Begin(Poller, "call")
    /\ UNCHANGED pollVars

-----------------------------------------------------------------------------
(* Everything else.                                                        *)

(* The process ends, and comes back with an empty registry.                *)
LeaveMidCall ==
    /\ collector.session /\ at[Poller] \in InCall
    /\ Release(Poller)
    /\ Move(Poller, "ended")
    /\ read' = 0 /\ emptied' = FALSE /\ hung' = FALSE
    /\ UNCHANGED <<call, releases, kept, serving, first, dropped, collector, family, got, there,
                   shown, up, failed, garbled, moved, open, events>>
Leave ==
    /\ IF collector.session
       THEN Terminate \/ Kill(Poller) \/ Restart
       ELSE Apart
    /\ IF collector.session THEN UNCHANGED events ELSE Event
    /\ read' = 0
    /\ emptied' = FALSE
    /\ got' = {}
    /\ shown' = {}
    /\ up' = 0
    /\ failed' = FALSE
    /\ garbled' = FALSE
    /\ hung' = FALSE
    /\ moved' = FALSE
    /\ open' = ~collector.behind
    /\ UNCHANGED <<collector, family, there>>

(* The device changes.                                                     *)
DeviceMoves ==
    /\ Event
    /\ there' \in SUBSET Items \ {there}
    /\ moved' = TRUE
    /\ Apart
    /\ UNCHANGED <<collector, family, read, emptied, got, shown, up, failed, garbled, hung, open>>

(* The device restarts; for the access point that wipes its sessions.      *)
DeviceRestarts ==
    /\ PowerCut \/ Boot
    /\ UNCHANGED pollVars

(* The other clients of the access point, and its own timeouts.            *)
Others ==
    /\ collector.session
    /\ \/ \E c \in Tools, m \in Methods : Begin(c, m)
       \/ \E c \in Tools : Proceed(c) \/ Finish(c) \/ CleanUp(c) \/ Kill(c)
       \/ \E c \in Clients : Expire(c)
       \/ ExpireLost
    /\ UNCHANGED pollVars

ExporterNext ==
    \/ Open \/ BeginPoll \/ ReadGood \/ Fill \/ ReadBad \/ Hang \/ FinishPoll \/ InSession
    \/ Leave \/ DeviceMoves \/ DeviceRestarts \/ Others

ExporterSpec == ExporterInit /\ [][ExporterNext]_exporterVars

(* The ticker goes on once a collector was started, every call but a       *)
(* shell's has a time limit, and the access point frees sessions nobody    *)
(* holds; an exporter that died is started again.  Nothing is promised of  *)
(* the device, or of a shell that hangs.                                   *)
Polling ==
    \/ Open \/ BeginPoll \/ ReadGood \/ Fill \/ FinishPoll \/ InSession
    \/ ReadBad /\ (collector.session \/ ~serving)
Starting == collector.session /\ Restart /\ Leave
ExporterFairSpec ==
    /\ ExporterSpec
    /\ WF_exporterVars(Polling)
    /\ WF_exporterVars(Starting)
    /\ WF_exporterVars(collector.session /\ ExpireLost /\ UNCHANGED pollVars)

-----------------------------------------------------------------------------
(* Properties.                                                             *)

(* Between polls, `up' means that the registry shows what the device has,  *)
(* unless the device has changed since that poll began or a part of its    *)
(* answer was missing or unreadable: what lacks a part may be taken for    *)
(* good (cm1000/client.go:318, xs508tm/client.go:204).  What is never      *)
(* emptied may also show what has gone, and so may what is left alone when *)
(* its section is empty.                                                   *)
Matches ==
    IF family.policy = "add" THEN there \subseteq shown
    ELSE IF family.policy = "ifany" /\ there = {} THEN TRUE
    ELSE shown = there
UpShowsDevice == read = 0 /\ up = 1 /\ ~moved /\ ~garbled => Matches

(* Seen from the access point an exporter does only what WAX630ESessions   *)
(* allows a client that keeps its session, whatever a poll has come to: it *)
(* makes its calls one at a time, and logs out between two of them.        *)
UsesSessionsRightly == SessionSpec

(* A device that stays away ends up shown as down.                         *)
FailureShows == <>[]~serving => <>[](up = 0)

(* A device that stays is shown as up again and again, whatever it did to  *)
(* the sessions, unless a shell hangs: the collector's, or the one its     *)
(* exporter begins with.                                                   *)
ComesBack == <>[]serving => []<>(up = 1 \/ hung)
=============================================================================
