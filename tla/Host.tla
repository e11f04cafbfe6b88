---------------------------------- MODULE Host ----------------------------------
(* What runs beside the server on its machine, and on a client's: how it starts        *)
(* (Startup), for the first time (FirstRun), stops (StopRequest, ServiceHost) and is    *)
(* updated (Deployment, ClientUpdater); its pictures, its archives and their copies    *)
(* (Media, Archives, CloudCopies).  They share nothing here; a behaviour is one of one *)
(* of them.  Theorems about them follow, for any archives, agents, versions, calls,    *)
(* launches and bounds.                                                                *)
EXTENDS Startup, FiniteSetTheorems, WellFoundedInduction, TLAPS

CONSTANTS
  Agents, Manual, Target, First, Broken, MAX_RESTARTS, NoLock, Unwritten,
  MaxFaults,                                              \* Deployment's
  MaxUpdates,                                             \* ClientUpdater's
  Calls, Creators, MAX_BACKUPS_TO_KEEP, MaxArchives,      \* Archives'
  Frozen, MaxSecrets, MaxCuts, MaxRefusals,               \* FirstRun's
  Launches, Askers, Nobody, MaxStops, MaxStopFaults,      \* StopRequest's
  Requests,                                               \* CloudCopies' and Media's
  Destinations, Keep, MaxCopied, MaxSecretKeys,           \* CloudCopies'
  Owners, Removable, MaxPictures, MaxBackups, MaxMediaFaults  \* Media's

VARIABLES part
VARIABLES active, previousExe, staged, service, image, lock, agent, healer, tries, failed
VARIABLES install, previous, backup, update, at, told, before
VARIABLES directory, torn, archives, call, made
VARIABLES setupEnv, setupReport, setupShown, setupAdmin, setupProcess, setupDrawn,
setupCrashes, setupRefusals, setupCut, setupEmptied
VARIABLES stopRequest, stopWritten, stopServer, stopPort, stopAsker, stopFaults
VARIABLES svcStatus, svcTold, svcThread, svcMain, svcWorker, svcError, svcAsked
VARIABLES cloudMade, cloudKept, cloudRows, cloudGone, cloudKey, cloudCopies, cloudWork
VARIABLES picFile, picRow, picWork, picPictures, picBackups, picFaults, picArchives,
picBroken

Server == INSTANCE Deployment WITH previous <- previousExe, faults <- failed
Client == INSTANCE ClientUpdater
Local == INSTANCE Archives WITH written <- archives
Setup == INSTANCE FirstRun WITH
  MaxCrashes <- MaxCuts,
  env <- setupEnv, report <- setupReport, shown <- setupShown, admin <- setupAdmin,
  process <- setupProcess, drawn <- setupDrawn, crashes <- setupCrashes,
  refusals <- setupRefusals, cut <- setupCut, emptied <- setupEmptied
Stopping == INSTANCE StopRequest WITH
  MaxRequests <- MaxStops, MaxFaults <- MaxStopFaults,
  request <- stopRequest, written <- stopWritten, server <- stopServer, port <- stopPort,
  asker <- stopAsker, faults <- stopFaults
Service == INSTANCE ServiceHost WITH
  status <- svcStatus, told <- svcTold, thread <- svcThread, main <- svcMain,
  worker <- svcWorker, error <- svcError, asked <- svcAsked
Cloud == INSTANCE CloudCopies WITH
  MaxArchives <- MaxCopied, MaxKeys <- MaxSecretKeys, made <- cloudMade,
  kept <- cloudKept, rows <- cloudRows, gone <- cloudGone, key <- cloudKey,
  copies <- cloudCopies, work <- cloudWork
Pictures == INSTANCE Media WITH
  Students <- Removable, MaxFaults <- MaxMediaFaults, file <- picFile, row <- picRow,
  work <- picWork, pictures <- picPictures, backups <- picBackups, faults <- picFaults,
  archives <- picArchives, broken <- picBroken

ASSUME HostAssumption ==
  /\ Server!DeploymentConstants /\ MaxUpdates \in Nat /\ Local!ArchivesConstants
  /\ Setup!FirstRunConstants /\ Stopping!StopRequestConstants
  /\ Cloud!CloudCopiesConstants /\ Pictures!MediaConstants

server == <<active, previousExe, staged, service, image, lock, agent, healer, tries, failed>>
client == <<install, previous, backup, update, at, told, before>>
local == <<directory, torn, archives, call, made>>
setup ==
  <<setupEnv, setupReport, setupShown, setupAdmin, setupProcess, setupDrawn,
  setupCrashes, setupRefusals, setupCut, setupEmptied>>
stopping == <<stopRequest, stopWritten, stopServer, stopPort, stopAsker, stopFaults>>
hosting == <<svcStatus, svcTold, svcThread, svcMain, svcWorker, svcError, svcAsked>>
cloud ==
  <<cloudMade, cloudKept, cloudRows, cloudGone, cloudKey, cloudCopies, cloudWork>>
pictures ==
  <<picFile, picRow, picWork, picPictures, picBackups, picFaults, picArchives,
  picBroken>>
deployed == <<vars, server, client, local>>
beside == <<setup, stopping, hosting, cloud, pictures>>

HostInit ==
  /\ Init /\ Server!Init /\ Client!Init /\ Local!Init
  /\ Setup!Init /\ Stopping!Init /\ Service!Init /\ Cloud!Init /\ Pictures!Init
  /\ part \in {"startup", "server", "client", "archives",
              "setup", "stop", "service", "cloud", "pictures"}
  /\ part # "startup" => launcher = "uvicorn" /\ ~breaks /\ bare = {}
  /\ part # "client" => install = Client!NoTree
HostNext ==
  /\ part' = part
  /\ \/ /\ UNCHANGED beside
        /\ \/ part = "startup" /\ Next /\ UNCHANGED <<server, client, local>>
           \/ part = "server" /\ Server!Next /\ UNCHANGED <<vars, client, local>>
           \/ part = "client" /\ Client!Next /\ UNCHANGED <<vars, server, local>>
           \/ part = "archives" /\ Local!Next /\ UNCHANGED <<vars, server, client>>
     \/ /\ UNCHANGED deployed
        /\ \/ /\ part = "setup" /\ Setup!Next
              /\ UNCHANGED <<stopping, hosting, cloud, pictures>>
           \/ part = "stop" /\ Stopping!Next /\ UNCHANGED <<setup, hosting, cloud, pictures>>
           \/ part = "service" /\ Service!Next
              /\ UNCHANGED <<setup, stopping, cloud, pictures>>
           \/ part = "cloud" /\ Cloud!Next /\ UNCHANGED <<setup, stopping, hosting, pictures>>
           \/ part = "pictures" /\ Pictures!Next
                /\ UNCHANGED <<setup, stopping, hosting, cloud>>
HostSpec == HostInit /\ [][HostNext]_<<deployed, beside, part>>

---------------------------------------------------------------------------------
(* Properties                                                                    *)

\* What an update reports is what became of it, and after it there is a version to
\* return to (Deployment's and ClientUpdater's properties).
OutcomeIsTrue ==
  /\ part = "server" => Server!OutcomeIsTrue
  /\ part = "client" => Client!ReturnIsPossible

\* What is said to be there is there: beside a database the media of the same origin, and
\* the newest archives on the disk (Startup's and Archives' properties).
CopiesAreThere ==
  /\ part = "startup" => Together
  /\ part = "archives" => Local!KeepsTheNewest

\* The password of the first administrator can be read until he has changed it, and the
\* key of the sessions is not lost (FirstRun).
FirstRunOpens == []Setup!CredentialsOpen /\ Setup!KeyKept

\* What is said to be there is there: the archive that a destination is told to have, the
\* picture that a row names, what the manifest of an archive declares (CloudCopies, Media).
FilesAreThere ==
  /\ part = "cloud" => Cloud!SyncedIsCopied
  /\ part = "pictures" => Pictures!RowHasItsFile /\ Pictures!PublishedIsWhole

\* A stop reaches whom it is meant for, and is told when it has taken place; a crash of
\* the service is told as one (StopRequest and ServiceHost).
StopsAreTold ==
  /\ part = "stop" => Stopping!OldRequestsDoNotStop /\ Stopping!ToldIsStopped
  /\ part = "service" => Service!CrashIsReported

----------------------------------------------------------------------------------
(* The deployment: what an activation that nobody crosses finds and leaves         *)

Placing ==
  Server!Inside \cup Server!Ended \cup {"new", "lock", "write", "read", "steal", "relock"}
Executables == Server!Versions \cup {Server!None}
Runs == [at : Placing, found : Executables, left : Executables,
         outcome : {"none", "activated", "failed"}, crossed : BOOLEAN]

\* A run that installs version v and found version f: f is the active executable, or the
\* previous one and then the run goes back only from where it can.
Position(step, f, v) ==
  /\ step \in {"stop", "swap"} => active = f /\ previousExe = f
  /\ step = "start" => active = v /\ previousExe = f /\ service = "stopped"
  /\ step \in {"undo stop", "undo swap"} =>
       previousExe = f /\ (active = f \/ service = "stopped")
  /\ step = "undo start" => active = f
Undisturbed(x, v) == Position(x.at, x.found, v)
Reports(x, v) ==
  /\ x.outcome = "activated" => x.left = v
  /\ x.outcome = "failed" /\ x.found # Server!None => x.left = x.found

Consistent(a) ==
  /\ agent[a].at \in Server!Activating => agent[a].found # Server!None
  /\ agent[a].at \notin Server!Ended \cup {"activated", "failed"} => agent[a].outcome = "none"
  /\ ~agent[a].crossed => Undisturbed(agent[a], Target[a]) /\ Reports(agent[a], Target[a])

DeployedInv ==
  /\ active \in Server!Versions /\ previousExe \in Server!Versions \cup {Server!None}
  /\ agent \in [Agents -> Runs]
  /\ \A a \in Agents : Consistent(a)

LEMMA NoneIsNoVersion == Server!None \notin Server!Versions
BY HostAssumption DEF Server!DeploymentConstants

LEMMA TargetsAreVersions == \A a \in Agents : Target[a] \in Server!Versions
BY DEF Server!Versions

LEMMA DeployedInit == Server!Init => DeployedInv
<1> SUFFICES ASSUME Server!Init PROVE DeployedInv
  OBVIOUS
<1>1. active \in Server!Versions /\ previousExe \in Server!Versions \cup {Server!None}
  BY DEF Server!Init, Server!Versions
<1>2. ASSUME NEW a \in Agents
      PROVE  agent[a] \in Runs /\ agent[a].at = "new" /\ agent[a].outcome = "none"
  BY <1>2 DEF Server!Init, Runs, Executables, Placing
<1>3. agent \in [Agents -> Runs]
  BY <1>2 DEF Server!Init
<1>4. ASSUME NEW a \in Agents PROVE Consistent(a)
  BY <1>2 DEF Consistent, Undisturbed, Position, Reports, Server!Activating, Server!Ended
<1> QED
  BY <1>1, <1>3, <1>4 DEF DeployedInv

\* What a step does to the runs of the others, and to one that only goes on.
SameRun(x, y) == y.at = x.at /\ y.found = x.found /\ y.left = x.left /\ y.outcome = x.outcome
Aside(b) ==
  /\ agent'[b] \in Runs /\ SameRun(agent[b], agent'[b])
  /\ ~agent'[b].crossed => ~agent[b].crossed /\ agent[b].at \notin Server!Activating
GoesOn(a, place) ==
  /\ agent'[a] \in Runs
  /\ agent'[a].at = place /\ agent'[a].found = agent[a].found
  /\ agent'[a].left = agent[a].left /\ agent'[a].outcome = agent[a].outcome
  /\ ~agent'[a].crossed => ~agent[a].crossed

LEMMA AsideConsistent ==
  ASSUME NEW b \in Agents, Consistent(b), Aside(b)
  PROVE  Consistent(b)'
BY DEF Consistent, Aside, SameRun, Undisturbed, Position, Reports, Server!Activating

LEMMA GoesMoves ==
  ASSUME agent \in [Agents -> Runs], NEW a \in Agents, NEW place \in Placing,
         Server!Goes(a, place)
  PROVE  /\ agent' \in [Agents -> Runs]
         /\ GoesOn(a, place)
         /\ \A b \in Agents \ {a} : agent'[b] = agent[b]
<1>1. [agent[a] EXCEPT !.at = place] \in Runs
  BY DEF Runs, Executables
<1>2. agent' = [agent EXCEPT ![a] = [agent[a] EXCEPT !.at = place]]
  BY DEF Server!Goes
<1>3. /\ agent'[a] = [agent[a] EXCEPT !.at = place]
      /\ \A b \in Agents \ {a} : agent'[b] = agent[b]
  BY <1>2
<1>4. GoesOn(a, place)
  BY <1>1, <1>3 DEF GoesOn, Runs, Executables
<1>5. agent' \in [Agents -> Runs]
  BY <1>1, <1>2
<1> QED
  BY <1>3, <1>4, <1>5

LEMMA CrossingRuns ==
  ASSUME agent \in [Agents -> Runs], NEW by
  PROVE  /\ Server!Crossing(by) \in [Agents -> Runs]
         /\ \A b \in Agents :
              /\ SameRun(agent[b], Server!Crossing(by)[b])
              /\ b # by /\ agent[b].at \in Server!Activating => Server!Crossing(by)[b].crossed
              /\ ~Server!Crossing(by)[b].crossed => ~agent[b].crossed
              /\ b = by => Server!Crossing(by)[b] = agent[b]
<1>1. ASSUME NEW x \in Runs
      PROVE  /\ [x EXCEPT !.crossed = TRUE] \in Runs /\ SameRun(x, [x EXCEPT !.crossed = TRUE])
             /\ [x EXCEPT !.crossed = TRUE].crossed /\ SameRun(x, x)
  BY DEF Runs, Executables, SameRun
<1>2. ASSUME NEW b \in Agents
      PROVE  Server!Crossing(by)[b] = IF b # by /\ agent[b].at \in Server!Activating
                                      THEN [agent[b] EXCEPT !.crossed = TRUE] ELSE agent[b]
  BY DEF Server!Crossing
<1>3. ASSUME NEW b \in Agents
      PROVE  /\ Server!Crossing(by)[b] \in Runs /\ SameRun(agent[b], Server!Crossing(by)[b])
             /\ b # by /\ agent[b].at \in Server!Activating => Server!Crossing(by)[b].crossed
             /\ ~Server!Crossing(by)[b].crossed => ~agent[b].crossed
             /\ b = by => Server!Crossing(by)[b] = agent[b]
  <2>1. agent[b] \in Runs
    OBVIOUS
  <2>2. CASE b # by /\ agent[b].at \in Server!Activating
    <3>1. Server!Crossing(by)[b] = [agent[b] EXCEPT !.crossed = TRUE]
      BY <1>2, <2>2
    <3> QED
      BY <1>1, <2>1, <2>2, <3>1
  <2>3. CASE ~(b # by /\ agent[b].at \in Server!Activating)
    <3>1. Server!Crossing(by)[b] = agent[b]
      BY <1>2, <2>3
    <3> QED
      BY <1>1, <2>1, <2>3, <3>1
  <2> QED
    BY <2>2, <2>3
<1>4. Server!Crossing(by) \in [Agents -> Runs]
  BY <1>3 DEF Server!Crossing
<1> QED
  BY <1>3, <1>4

LEMMA CrossingAside ==
  ASSUME agent \in [Agents -> Runs], NEW by, NEW b \in Agents \ {by},
         agent'[b] = Server!Crossing(by)[b]
  PROVE  Aside(b)
BY CrossingRuns DEF Aside

\* A run that acts for itself: what it reports, if it ends with this.
ActsOn(a, place) ==
  /\ agent'[a] \in Runs
  /\ agent'[a].at = place /\ agent'[a].found = agent[a].found
  /\ agent'[a].outcome = IF place \in {"activated", "failed"} THEN place ELSE agent[a].outcome
  /\ agent'[a].left = IF place \in {"activated", "failed"} THEN active' ELSE agent[a].left
  /\ ~agent'[a].crossed => ~agent[a].crossed

LEMMA ActsMoves ==
  ASSUME agent \in [Agents -> Runs], NEW a \in Agents, NEW place \in Placing,
         active' \in Server!Versions, Server!Acts(a, place)
  PROVE  /\ agent' \in [Agents -> Runs]
         /\ ActsOn(a, place)
         /\ \A b \in Agents \ {a} : Aside(b)
<1> DEFINE near == \E b \in Agents \ {a} : agent[b].at \in Server!Activating
           C == Server!Crossing(a)
           x == [C[a] EXCEPT
                  !.at = place,
                  !.outcome = IF place \in {"activated", "failed"} THEN place ELSE @,
                  !.left = IF place \in {"activated", "failed"} THEN active' ELSE @,
                  !.crossed = @ \/ near]
<1>1. C \in [Agents -> Runs] /\ C[a] = agent[a] /\ agent[a] \in Runs
  BY CrossingRuns
<1>2. agent' = [C EXCEPT ![a] = x]
  BY DEF Server!Acts
<1> HIDE DEF near, C
<1>3. x = [agent[a] EXCEPT
            !.at = place,
            !.outcome = IF place \in {"activated", "failed"} THEN place ELSE agent[a].outcome,
            !.left = IF place \in {"activated", "failed"} THEN active' ELSE agent[a].left,
            !.crossed = agent[a].crossed \/ near]
  BY <1>1
<1>4. /\ x \in Runs /\ x.at = place /\ x.found = agent[a].found
      /\ x.outcome = IF place \in {"activated", "failed"} THEN place ELSE agent[a].outcome
      /\ x.left = IF place \in {"activated", "failed"} THEN active' ELSE agent[a].left
      /\ ~x.crossed => ~agent[a].crossed
  BY <1>1, <1>3 DEF Runs, Executables
<1> HIDE DEF x
<1>5. agent'[a] = x /\ \A b \in Agents \ {a} : agent'[b] = C[b]
  BY <1>1, <1>2
<1>6. agent' \in [Agents -> Runs]
  BY <1>1, <1>2, <1>4
<1>7. ActsOn(a, place)
  BY <1>4, <1>5 DEF ActsOn
<1>8. \A b \in Agents \ {a} : Aside(b)
  BY <1>5, CrossingAside DEF C
<1> QED
  BY <1>6, <1>7, <1>8

\* A run that goes on outside the activation.
LEMMA GoesStep ==
  ASSUME DeployedInv, NEW a \in Agents, NEW place \in Placing \ Server!Activating,
         Server!Goes(a, place),
         UNCHANGED <<active, previousExe, service>>,
         agent[a].outcome = "none" \/ place \in Server!Ended
  PROVE  DeployedInv'
<1>1. /\ agent' \in [Agents -> Runs] /\ GoesOn(a, place)
      /\ \A b \in Agents \ {a} : agent'[b] = agent[b]
  BY GoesMoves DEF DeployedInv
<1>2. Consistent(a)'
  BY <1>1
  DEF DeployedInv, Consistent, GoesOn, Undisturbed, Position, Reports, Server!Activating
<1>3. ASSUME NEW b \in Agents \ {a} PROVE Consistent(b)'
  BY <1>1 DEF DeployedInv, Consistent, Undisturbed, Position, Reports
<1> QED
  BY <1>1, <1>2, <1>3 DEF DeployedInv

LEMMA OutsideStep ==
  ASSUME DeployedInv, NEW a \in Agents,
         \/ Server!Begin(a) \/ Server!CreateLock(a) \/ Server!WritePid(a)
         \/ Server!ReadLock(a) \/ Server!StealLock(a)
         \/ Server!Leave(a) \/ Server!Kill(a) \/ Server!Download(a) \/ Server!Stage(a)
  PROVE  DeployedInv'
<1> DEFINE Still == UNCHANGED <<active, previousExe, service>>
<1>1. Consistent(a) /\ agent[a].at \in Placing
  BY DEF DeployedInv, Runs, Executables
<1>2. CASE Server!Begin(a)
  <2>1. Still /\ agent[a].outcome = "none"
    BY <1>1, <1>2 DEF Server!Begin, Consistent, Server!files, Server!Ended
  <2>2. PICK place \in {"stage", "lock"} : Server!Goes(a, place)
    BY <1>2 DEF Server!Begin
  <2> QED
    BY <2>1, <2>2, GoesStep DEF Placing, Server!Inside, Server!Activating
<1>3. CASE Server!CreateLock(a)
  <2>1. Still /\ agent[a].outcome = "none"
    BY <1>1, <1>3 DEF Server!CreateLock, Consistent, Server!files, Server!Ended
  <2>2. PICK place \in {"write", "read", "blocked"} : Server!Goes(a, place)
    BY <1>3 DEF Server!CreateLock
  <2> QED
    BY <2>1, <2>2, GoesStep DEF Placing, Server!Inside, Server!Activating, Server!Ended
<1>4. CASE Server!WritePid(a)
  <2>1. Still /\ agent[a].outcome = "none" /\ Server!Goes(a, "download")
    BY <1>1, <1>4 DEF Server!WritePid, Consistent, Server!files, Server!Ended
  <2> QED
    BY <2>1, GoesStep DEF Placing, Server!Inside, Server!Activating
<1>5. CASE Server!ReadLock(a)
  <2>1. Still /\ agent[a].outcome = "none"
    BY <1>1, <1>5 DEF Server!ReadLock, Consistent, Server!files, Server!Ended
  <2>2. PICK place \in {"steal", "blocked"} : Server!Goes(a, place)
    BY <1>5 DEF Server!ReadLock
  <2> QED
    BY <2>1, <2>2, GoesStep DEF Placing, Server!Inside, Server!Activating, Server!Ended
<1>6. CASE Server!StealLock(a)
  <2>1. Still /\ agent[a].outcome = "none"
    BY <1>1, <1>6 DEF Server!StealLock, Consistent, Server!files, Server!Ended
  <2>2. PICK place \in {"relock", "blocked"} : Server!Goes(a, place)
    BY <1>6 DEF Server!StealLock
  <2> QED
    BY <2>1, <2>2, GoesStep DEF Placing, Server!Inside, Server!Activating, Server!Ended
<1>7. CASE Server!Leave(a)
  <2>1. Still /\ Server!Goes(a, "over")
    BY <1>7 DEF Server!Leave, Server!files
  <2> QED
    BY <2>1, GoesStep DEF Placing, Server!Inside, Server!Activating, Server!Ended
<1>8. CASE Server!Kill(a)
  <2>1. Still /\ Server!Goes(a, "killed")
    BY <1>8 DEF Server!Kill, Server!files
  <2> QED
    BY <2>1, GoesStep DEF Placing, Server!Inside, Server!Activating, Server!Ended
<1>9. CASE Server!Download(a)
  <2>1. Still /\ agent[a].outcome = "none"
    BY <1>1, <1>9 DEF Server!Download, Consistent, Server!files, Server!Ended
  <2>2. PICK place \in {"stage", "failed"} : Server!Goes(a, place)
    BY <1>9 DEF Server!Download
  <2> QED
    BY <2>1, <2>2, GoesStep DEF Placing, Server!Inside, Server!Activating
<1>10. CASE Server!Stage(a)
  <2>1. Still /\ agent[a].outcome = "none"
    BY <1>1, <1>10 DEF Server!Stage, Consistent, Server!Ended
  <2>2. PICK place \in {"keep", "failed"} : Server!Goes(a, place)
    BY <1>10 DEF Server!Stage
  <2> QED
    BY <2>1, <2>2, GoesStep DEF Placing, Server!Inside, Server!Activating
<1> QED
  BY <1>2, <1>3, <1>4, <1>5, <1>6, <1>7, <1>8, <1>9, <1>10

LEMMA KeepStep ==
  ASSUME DeployedInv, NEW a \in Agents, Server!KeepPrevious(a) PROVE DeployedInv'
<1> DEFINE x == [agent[a] EXCEPT !.at = "stop", !.found = active]
<1>1. Server!Crossing(a) \in [Agents -> Runs] /\ Server!Crossing(a)[a] = agent[a]
  BY CrossingRuns DEF DeployedInv
<1>2. agent' = [Server!Crossing(a) EXCEPT ![a] = [@ EXCEPT !.at = "stop", !.found = active]]
  BY DEF Server!KeepPrevious
<1>3. /\ x \in Runs /\ x.at = "stop" /\ x.found = active /\ x.outcome = agent[a].outcome
  BY DEF DeployedInv, Runs, Executables, Placing, Server!Inside, Server!Activating
<1>4. agent' = [Server!Crossing(a) EXCEPT ![a] = x]
  BY <1>1, <1>2
<1> HIDE DEF x
<1>5. agent' \in [Agents -> Runs] /\ agent'[a] = x
  BY <1>1, <1>3, <1>4
<1>6. ASSUME NEW b \in Agents \ {a} PROVE Consistent(b)'
  <2>1. agent'[b] = Server!Crossing(a)[b]
    BY <1>1, <1>4
  <2>2. Aside(b) /\ Consistent(b)
    BY <2>1, CrossingAside DEF DeployedInv
  <2> QED
    BY <2>2, AsideConsistent
<1>7. /\ active' = active /\ active \in Server!Versions
      /\ previousExe' = active /\ active # Server!None
      /\ agent[a].outcome = "none"
  BY NoneIsNoVersion
  DEF Server!KeepPrevious, Server!Kept, DeployedInv, Consistent, Server!Ended
<1>8. Consistent(a)'
  BY <1>3, <1>5, <1>7 DEF Consistent, Undisturbed, Position, Reports, Server!Ended
<1> QED
  BY <1>5, <1>6, <1>7, <1>8 DEF DeployedInv

\* A run that is in the activation acts on the files or the service.
LEMMA ActsStep ==
  ASSUME DeployedInv, NEW a \in Agents,
         NEW place \in Server!Activating \cup {"activated", "failed"},
         NEW f, f = agent[a].found,
         agent[a].at \in Server!Activating, active' \in Server!Versions,
         previousExe' \in Server!Versions \cup {Server!None}, Server!Acts(a, place),
         ~agent[a].crossed =>
           /\ Position(place, f, Target[a])'
           /\ place = "activated" => active' = Target[a]
           /\ place = "failed" => active' = f
  PROVE  DeployedInv'
<1>1. /\ agent' \in [Agents -> Runs] /\ ActsOn(a, place)
      /\ \A b \in Agents \ {a} : Aside(b)
  BY ActsMoves DEF DeployedInv, Placing, Server!Inside
<1>2. ASSUME NEW b \in Agents \ {a} PROVE Consistent(b)'
  BY <1>1, AsideConsistent DEF DeployedInv
<1>3. Consistent(a) /\ agent[a].outcome = "none" /\ f # Server!None
  BY DEF DeployedInv, Consistent, Server!Activating, Server!Ended
<1>4. (agent[a].at \in Server!Activating => agent[a].found # Server!None)'
  BY <1>1, <1>3 DEF ActsOn
<1>5. (agent[a].at \notin Server!Ended \cup {"activated", "failed"} =>
         agent[a].outcome = "none")'
  BY <1>1, <1>3 DEF ActsOn
<1>6. (~agent[a].crossed => Undisturbed(agent[a], Target[a]) /\ Reports(agent[a], Target[a]))'
  BY <1>1, <1>3 DEF ActsOn, Undisturbed, Reports
<1>7. Consistent(a)'
  BY <1>4, <1>5, <1>6 DEF Consistent
<1> QED
  BY <1>1, <1>2, <1>7 DEF DeployedInv

LEMMA ActivationStep ==
  ASSUME DeployedInv, NEW a \in Agents,
         \/ Server!StopService(a, "stop", "swap") \/ Server!Swap(a) \/ Server!StartService(a)
         \/ Server!StopService(a, "undo stop", "undo swap")
         \/ Server!UndoSwap(a) \/ Server!UndoStart(a)
  PROVE  DeployedInv'
<1> DEFINE f == agent[a].found
           Before == ~agent[a].crossed => Position(agent[a].at, f, Target[a])
<1>1. PICK g : g = f
  OBVIOUS
<1>2. /\ active \in Server!Versions
      /\ previousExe \in Server!Versions \cup {Server!None}
      /\ g \in Server!Versions \cup {Server!None}
      /\ agent[a].at \in Server!Activating => g # Server!None
      /\ ~agent[a].crossed => Position(agent[a].at, g, Target[a])
  BY <1>1 DEF DeployedInv, Consistent, Runs, Executables, Undisturbed
<1>3. CASE Server!StopService(a, "stop", "swap")
  <2>1. agent[a].at = "stop" /\ UNCHANGED <<active, previousExe>> /\ Server!Acts(a, "swap")
    BY <1>3 DEF Server!StopService, Server!files
  <2>2. ~agent[a].crossed => Position("swap", g, Target[a])'
    BY <1>2, <2>1 DEF Position
  <2> QED
    BY <1>1, <1>2, <2>1, <2>2, ActsStep DEF Server!Activating
<1>4. CASE Server!StopService(a, "undo stop", "undo swap")
  <2>1. /\ agent[a].at = "undo stop"
        /\ UNCHANGED <<active, previousExe>> /\ Server!Acts(a, "undo swap")
        /\ service = "stopped" => service' = "stopped"
    BY <1>4 DEF Server!StopService, Server!files, Server!AskedToStop
  <2>2. ~agent[a].crossed => Position("undo swap", g, Target[a])'
    BY <1>2, <2>1 DEF Position
  <2> QED
    BY <1>1, <1>2, <2>1, <2>2, ActsStep DEF Server!Activating
<1>5. CASE Server!Swap(a)
  <2>1. agent[a].at = "swap" /\ previousExe' = previousExe /\ service' = service
    BY <1>5 DEF Server!Swap
  <2>2. CASE Server!Free /\ Target[a] \in staged
    <3>1. active' = Target[a] /\ Server!Acts(a, "start")
      BY <1>5, <2>2 DEF Server!Swap
    <3>2. ~agent[a].crossed => Position("start", g, Target[a])'
      BY <1>2, <2>1, <2>2, <3>1 DEF Position, Server!Free
    <3> QED
      BY <1>1, <1>2, <2>1, <3>1, <3>2, ActsStep, TargetsAreVersions DEF Server!Activating
  <2>3. CASE ~(Server!Free /\ Target[a] \in staged)
    <3>1. /\ active' = active
          /\ Server!Acts(a, IF previousExe # Server!None THEN "undo stop" ELSE "failed")
      BY <1>5, <2>3 DEF Server!Swap
    <3>2. PICK place \in {"undo stop", "failed"} :
            place = IF previousExe # Server!None THEN "undo stop" ELSE "failed"
      OBVIOUS
    <3>3. ~agent[a].crossed => Position(place, g, Target[a])' /\ active' = g
      BY <1>2, <2>1, <3>1, <3>2 DEF Position, Server!Activating
    <3> QED
      BY <1>1, <1>2, <2>1, <3>1, <3>2, <3>3, ActsStep DEF Server!Activating
  <2> QED
    BY <2>2, <2>3
<1>6. CASE Server!StartService(a)
  <2>1. agent[a].at = "start" /\ UNCHANGED <<active, previousExe>>
    BY <1>6 DEF Server!StartService, Server!files
  <2>2. CASE Server!Acts(a, "activated")
    <3>1. ~agent[a].crossed => Position("activated", g, Target[a])' /\ active' = Target[a]
      BY <1>2, <2>1 DEF Position
    <3> QED
      BY <1>1, <1>2, <2>1, <2>2, <3>1, ActsStep DEF Server!Activating
  <2>3. CASE /\ Server!Starts(FALSE)
             /\ Server!Acts(a, IF previousExe # Server!None THEN "undo stop" ELSE "failed")
    <3>1. service' = service
      BY <2>3 DEF Server!Starts
    <3>2. PICK place \in {"undo stop", "failed"} :
            place = IF previousExe # Server!None THEN "undo stop" ELSE "failed"
      OBVIOUS
    <3>3. ~agent[a].crossed => Position(place, g, Target[a])' /\ place # "failed"
      BY <1>2, <2>1, <3>1, <3>2 DEF Position, Server!Activating
    <3> QED
      BY <1>1, <1>2, <2>1, <2>3, <3>2, <3>3, ActsStep DEF Server!Activating
  <2> QED
    BY <1>6, <2>2, <2>3 DEF Server!StartService
<1>7. CASE Server!UndoSwap(a)
  <2>1. agent[a].at = "undo swap" /\ service' = service
    BY <1>7 DEF Server!UndoSwap
  <2>2. CASE Server!Free /\ previousExe # Server!None
    <3>1. active' = previousExe /\ previousExe' = Server!None /\ Server!Acts(a, "undo start")
      BY <1>7, <2>2 DEF Server!UndoSwap
    <3>2. ~agent[a].crossed => Position("undo start", g, Target[a])'
      BY <1>2, <2>1, <3>1 DEF Position
    <3> QED
      BY <1>1, <1>2, <2>1, <2>2, <3>1, <3>2, ActsStep DEF Server!Activating
  <2>3. CASE ~(Server!Free /\ previousExe # Server!None)
    <3>1. UNCHANGED <<active, previousExe>> /\ Server!Acts(a, "failed")
      BY <1>7, <2>3 DEF Server!UndoSwap
    <3>2. ~agent[a].crossed => Position("failed", g, Target[a])' /\ active' = g
      BY <1>2, <2>1, <2>3, <3>1 DEF Position, Server!Free, Server!Activating
    <3> QED
      BY <1>1, <1>2, <2>1, <3>1, <3>2, ActsStep DEF Server!Activating
  <2> QED
    BY <2>2, <2>3
<1>8. CASE Server!UndoStart(a)
  <2>1. /\ agent[a].at = "undo start" /\ UNCHANGED <<active, previousExe>>
        /\ Server!Acts(a, "failed")
    BY <1>8 DEF Server!UndoStart, Server!files
  <2>2. ~agent[a].crossed => Position("failed", g, Target[a])' /\ active' = g
    BY <1>2, <2>1 DEF Position
  <2> QED
    BY <1>1, <1>2, <2>1, <2>2, ActsStep DEF Server!Activating
<1> QED
  BY <1>3, <1>4, <1>5, <1>6, <1>7, <1>8

\* The service and its auto-healer.
LEMMA ServiceStep ==
  ASSUME DeployedInv, Server!StopCompletes \/ Server!ServiceDies \/ Server!Heal
  PROVE  DeployedInv'
<1>1. CASE Server!StopCompletes \/ Server!ServiceDies
  <2>1. UNCHANGED <<active, previousExe, agent>> /\ service' = "stopped"
    BY <1>1 DEF Server!StopCompletes, Server!ServiceDies, Server!files
  <2> QED
    BY <2>1 DEF DeployedInv, Consistent, Undisturbed, Position, Reports
<1>2. CASE Server!ProbeWell \/ Server!ProbeIll
  <2>1. UNCHANGED <<active, previousExe, service, agent>>
    BY <1>2 DEF Server!ProbeWell, Server!ProbeIll, Server!files
  <2> QED
    BY <2>1 DEF DeployedInv, Consistent, Undisturbed, Position, Reports
<1>3. CASE Server!HealerStops \/ Server!HealerStarts
  <2>1. /\ UNCHANGED <<active, previousExe>>
        /\ agent' = Server!Crossing(NoLock) /\ NoLock \notin Agents
    BY <1>3, HostAssumption
    DEF Server!HealerStops, Server!HealerStarts, Server!files, Server!DeploymentConstants
  <2>2. agent' \in [Agents -> Runs]
    BY <2>1, CrossingRuns DEF DeployedInv
  <2>3. ASSUME NEW b \in Agents PROVE Consistent(b)'
    BY <2>1, CrossingAside, AsideConsistent DEF DeployedInv
  <2> QED
    BY <2>1, <2>2, <2>3 DEF DeployedInv
<1> QED
  BY <1>1, <1>2, <1>3 DEF Server!Heal

LEMMA DeployedStep == DeployedInv /\ [Server!Next]_Server!vars => DeployedInv'
<1> SUFFICES ASSUME DeployedInv, [Server!Next]_Server!vars PROVE DeployedInv'
  OBVIOUS
<1>1. CASE UNCHANGED Server!vars
  BY <1>1
  DEF Server!vars, Server!files, DeployedInv, Consistent, Undisturbed, Position, Reports
<1>2. CASE Server!Next
  <2>1. ASSUME NEW a \in Agents,
               \/ Server!Begin(a) \/ Server!CreateLock(a) \/ Server!WritePid(a)
               \/ Server!ReadLock(a) \/ Server!StealLock(a)
               \/ Server!Leave(a) \/ Server!Kill(a) \/ Server!Activate(a)
        PROVE  DeployedInv'
    BY <2>1, OutsideStep, KeepStep, ActivationStep DEF Server!Activate
  <2> QED
    BY <1>2, <2>1, ServiceStep DEF Server!Next
<1> QED
  BY <1>1, <1>2

LEMMA DeployedOutcome == DeployedInv => Server!OutcomeIsTrue
BY DEF DeployedInv, Consistent, Reports, Server!OutcomeIsTrue

----------------------------------------------------------------------------------
(* The client's tree: where the last whole one is, at each step of an update        *)

Earlier == \E u \in Client!Updates : u < update /\ before \in {previous[u], backup[u]}
Held ==
  before = Client!NoTree \/ (update \in Client!Updates /\ backup[update] = before) \/ Earlier

\* Until the backup of this update is made, the last whole tree is installed or is what an
\* earlier update kept; then it is in that backup, which only the next update leaves behind.
ClientInv ==
  /\ DOMAIN previous = Client!Updates /\ DOMAIN backup = Client!Updates
  /\ update \in 0..MaxUpdates /\ at \in Client!Steps \cup {"idle"}
  /\ at # "idle" => update \in Client!Updates
  /\ at \in {"package", "backup"} =>
       (install.is = "whole" /\ install = before) \/ before = Client!NoTree \/ Earlier
  /\ at = "idle" => install.is = "whole" \/ Held
  /\ at \in Client!Steps \ {"package", "backup"} => Held

LEMMA ClientInit == Client!Init => ClientInv
BY HostAssumption DEF Client!Init, ClientInv, Held, Client!Updates, Client!Steps, Client!NoTree

\* Who changes only what this update has set aside, or what is installed, keeps the copies.
LEMMA CopiesKept ==
  ASSUME ClientInv, update' = update, before' = before, update \in Client!Updates,
         \A u \in Client!Updates :
           u < update => previous'[u] = previous[u] /\ backup'[u] = backup[u]
  PROVE  /\ Earlier => Earlier'
         /\ backup' = backup /\ Held => Held'
BY DEF Earlier, Held

LEMMA ClientStep == ClientInv /\ [Client!Next]_Client!vars => ClientInv'
<1> SUFFICES ASSUME ClientInv, [Client!Next]_Client!vars PROVE ClientInv'
  OBVIOUS
<1>1. CASE UNCHANGED Client!vars
  BY <1>1 DEF Client!vars, ClientInv, Held, Earlier
<1>2. CASE Client!Begin
  <2>1. update \in 0..MaxUpdates /\ update' = update + 1 /\ update' \in Client!Updates
        /\ UNCHANGED <<install, previous, backup>> /\ at = "idle" /\ at' = "package"
    BY <1>2, HostAssumption DEF Client!Begin, ClientInv, Client!Updates
  <2>2. CASE install.is = "whole"
    <3>1. before' = install
      BY <1>2, <2>2 DEF Client!Begin
    <3> QED
      BY <2>1, <2>2, <3>1 DEF ClientInv, Client!Updates, Client!Steps
  <2>3. CASE install.is # "whole"
    <3>1. before' = before /\ Held
      BY <1>2, <2>1, <2>3 DEF Client!Begin, ClientInv
    <3>2. before' = Client!NoTree \/ Earlier'
      BY <2>1, <3>1 DEF Held, Earlier, Client!Updates
    <3> QED
      BY <2>1, <3>2 DEF ClientInv, Client!Updates, Client!Steps
  <2> QED
    BY <2>2, <2>3
<1>3. CASE Client!Package
  BY <1>3
  DEF Client!Package, Client!Go, Client!Report, Client!Ends, ClientInv, Held, Earlier,
      Client!Steps
<1>4. CASE Client!BackUp /\ UNCHANGED <<install, previous, update, before>>
  <2>1. at = "backup" /\ update \in Client!Updates
    BY <1>4 DEF Client!BackUp, Client!Go, Client!Report, Client!Ends, ClientInv
  <2>2. CASE Client!Go("backup", "set aside") /\ backup' = [backup EXCEPT ![update] = install]
    <3>1. /\ DOMAIN backup' = Client!Updates /\ backup'[update] = install
          /\ \A u \in Client!Updates : u < update => backup'[u] = backup[u]
      <4>1. DOMAIN backup = Client!Updates /\ update \in DOMAIN backup
        BY <2>1 DEF ClientInv
      <4>2. DOMAIN backup' = Client!Updates /\ backup'[update] = install
        BY <2>2, <4>1
      <4>3. \A u \in Client!Updates : u < update => backup'[u] = backup[u]
        <5> SUFFICES ASSUME NEW u \in Client!Updates, u < update PROVE backup'[u] = backup[u]
          OBVIOUS
        <5>1. u # update /\ u \in DOMAIN backup
          BY <2>1, <4>1, HostAssumption DEF Client!Updates
        <5> QED
          BY <2>2, <5>1
      <4> QED
        BY <4>2, <4>3
    <3>2. Held'
      BY <1>4, <2>1, <3>1 DEF ClientInv, Held, Earlier
    <3> QED
      BY <1>4, <2>1, <2>2, <3>1, <3>2 DEF ClientInv, Client!Go, Client!Steps
  <2>3. CASE /\ Client!Report("backup", "refused") \/ Client!Ends("backup")
             /\ backup' \in {backup, [backup EXCEPT ![update] = Client!PartOf(install)]}
    <3>1. /\ DOMAIN backup' = Client!Updates
          /\ \A u \in Client!Updates : u < update => backup'[u] = backup[u]
      BY <2>1, <2>3, HostAssumption DEF ClientInv, Client!Updates
    <3>2. install'.is = "whole" \/ Held'
      BY <1>4, <2>1, <3>1 DEF ClientInv, Held, Earlier
    <3>3. at' = "idle"
      BY <2>3 DEF Client!Report, Client!Ends, Client!Go
    <3> QED
      BY <1>4, <2>1, <3>1, <3>2, <3>3 DEF ClientInv, Client!Steps
  <2> QED
    BY <1>4, <2>2, <2>3 DEF Client!BackUp
<1>5. ASSUME \/ Client!SetAside \/ Client!Install \/ Client!RemovePrevious \/ Client!Mark
             \/ Client!UndoInstall
             \/ ((Client!MoveBack \/ Client!CopyBack) /\ UNCHANGED <<backup, update, before>>)
      PROVE  ClientInv'
  <2>1. /\ at \in Client!Steps \ {"package", "backup"}
        /\ UNCHANGED <<backup, update, before>>
        /\ previous' = previous \/ \E t : previous' = [previous EXCEPT ![update] = t]
    BY <1>5
    DEF Client!SetAside, Client!Install, Client!RemovePrevious, Client!Mark,
        Client!UndoInstall, Client!MoveBack, Client!CopyBack,
       Client!Go, Client!Report, Client!Ends, Client!Breaks, Client!GivesUp, Client!Steps
  <2>2. at' \in {"set aside", "install", "remove", "mark", "undo", "restore", "idle"}
    BY <1>5
    DEF Client!SetAside, Client!Install, Client!RemovePrevious, Client!Mark,
        Client!UndoInstall, Client!MoveBack, Client!CopyBack,
       Client!Go, Client!Report, Client!Ends, Client!Breaks, Client!GivesUp
  <2>3. update \in Client!Updates /\ Held
    BY <2>1 DEF ClientInv, Client!Steps
  <2>4. /\ DOMAIN previous' = Client!Updates
        /\ \A u \in Client!Updates : u < update => previous'[u] = previous[u]
    BY <2>1, <2>3, HostAssumption DEF ClientInv, Client!Updates
  <2>5. Held'
    BY <2>1, <2>3, <2>4, CopiesKept
  <2> QED
    BY <2>1, <2>2, <2>3, <2>4, <2>5 DEF ClientInv, Client!Steps
<1> QED
  BY <1>1, <1>2, <1>3, <1>4, <1>5 DEF Client!Next

LEMMA ClientReturn == ClientInv => Client!ReturnIsPossible
BY DEF ClientInv, Held, Earlier, Client!ReturnIsPossible, Client!Steps

----------------------------------------------------------------------------------
(* The archives: a call keeps the newest valid ones of its list, and what is made    *)
(* meanwhile is newer than nothing that it has kept                                  *)

LEMMA LeastOf ==
  ASSUME NEW T \in SUBSET Nat, T # {} PROVE \E x \in T : \A y \in T : x <= y
<1>1. PICK x \in T : \A y \in T : ~(<<y, x>> \in OpToRel(<, Nat))
  BY NatLessThanWellFounded, WFMin
<1>2. \A y \in T : ~(y < x)
  BY <1>1 DEF OpToRel
<1> QED
  BY <1>2

\* The newest of a set of archives is the least of its bounds.
LEMMA NewestIs ==
  ASSUME NEW S \in SUBSET Local!Ids, S # {}
  PROVE  Local!Newest(S) \in S /\ \A y \in S : y <= Local!Newest(S)
<1> DEFINE T == {m \in Nat : \A x \in S : x <= m}
<1>1. T \in SUBSET Nat /\ MaxArchives \in T
  BY HostAssumption DEF Local!ArchivesConstants, Local!Ids
<1>2. PICK m \in T : \A n \in T : m <= n
  BY <1>1, LeastOf
<1>3. m \in S
  <2> SUFFICES ASSUME m \notin S PROVE FALSE
    OBVIOUS
  <2>1. \A x \in S : x \in Nat /\ x < m /\ x >= 1
    BY <1>2 DEF Local!Ids
  <2>2. m - 1 \in T
    BY <1>2, <2>1
  <2> QED
    BY <1>2, <2>2
<1> QED
  BY <1>2, <1>3 DEF Local!Newest

\* The valid archives that are newer than all that are left in a list
NewerThan(list) == {b \in made : \A x \in list : b > x}
Newer(a) == {b \in made : b > a}

Turns == [at : Local!Places, own : 0..MaxArchives, list : SUBSET Local!Ids, kept : Nat]
Listed(c) ==
  /\ call[c].at = "publish" => call[c].own \in Local!Ids
  /\ call[c].at \in {"new", "publish", "list", "sort"} => call[c].kept = 0
  /\ call[c].at = "prune" => call[c].kept <= Cardinality(NewerThan(call[c].list))

ArchivesInv ==
  /\ archives \in 0..MaxArchives
  /\ directory \subseteq Local!Ids /\ made \subseteq Local!Ids /\ torn \subseteq directory
  /\ directory \subseteq made \cup torn
  /\ call \in [Calls -> Turns]
  /\ \A c \in Calls : Listed(c)
  /\ \A a \in made \ directory : Cardinality(Newer(a)) >= MAX_BACKUPS_TO_KEEP

LEMMA MadeFinite ==
  ASSUME made \subseteq Local!Ids, NEW S \in SUBSET made
  PROVE  IsFiniteSet(S) /\ Cardinality(S) \in Nat
<1>1. IsFiniteSet(Local!Ids)
  BY FS_Interval, HostAssumption DEF Local!Ids, Local!ArchivesConstants
<1> QED
  BY <1>1, FS_Subset, FS_CardinalityType

LEMMA ArchivesInit == Local!Init => ArchivesInv
<1> SUFFICES ASSUME Local!Init PROVE ArchivesInv
  OBVIOUS
<1>1. ASSUME NEW c \in Calls PROVE Listed(c) /\ call[c] \in Turns
  BY HostAssumption DEF Local!Init, Listed, Turns, Local!Places, Local!ArchivesConstants
<1>2. call \in [Calls -> Turns]
  BY <1>1 DEF Local!Init
<1> QED
  BY <1>1, <1>2, HostAssumption DEF Local!Init, ArchivesInv, Local!ArchivesConstants

LEMMA NowFinite ==
  ASSUME made' \subseteq Local!Ids, NEW S \in SUBSET made'
  PROVE  IsFiniteSet(S) /\ Cardinality(S) \in Nat
<1>1. IsFiniteSet(Local!Ids)
  BY FS_Interval, HostAssumption DEF Local!Ids, Local!ArchivesConstants
<1> QED
  BY <1>1, FS_Subset, FS_CardinalityType

\* More archives are made: no count of newer ones falls.
LEMMA MadeGrows ==
  ASSUME ArchivesInv, made \subseteq made', made' \subseteq Local!Ids
  PROVE  /\ \A c \in Calls : call'[c] = call[c] => Listed(c)'
         /\ \A a \in made : Cardinality(Newer(a)) <= Cardinality(Newer(a)')
<1>0. IsFiniteSet(made')
  <2>1. IsFiniteSet(Local!Ids)
    BY FS_Interval, HostAssumption DEF Local!Ids, Local!ArchivesConstants
  <2> QED
    BY <2>1, FS_Subset
<1>1. ASSUME NEW S \in SUBSET made', NEW T \in SUBSET S
      PROVE  /\ Cardinality(T) \in Nat /\ Cardinality(S) \in Nat
             /\ Cardinality(T) <= Cardinality(S)
  BY <1>0, <1>1, FS_Subset, FS_CardinalityType
<1>2. ASSUME NEW c \in Calls, call'[c] = call[c] PROVE Listed(c)'
  <2>1. PICK l : l = call[c].list
    OBVIOUS
  <2>2. NewerThan(l)' \subseteq made' /\ NewerThan(l) \subseteq NewerThan(l)'
    BY DEF NewerThan
  <2>3. /\ Cardinality(NewerThan(l)) \in Nat /\ Cardinality(NewerThan(l)') \in Nat
        /\ Cardinality(NewerThan(l)) <= Cardinality(NewerThan(l)')
    BY <1>1, <2>2
  <2>4. NewerThan(call[c].list)' = NewerThan(l)' /\ NewerThan(call[c].list) = NewerThan(l)
    BY <1>2, <2>1 DEF NewerThan
  <2>5. call[c].kept \in Nat /\ Listed(c)
    BY DEF ArchivesInv, Turns
  <2> QED
    BY <1>2, <2>3, <2>4, <2>5 DEF Listed
<1>3. ASSUME NEW a \in made PROVE Cardinality(Newer(a)) <= Cardinality(Newer(a)')
  <2>1. Newer(a)' \subseteq made' /\ Newer(a) \subseteq Newer(a)'
    BY DEF Newer
  <2> QED
    BY <1>1, <2>1
<1> QED
  BY <1>2, <1>3

\* What the actions do to a call.
LEMMA CallMoves ==
  ASSUME call \in [Calls -> Turns], NEW c \in Calls, NEW x \in Turns,
         call' = [call EXCEPT ![c] = x]
  PROVE  /\ call' \in [Calls -> Turns] /\ call'[c] = x
         /\ \A d \in Calls \ {c} : call'[d] = call[d]
OBVIOUS

LEMMA AtMoves ==
  ASSUME call \in [Calls -> Turns], NEW c \in Calls, NEW from, NEW to \in Local!Places,
         Local!At(c, from, to)
  PROVE  /\ call' \in [Calls -> Turns]
         /\ \A d \in Calls \ {c} : call'[d] = call[d]
         /\ call[c].at = from /\ call'[c].at = to /\ call'[c].own = call[c].own
         /\ call'[c].list = call[c].list /\ call'[c].kept = call[c].kept
<1>1. [call[c] EXCEPT !.at = to] \in Turns
  BY DEF Turns
<1>2. call' = [call EXCEPT ![c] = [call[c] EXCEPT !.at = to]]
  BY DEF Local!At
<1>3. /\ call' \in [Calls -> Turns] /\ call'[c] = [call[c] EXCEPT !.at = to]
      /\ \A d \in Calls \ {c} : call'[d] = call[d]
  BY <1>1, <1>2, CallMoves
<1> QED
  BY <1>3 DEF Local!At, Turns

\* A step that makes no archive and removes none.
LEMMA StillStep ==
  ASSUME ArchivesInv, NEW c \in Calls, UNCHANGED <<directory, torn, made>>,
         archives' \in 0..MaxArchives, call' \in [Calls -> Turns],
         \A d \in Calls \ {c} : call'[d] = call[d], Listed(c)'
  PROVE  ArchivesInv'
<1>1. ASSUME NEW d \in Calls \ {c} PROVE Listed(d)'
  BY DEF ArchivesInv, Listed, NewerThan
<1>2. (\A a \in made \ directory : Cardinality(Newer(a)) >= MAX_BACKUPS_TO_KEEP)'
  BY DEF ArchivesInv, Newer
<1> QED
  BY <1>1, <1>2 DEF ArchivesInv

\* A step that publishes: more archives are made, and none is removed.
LEMMA GrowsStep ==
  ASSUME ArchivesInv, NEW x \in Local!Ids, torn' \in {torn, torn \cup {x}},
         directory' = directory \cup {x},
         (made' = made /\ x \in torn') \/ (made' = made \cup {x} /\ torn' = torn),
         archives' \in 0..MaxArchives, call' \in [Calls -> Turns],
         NEW K \in SUBSET Calls, \A d \in Calls \ K : call'[d] = call[d],
         \A d \in K : Listed(d)'
  PROVE  ArchivesInv'
<1>1. made \subseteq made' /\ made' \subseteq Local!Ids
  BY DEF ArchivesInv
<1>2. ASSUME NEW d \in Calls PROVE Listed(d)'
  BY <1>1, MadeGrows
<1>3. ASSUME NEW a \in made' \ directory' PROVE Cardinality(Newer(a)') >= MAX_BACKUPS_TO_KEEP
  <2>1. a \in made \ directory
    BY <1>3
  <2>2. Newer(a) \subseteq made /\ Newer(a)' \subseteq made'
    BY DEF Newer
  <2>3. Cardinality(Newer(a)) \in Nat /\ Cardinality(Newer(a)) >= MAX_BACKUPS_TO_KEEP
    BY <2>1, <2>2, MadeFinite DEF ArchivesInv
  <2>4. Cardinality(Newer(a)) <= Cardinality(Newer(a)')
    BY <1>1, <2>1, MadeGrows
  <2>5. Cardinality(Newer(a)') \in Nat
    BY <1>1, <2>2, NowFinite
  <2> QED
    BY <2>3, <2>4, <2>5, HostAssumption DEF Local!ArchivesConstants
<1> QED
  BY <1>1, <1>2, <1>3 DEF ArchivesInv

\* One turn of the loop.  An archive that is kept is newer than all that are left; one
\* that is removed has as many that are newer as are kept.
LEMMA PruneStep ==
  ASSUME ArchivesInv, NEW c \in Calls, Local!Prune(c) PROVE ArchivesInv'
<1>1. PICK l \in SUBSET Local!Ids : l = call[c].list
  BY DEF ArchivesInv, Turns
<1>2. PICK a : a = Local!Newest(l)
  OBVIOUS
<1>3. a \in l /\ a \in Local!Ids /\ \A y \in l : y <= a
  BY <1>1, <1>2, NewestIs DEF Local!Prune
<1>4. PICK k \in Nat : k = call[c].kept
  BY DEF ArchivesInv, Turns
<1>5. /\ k <= Cardinality(NewerThan(l)) /\ call[c].at = "prune"
      /\ UNCHANGED <<torn, archives, made>>
  BY <1>1, <1>4 DEF Local!Prune, ArchivesInv, Listed
<1>6. /\ Cardinality(NewerThan(l)) \in Nat /\ IsFiniteSet(NewerThan(l))
      /\ IsFiniteSet(NewerThan(l \ {a})) /\ Cardinality(NewerThan(l \ {a})) \in Nat
      /\ Cardinality(NewerThan(l)) <= Cardinality(NewerThan(l \ {a}))
  <2>1. NewerThan(l) \subseteq NewerThan(l \ {a}) /\ NewerThan(l \ {a}) \subseteq made
    BY DEF NewerThan
  <2> QED
    BY <2>1, MadeFinite, FS_Subset DEF ArchivesInv
<1>7. ASSUME NEW n \in Nat, Local!Turn(c, n), n <= Cardinality(NewerThan(l \ {a}))
      PROVE  /\ call' \in [Calls -> Turns] /\ Listed(c)'
             /\ \A d \in Calls \ {c} : call'[d] = call[d]
  <2> DEFINE x == [call[c] EXCEPT !.list = l \ {a}, !.kept = n]
  <2>1. call' = [call EXCEPT ![c] = x]
    BY <1>1, <1>2, <1>7 DEF Local!Turn, Local!Candidate
  <2>2. x \in Turns /\ x.at = "prune" /\ x.list = l \ {a} /\ x.kept = n
    BY <1>1, <1>5 DEF ArchivesInv, Turns
  <2> HIDE DEF x
  <2>3. /\ call' \in [Calls -> Turns] /\ call'[c] = x
        /\ \A d \in Calls \ {c} : call'[d] = call[d]
    BY <2>1, <2>2, CallMoves DEF ArchivesInv
  <2>4. NewerThan(call[c].list)' = NewerThan(l \ {a})
    BY <1>5, <2>2, <2>3 DEF NewerThan
  <2>5. Listed(c)'
    BY <1>7, <2>2, <2>3, <2>4 DEF Listed
  <2> QED
    BY <2>3, <2>5
<1>8. CASE a \in directory \ torn /\ Local!Turn(c, k + 1) /\ directory' = directory
  <2>1. a \in made /\ a \notin NewerThan(l)
    BY <1>3, <1>8 DEF ArchivesInv, NewerThan, Local!Ids
  <2>2. NewerThan(l) \cup {a} \subseteq NewerThan(l \ {a})
    <3>1. \A y \in l \ {a} : a > y
      BY <1>3 DEF Local!Ids
    <3> QED
      BY <2>1, <3>1 DEF NewerThan
  <2>3. Cardinality(NewerThan(l)) + 1 <= Cardinality(NewerThan(l \ {a}))
    <3>1. /\ IsFiniteSet(NewerThan(l) \cup {a})
          /\ Cardinality(NewerThan(l) \cup {a}) = Cardinality(NewerThan(l)) + 1
      BY <1>6, <2>1, FS_AddElement
    <3>2. Cardinality(NewerThan(l) \cup {a}) <= Cardinality(NewerThan(l \ {a}))
      BY <1>6, <2>2, FS_Subset
    <3> QED
      BY <3>1, <3>2
  <2>4. k + 1 \in Nat /\ k + 1 <= Cardinality(NewerThan(l \ {a}))
    BY <1>4, <1>5, <1>6, <2>3
  <2> QED
    BY <1>5, <1>7, <1>8, <2>4, StillStep DEF ArchivesInv
<1>9. CASE /\ Local!Turn(c, k)
           /\ \/ directory' = directory
              \/ /\ a \in directory \ torn /\ k >= MAX_BACKUPS_TO_KEEP
                 /\ directory' = directory \ {a}
  <2>1. /\ call' \in [Calls -> Turns] /\ Listed(c)'
        /\ \A d \in Calls \ {c} : call'[d] = call[d]
    BY <1>4, <1>5, <1>6, <1>7, <1>9
  <2>2. CASE directory' = directory
    BY <1>5, <2>1, <2>2, StillStep DEF ArchivesInv
  <2>3. CASE /\ a \in directory \ torn /\ k >= MAX_BACKUPS_TO_KEEP
             /\ directory' = directory \ {a}
    <3>1. NewerThan(l) \subseteq Newer(a) /\ Newer(a) \subseteq made
      BY <1>3 DEF NewerThan, Newer
    <3>2. Cardinality(Newer(a)) >= MAX_BACKUPS_TO_KEEP
      <4>1. /\ Cardinality(Newer(a)) \in Nat
            /\ Cardinality(NewerThan(l)) <= Cardinality(Newer(a))
        BY <3>1, MadeFinite, FS_Subset DEF ArchivesInv
      <4> QED
        BY <1>4, <1>5, <1>6, <2>3, <4>1, HostAssumption DEF Local!ArchivesConstants
    <3>3. (\A b \in made \ directory : Cardinality(Newer(b)) >= MAX_BACKUPS_TO_KEEP)'
      BY <1>5, <2>3, <3>2 DEF ArchivesInv, Newer
    <3>4. ASSUME NEW d \in Calls PROVE Listed(d)'
      BY <1>5, <2>1 DEF ArchivesInv, Listed, NewerThan
    <3> QED
      BY <1>5, <2>1, <2>3, <3>3, <3>4 DEF ArchivesInv
  <2> QED
    BY <1>9, <2>2, <2>3
<1> QED
  BY <1>1, <1>2, <1>4, <1>8, <1>9 DEF Local!Prune, Local!Candidate

LEMMA ArchivesStep ==
  ASSUME ArchivesInv, [Local!Next]_Local!vars PROVE ArchivesInv'
<1>1. CASE UNCHANGED Local!vars
  BY <1>1 DEF Local!vars, ArchivesInv, Listed, NewerThan, Newer
<1>2. ASSUME NEW c \in Calls, Local!WriteArchive(c) PROVE ArchivesInv'
  <2>1. UNCHANGED <<directory, torn, made>> /\ Listed(c)
    BY <1>2 DEF Local!WriteArchive, ArchivesInv
  <2>2. CASE /\ call[c].at = "new" /\ archives < MaxArchives
             /\ archives' = archives + 1
             /\ call' = [call EXCEPT ![c].at = "publish", ![c].own = archives + 1]
    <3> DEFINE x == [call[c] EXCEPT !.at = "publish", !.own = archives + 1]
    <3>1. archives' \in Local!Ids /\ archives' = archives + 1 /\ archives' \in 0..MaxArchives
      BY <2>2, HostAssumption DEF ArchivesInv, Local!Ids, Local!ArchivesConstants
    <3>2. x \in Turns /\ x.at = "publish" /\ x.own \in Local!Ids /\ x.kept = call[c].kept
      BY <3>1, <2>2 DEF ArchivesInv, Turns, Local!Places, Local!Ids
    <3>3. call' = [call EXCEPT ![c] = x]
      BY <2>2
    <3> HIDE DEF x
    <3>4. /\ call' \in [Calls -> Turns] /\ call'[c] = x
          /\ \A d \in Calls \ {c} : call'[d] = call[d]
      BY <3>2, <3>3, CallMoves DEF ArchivesInv
    <3>5. Listed(c)'
      BY <2>1, <2>2, <3>2, <3>4 DEF Listed
    <3> QED
      BY <2>1, <3>1, <3>4, <3>5, StillStep
  <2>3. CASE Local!At(c, "new", "failed") /\ archives' = archives
    <3>1. /\ call' \in [Calls -> Turns] /\ \A d \in Calls \ {c} : call'[d] = call[d]
          /\ call'[c].at = "failed"
      BY <2>3, AtMoves DEF ArchivesInv, Local!Places
    <3>2. Listed(c)'
      BY <3>1 DEF Listed
    <3>3. archives' \in 0..MaxArchives
      BY <2>3 DEF ArchivesInv
    <3> QED
      BY <2>1, <3>1, <3>2, <3>3, StillStep
  <2> QED
    BY <1>2, <2>2, <2>3 DEF Local!WriteArchive
<1>3. ASSUME NEW c \in Calls, Local!Publish(c) PROVE ArchivesInv'
  <2>1. /\ call' \in [Calls -> Turns] /\ \A d \in Calls \ {c} : call'[d] = call[d]
        /\ call[c].at = "publish" /\ call'[c].at = "list" /\ call'[c].kept = call[c].kept
    BY <1>3, AtMoves DEF Local!Publish, ArchivesInv, Local!Places
  <2>2. call[c].own \in Local!Ids /\ Listed(c)'
    BY <2>1 DEF ArchivesInv, Listed
  <2>3. PICK x \in Local!Ids : x = call[c].own
    BY <2>2
  <2>4. /\ directory' = directory \cup {x} /\ made' = made \cup {x} /\ torn' = torn
        /\ archives' \in 0..MaxArchives
    BY <1>3, <2>3 DEF Local!Publish, ArchivesInv
  <2>5. {c} \in SUBSET Calls
    OBVIOUS
  <2> QED
    BY <2>1, <2>2, <2>4, <2>5, GrowsStep
<1>4. ASSUME NEW c \in Calls, Local!ListDirectory(c) PROVE ArchivesInv'
  <2> DEFINE x == [call[c] EXCEPT !.at = "sort", !.list = directory]
  <2>1. /\ x \in Turns /\ x.at = "sort" /\ x.kept = call[c].kept /\ call[c].at = "list"
        /\ call' = [call EXCEPT ![c] = x]
    BY <1>4 DEF Local!ListDirectory, ArchivesInv, Turns, Local!Places
  <2> HIDE DEF x
  <2>2. /\ call' \in [Calls -> Turns] /\ call'[c] = x
        /\ \A d \in Calls \ {c} : call'[d] = call[d]
    BY <2>1, CallMoves DEF ArchivesInv
  <2>3. Listed(c)'
    BY <2>1, <2>2 DEF ArchivesInv, Listed
  <2>4. UNCHANGED <<directory, torn, made>> /\ archives' \in 0..MaxArchives
    BY <1>4 DEF Local!ListDirectory, ArchivesInv
  <2> QED
    BY <2>2, <2>3, <2>4, StillStep
<1>5. ASSUME NEW c \in Calls, Local!Sort(c) PROVE ArchivesInv'
  <2>1. PICK to \in {"prune", "failed"} : Local!At(c, "sort", to)
    BY <1>5 DEF Local!Sort
  <2>2. /\ call' \in [Calls -> Turns] /\ \A d \in Calls \ {c} : call'[d] = call[d]
        /\ call[c].at = "sort" /\ call'[c].at = to /\ call'[c].kept = call[c].kept
        /\ call'[c].list = call[c].list
    BY <2>1, AtMoves DEF ArchivesInv, Local!Places
  <2>3. UNCHANGED <<directory, torn, made>> /\ archives' \in 0..MaxArchives
    BY <1>5 DEF Local!Sort, ArchivesInv
  <2>4. call'[c].kept = 0
    BY <2>2 DEF ArchivesInv, Listed
  <2>5. PICK l : l = call'[c].list
    OBVIOUS
  <2>6. NewerThan(call[c].list)' = NewerThan(l)' /\ NewerThan(l)' = NewerThan(l)
    BY <2>3, <2>5 DEF NewerThan
  <2>7. Cardinality(NewerThan(l)) \in Nat
    BY MadeFinite DEF ArchivesInv, NewerThan
  <2>8. Listed(c)'
    BY <2>1, <2>2, <2>4, <2>6, <2>7 DEF Listed
  <2> QED
    BY <2>2, <2>3, <2>8, StillStep
<1>6. ASSUME NEW c \in Calls, Local!End(c) PROVE ArchivesInv'
  <2>1. /\ call' \in [Calls -> Turns] /\ \A d \in Calls \ {c} : call'[d] = call[d]
        /\ call'[c].at = "done"
    BY <1>6, AtMoves DEF Local!End, ArchivesInv, Local!Places
  <2>2. UNCHANGED <<directory, torn, made>> /\ archives' \in 0..MaxArchives
    BY <1>6 DEF Local!End, ArchivesInv
  <2>3. Listed(c)'
    BY <2>1 DEF Listed
  <2> QED
    BY <2>1, <2>2, <2>3, StillStep
<1>7. ASSUME Local!PlaceTorn PROVE ArchivesInv'
  <2>1. PICK x : x = archives + 1
    OBVIOUS
  <2>2. /\ x \in Local!Ids /\ archives' = x /\ archives' \in 0..MaxArchives
    BY <1>7, <2>1, HostAssumption
    DEF Local!PlaceTorn, ArchivesInv, Local!Ids, Local!ArchivesConstants
  <2>3. /\ directory' = directory \cup {x} /\ torn' = torn \cup {x} /\ made' = made
        /\ call' = call
    BY <1>7, <2>1 DEF Local!PlaceTorn
  <2>4. call' \in [Calls -> Turns]
    BY <2>3 DEF ArchivesInv
  <2> DEFINE K == {}
  <2>5. /\ K \in SUBSET Calls /\ \A d \in K : Listed(d)'
        /\ \A d \in Calls \ K : call'[d] = call[d]
    BY <2>3
  <2> HIDE DEF K
  <2>6. /\ torn' \in {torn, torn \cup {x}}
        /\ (made' = made /\ x \in torn') \/ (made' = made \cup {x} /\ torn' = torn)
    <3>1. torn' = torn \cup {x} /\ made' = made
      BY <2>3
    <3> QED
      BY <3>1
  <2>7. directory' = directory \cup {x} /\ x \in Local!Ids /\ archives' \in 0..MaxArchives
    BY <2>2, <2>3
  <2> QED
    BY <2>4, <2>5, <2>6, <2>7, GrowsStep
<1>8. ASSUME NEW c \in Calls, Local!Prune(c) PROVE ArchivesInv'
  BY <1>8, PruneStep
<1> QED
  BY <1>1, <1>2, <1>3, <1>4, <1>5, <1>6, <1>7, <1>8 DEF Local!Next

LEMMA SameCardinality == \A S : Local!Cardinality(S) = Cardinality(S)
BY DEF Local!Cardinality, Cardinality

LEMMA ArchivesKeep == ArchivesInv => Local!KeepsTheNewest
<1> SUFFICES ASSUME ArchivesInv PROVE Local!KeepsTheNewest
  OBVIOUS
<1>1. ASSUME NEW a \in made \ directory
      PROVE  Local!Cardinality({b \in made : b > a}) >= MAX_BACKUPS_TO_KEEP
  <2>1. Newer(a) = {b \in made : b > a}
    BY DEF Newer
  <2> QED
    BY <2>1, SameCardinality DEF ArchivesInv
<1>2. torn \subseteq directory
  BY DEF ArchivesInv
<1> QED
  BY <1>1, <1>2, Zenon DEF Local!KeepsTheNewest

---------------------------------------------------------------------------------
(* The invariant: where the data and the licence are when they are not served      *)

Restoring == {"moveDb", "placeDb", "moveMedia", "placeMedia", "settle",
              "undo", "undoDb", "undoMedia", "undoMedia2"}
Restored == {"tidy", "upgrade", "migrating", "migrated",
             "backDb", "backMedia", "backMedia2", "backSettle"}
GoingBack == {"backDb", "backMedia", "backMedia2", "backSettle"}

\* Content d has all its writes and the last licence.
Whole(d) == d \in Contents /\ d.lic = issued /\ d.n = written[d.src]

\* A restore is applied exactly as long as its state file is there.
Planned ==
  /\ phase \in Restoring => plan # "none"
  /\ phase \in Restored => plan = "none"

\* Without a plan the database is whole; during a restore it may be away, or be the
\* one that the seed made, which has no licence.
LiveWhole ==
  /\ plan = "none" \/ phase \in {"moveDb", "moveMedia", "placeMedia", "settle", "serving"}
       => Whole(db)
  /\ db = NoDb \/ db.lic = 0 \/ Whole(db)

\* The copy that a rollback puts back is whole, and it is there when it is needed.
Undoable ==
  /\ plan # "none" /\ oldDb # NoDb => Whole(oldDb)
  /\ phase \in {"placeDb", "undoDb"} => oldDb # NoDb

\* Nothing was written on what an interrupted attempt had restored.
Untouched ==
  /\ plan # "none" => (db.src = plan => db.n = 0) /\ (oldDb.src = plan => oldDb.n = 0)
  /\ plan # "none" /\ phase = "serving" => oldDb = NoDb /\ db.src # plan

\* A safety backup is a licensed content, and is there to go back to.
SafetyKept ==
  /\ upgrade # NoUpgrade => upgrade.db \in Contents /\ upgrade.db.lic > 0
  /\ phase \in GoingBack \cup {"migrating", "migrated"} => upgrade # NoUpgrade

IInv ==
  TypeOK /\ Planned /\ LiveWhole /\ Undoable /\ Untouched /\ SafetyKept /\ issued > 0

USE DEF Restoring, Restored, GoingBack

LEMMA NoDbFacts ==
  NoDb \notin Contents /\ NoDb.src \notin Sources /\ NoDb.lic = 0 /\ NoDb.n = 0
BY StartupAssumption DEF NoDb, Contents, Sources

\* A change of the schema alone disturbs nothing.
LEMMA SchemaTyped ==
  ASSUME NEW d \in Contents, NEW s \in Schemas
  PROVE  /\ [d EXCEPT !.schema = s] \in Contents
         /\ [d EXCEPT !.schema = s].lic = d.lic
         /\ [d EXCEPT !.schema = s].n = d.n
         /\ [d EXCEPT !.schema = s].src = d.src
BY DEF Contents

LEMMA InitIInv == Init => IInv
<1> SUFFICES ASSUME Init PROVE IInv
  OBVIOUS
<1>1. db \in Contents
  BY StartupAssumption DEF Init, Contents, Sources, Schemas
<1>2. TypeOK
  <2>1. bare \subseteq Sources
    BY StartupAssumption DEF Init
  <2>2. media \in MediaSets
    BY DEF Init, MediaOf, MediaSets, Sources
  <2> QED
    <3>1. db \in Contents \cup {NoDb} /\ oldDb \in Contents \cup {NoDb}
      BY <1>1 DEF Init
    <3>2. oldMedia \in MediaSets /\ upgrade \in [db : Contents \cup {NoDb}, media : MediaSets]
      BY DEF Init, NoUpgrade, MediaSets
    <3>3. /\ phase \in Phases /\ launcher \in Launchers /\ held \in BOOLEAN
          /\ plan \in Archives \cup {"none"} /\ breaks \in BOOLEAN /\ leftover \in BOOLEAN
      BY DEF Init, Phases
    <3>4. /\ written \in [Sources -> Nat] /\ issued \in 0..MaxWrites
          /\ crashes \in 0..MaxCrashes /\ errors \in 0..MaxErrors
      BY StartupAssumption DEF Init
    <3> QED
      BY <2>1, <2>2, <3>1, <3>2, <3>3, <3>4 DEF TypeOK
<1>3. Whole(db)
  BY <1>1 DEF Init, Whole, Sources
<1> QED
  BY <1>2, <1>3 DEF Init, IInv, Planned, LiveWhole, Undoable, Untouched, SafetyKept

---------------------------------------------------------------------------------
(* The steps.  What a step leaves alone keeps what the invariant says of it.       *)

LEMMA StepWrite == IInv /\ Write => IInv'
<1> SUFFICES ASSUME IInv, Write PROVE IInv'
  OBVIOUS
<1>1. Whole(db) /\ db \in Contents /\ db.src \in Sources
  BY DEF IInv, LiveWhole, Write, Whole, Contents
<1>2. db' \in Contents /\ db'.lic = db.lic /\ db'.src = db.src /\ db'.n = db.n + 1
  BY <1>1, StartupAssumption DEF Write, Contents
<1>3. written' \in [Sources -> Nat] /\ written'[db.src] = written[db.src] + 1
  BY <1>1 DEF Write, IInv, TypeOK
<1>4. Whole(db)'
  BY <1>1, <1>2, <1>3 DEF Whole, Write
<1>5. TypeOK'
  BY <1>2, <1>3 DEF IInv, TypeOK, Write, plans, process, faults
<1>6. Undoable' /\ Untouched'
  BY <1>1, <1>2, NoDbFacts DEF IInv, Undoable, Untouched, Write, plans
<1>7. Planned' /\ SafetyKept'
  BY DEF IInv, Planned, SafetyKept, Write, plans
<1>8. LiveWhole'
  BY <1>4 DEF LiveWhole
<1> QED
  BY <1>4, <1>5, <1>6, <1>7, <1>8 DEF IInv, Write

LEMMA StepLicence == IInv /\ ChangeLicence => IInv'
<1> SUFFICES ASSUME IInv, ChangeLicence PROVE IInv'
  OBVIOUS
<1>1. Whole(db) /\ db \in Contents /\ db.src \in Sources
  BY DEF IInv, LiveWhole, ChangeLicence, Whole, Contents
<1>2. /\ db' \in Contents /\ db'.lic = db.lic + 1 /\ db'.src = db.src /\ db'.n = db.n
      /\ issued' = db.lic + 1 /\ issued' \in 0..MaxWrites /\ issued' > 0
  BY <1>1, StartupAssumption DEF ChangeLicence, Contents
<1>3. Whole(db)'
  BY <1>1, <1>2 DEF Whole, ChangeLicence
<1>4. TypeOK'
  BY <1>2 DEF IInv, TypeOK, ChangeLicence, plans, process, faults
<1>5. Undoable' /\ Untouched'
  BY <1>1, <1>2, NoDbFacts DEF IInv, Undoable, Untouched, ChangeLicence, plans
<1>6. Planned' /\ SafetyKept'
  BY DEF IInv, Planned, SafetyKept, ChangeLicence, plans
<1>7. LiveWhole'
  BY <1>3 DEF LiveWhole
<1> QED
  BY <1>2, <1>3, <1>4, <1>5, <1>6, <1>7 DEF IInv, ChangeLicence

\* Plans are made, cancelled and forgotten.
LEMMA StepPlans ==
  ASSUME IInv,
         \/ \E a \in Archives : PrepareRestore(a)
         \/ CancelRestore \/ PrepareUpgrade \/ CancelUpgrade \/ Stop
         \/ Settle \/ EndUpgrade \/ BackSettle
  PROVE  IInv'
<1> USE NoDbFacts DEF Whole
<1>1. ASSUME NEW a \in Archives, PrepareRestore(a) PROVE IInv'
  <2>1. a # "none" /\ db \in Contents
    BY <1>1, StartupAssumption DEF PrepareRestore, IInv, LiveWhole
  <2>2. TypeOK'
    BY <1>1 DEF PrepareRestore, IInv, TypeOK, history, process, faults, MediaSets
  <2> QED
    BY <1>1, <2>1, <2>2
    DEF PrepareRestore, IInv, Planned, LiveWhole, Undoable, Untouched, SafetyKept, history
<1>2. ASSUME CancelRestore PROVE IInv'
  <2>1. TypeOK'
    BY <1>2 DEF CancelRestore, IInv, TypeOK, disk, history, process, faults
  <2> QED
    BY <1>2, <2>1
    DEF CancelRestore, IInv, Planned, LiveWhole, Undoable, Untouched, SafetyKept, disk, history
<1>3. ASSUME PrepareUpgrade PROVE IInv'
  <2>1. db \in Contents /\ db.lic > 0
    BY <1>3 DEF PrepareUpgrade, IInv, LiveWhole
  <2>2. TypeOK'
    BY <1>3
    DEF PrepareUpgrade, IInv, TypeOK, Entries, MediaSets, disk, history, process, faults
  <2>3. upgrade'.db \in Contents /\ upgrade'.db.lic > 0
    BY <1>3, <2>1 DEF PrepareUpgrade
  <2> QED
    BY <1>3, <2>2, <2>3
    DEF PrepareUpgrade, IInv, Planned, LiveWhole, Undoable, Untouched, SafetyKept, disk,
        history
<1>4. ASSUME CancelUpgrade PROVE IInv'
  <2>1. TypeOK'
    BY <1>4
    DEF CancelUpgrade, IInv, TypeOK, disk, history, process, faults, NoUpgrade, MediaSets
  <2> QED
    BY <1>4, <2>1
    DEF CancelUpgrade, IInv, Planned, LiveWhole, Undoable, Untouched, SafetyKept, disk, history
<1>5. ASSUME Stop PROVE IInv'
  BY <1>5
  DEF Stop, Go, IInv, TypeOK, Phases, Planned, LiveWhole, Undoable, Untouched, SafetyKept,
      disk, plans, history, process, faults
<1>6. ASSUME Settle PROVE IInv'
  <2>1. TypeOK'
    BY <1>6 DEF Settle, Settled, Go, IInv, TypeOK, Phases, disk, history, process, faults
  <2> QED
    BY <1>6, <2>1
    DEF Settle, Settled, Go, IInv, Planned, LiveWhole, Undoable, Untouched, SafetyKept,
        disk, history
<1>7. ASSUME EndUpgrade PROVE IInv'
  <2>1. TypeOK'
    BY <1>7
    DEF EndUpgrade, Go, IInv, TypeOK, Phases, history, process, faults, NoUpgrade, MediaSets
  <2> QED
    BY <1>7, <2>1
    DEF EndUpgrade, Go, IInv, Planned, LiveWhole, Undoable, Untouched, SafetyKept, history
<1>8. ASSUME BackSettle PROVE IInv'
  <2>1. TypeOK'
    BY <1>8
    DEF BackSettle, Go, IInv, TypeOK, Phases, disk, history, process, faults, NoUpgrade,
        MediaSets
  <2> QED
    BY <1>8, <2>1
    DEF BackSettle, Go, IInv, Planned, LiveWhole, Undoable, Untouched, SafetyKept, disk,
        history
<1> QED BY <1>1, <1>2, <1>3, <1>4, <1>5, <1>6, <1>7, <1>8

\* The steps that leave the databases and the plans alone.
LEMMA StepPhase ==
  ASSUME IInv,
         Start \/ Extract \/ MoveHeldDb \/ MoveMedia \/ PlaceMedia \/ UndoMedia \/ UndoMedia2
           \/ BackMedia \/ BackMedia2 \/ Crash \/ Fail
  PROVE  IInv'
<1>1. Whole(db)' <=> Whole(db)
  BY DEF Whole, Start, Extract, MoveHeldDb, MoveMedia, PlaceMedia, UndoMedia, UndoMedia2,
         BackMedia, BackMedia2, Crash, Fail, disk, history
<1>2. Whole(oldDb)' <=> Whole(oldDb)
  BY DEF Whole, Start, Extract, MoveHeldDb, MoveMedia, PlaceMedia, UndoMedia, UndoMedia2,
         BackMedia, BackMedia2, Crash, Fail, disk, history
<1> USE NoDbFacts DEF IInv, Planned, LiveWhole, Undoable, Untouched, SafetyKept, plans
<1>3. CASE Start
  <2>1. TypeOK'
    BY <1>3 DEF Start, Go, TypeOK, Phases, disk, history, process, faults
  <2> QED
    BY <1>1, <1>2, <1>3, <2>1 DEF Start, Go, disk, history
<1>4. CASE Extract
  <2>1. TypeOK'
    BY <1>4 DEF Extract, Go, TypeOK, Phases, disk, history, process, faults
  <2>2. phase' = "moveDb" => plan # "none" /\ Whole(db)
    BY <1>4 DEF Extract, Go, Preservable, TypeOK, Contents
  <2> QED
    BY <1>1, <1>2, <1>4, <2>1, <2>2 DEF Extract, Go, disk, history
<1>5. CASE MoveMedia
  <2>1. TypeOK'
    BY <1>5 DEF MoveMedia, TypeOK, Phases, MediaSets, history, process, faults
  <2> QED
    BY <1>1, <1>2, <1>5, <2>1 DEF MoveMedia, history
<1>6. CASE PlaceMedia
  <2>1. MediaOf(plan) \in MediaSets
    BY DEF TypeOK, MediaSets, Sources, MediaOf
  <2>2. TypeOK'
    BY <1>6, <2>1 DEF PlaceMedia, Go, TypeOK, Phases, history, process, faults
  <2> QED
    BY <1>1, <1>2, <1>6, <2>2 DEF PlaceMedia, Go, history
<1>7. CASE UndoMedia
  <2>1. TypeOK'
    BY <1>7 DEF UndoMedia, TypeOK, Phases, MediaSets, history, process, faults
  <2> QED
    BY <1>1, <1>2, <1>7, <2>1 DEF UndoMedia, history
<1>8. CASE UndoMedia2
  <2>1. TypeOK'
    BY <1>8 DEF UndoMedia2, Go, TypeOK, Phases, MediaSets, history, process, faults
  <2> QED
    BY <1>1, <1>2, <1>8, <2>1 DEF UndoMedia2, Go, history
<1>9. CASE BackMedia
  <2>1. TypeOK'
    BY <1>9 DEF BackMedia, Go, TypeOK, Phases, MediaSets, history, process, faults
  <2> QED
    BY <1>1, <1>2, <1>9, <2>1 DEF BackMedia, Go, history
<1>10. CASE BackMedia2
  <2>1. TypeOK'
    BY <1>10 DEF BackMedia2, Go, TypeOK, Phases, MediaSets, history, process, faults
  <2> QED
    BY <1>1, <1>2, <1>10, <2>1 DEF BackMedia2, Go, history
<1>11. CASE Crash
  <2>1. TypeOK'
    BY <1>11, StartupAssumption DEF Crash, TypeOK, Phases, disk, history, process
  <2> QED
    BY <1>1, <1>2, <1>11, <2>1 DEF Crash, disk, history
<1>12. CASE Fail
  <2>1. TypeOK'
    BY <1>12, StartupAssumption DEF Fail, TypeOK, Phases, disk, history, process
  <2> QED
    BY <1>1, <1>2, <1>12, <2>1 DEF Fail, disk, history
<1>13. CASE MoveHeldDb
  <2>1. TypeOK'
    BY <1>13 DEF MoveHeldDb, Go, TypeOK, Phases, disk, history, process, faults
  <2> QED
    BY <1>1, <1>2, <1>13, <2>1 DEF MoveHeldDb, Go, disk, history
<1> QED
  BY <1>3, <1>4, <1>5, <1>6, <1>7, <1>8, <1>9, <1>10, <1>11, <1>12, <1>13

\* The seed makes a database only where a restore has left none.
LEMMA StepSeed == ASSUME IInv, Seed PROVE IInv'
<1> USE NoDbFacts DEF IInv, Planned, LiveWhole, Undoable, Untouched, SafetyKept
<1>1. CASE db = NoDb
  <2>1. db' = [src |-> "fresh", n |-> 0, lic |-> 0, schema |-> "unversioned"]
    BY <1>1 DEF Seed
  <2>2. db' \in Contents /\ db'.lic = 0 /\ db'.n = 0 /\ db'.src = "fresh"
    BY <2>1, StartupAssumption DEF Contents, Sources, Schemas
  <2>3. plan # "none" /\ phase' = "extract"
    BY <1>1 DEF Seed, Go, Whole
  <2>4. plan # "fresh"
    BY <2>3, StartupAssumption DEF TypeOK
  <2>5. TypeOK'
    BY <2>2, <2>3 DEF Seed, TypeOK, Phases, plans, history, process, faults
  <2>6. Whole(oldDb)' <=> Whole(oldDb)
    BY DEF Whole, Seed, history
  <2> QED
    BY <2>2, <2>3, <2>4, <2>5, <2>6 DEF Seed, plans, history
<1>2. CASE db # NoDb
  <2>1. TypeOK'
    BY <1>2 DEF Seed, Go, TypeOK, Phases, plans, history, process, faults
  <2> QED
    BY <1>2, <2>1 DEF Seed, Go, Whole, plans, history
<1> QED BY <1>1, <1>2

\* The live database is put aside, whole, and the archive takes its place with the
\* licence of the live one.
LEMMA StepReplaceDb == ASSUME IInv, MoveDb \/ PlaceDb PROVE IInv'
<1> USE NoDbFacts DEF IInv
<1>1. CASE MoveDb
  <2>1. Whole(db) /\ db \in Contents /\ plan # "none"
    BY <1>1 DEF MoveDb, Go, LiveWhole, Planned, Whole
  <2>2. TypeOK'
    BY <1>1, <2>1 DEF MoveDb, Go, TypeOK, Phases, plans, history, process, faults
  <2>3. Whole(oldDb)'
    BY <1>1, <2>1 DEF MoveDb, Whole, history
  <2> QED
    BY <1>1, <2>1, <2>2, <2>3
    DEF MoveDb, Go, Planned, LiveWhole, Undoable, Untouched, SafetyKept, plans, history
<1>2. CASE PlaceDb
  <2>1. plan \in Archives /\ plan \in Sources /\ Whole(oldDb) /\ oldDb # NoDb
    BY <1>2 DEF PlaceDb, Go, Planned, Undoable, TypeOK, Sources
  <2>2. /\ db' \in Contents /\ db'.lic = issued /\ db'.n = 0 /\ db'.src = plan
    BY <1>2, <2>1, StartupAssumption DEF PlaceDb, Whole, Contents
  <2>3. /\ written' \in [Sources -> Nat] /\ written'[plan] = 0
        /\ \A s \in Sources : s # plan => written'[s] = written[s]
    BY <1>2, <2>1 DEF PlaceDb, TypeOK
  <2>4. TypeOK'
    BY <1>2, <2>2, <2>3 DEF PlaceDb, Go, TypeOK, Phases, plans, process, faults
  <2>5. Whole(db)'
    BY <1>2, <2>2, <2>3 DEF PlaceDb, Whole
  <2>6. Whole(oldDb)'
    <3>1. oldDb \in Contents /\ oldDb.src \in Sources /\ oldDb.n = written[oldDb.src]
      BY <2>1 DEF Whole, Contents
    <3>2. oldDb.src = plan => oldDb.n = 0
      BY <2>1, StartupAssumption DEF Untouched
    <3> QED
      BY <1>2, <2>1, <2>3, <3>1, <3>2 DEF PlaceDb, Whole
  <2>7. LiveWhole'
    BY <2>5 DEF LiveWhole
  <2> QED
    BY <1>2, <2>2, <2>4, <2>6, <2>7
    DEF PlaceDb, Go, Planned, Undoable, Untouched, SafetyKept, plans
<1> QED BY <1>1, <1>2

\* The rollback puts back a database that is whole.
LEMMA StepRollback == ASSUME IInv, Undo \/ UndoDb \/ Tidy PROVE IInv'
<1> USE NoDbFacts DEF IInv, Planned, LiveWhole, Undoable, Untouched, SafetyKept, plans
<1>1. CASE Undo
  <2>1. TypeOK'
    BY <1>1 DEF Undo, TypeOK, Phases, history, process, faults
  <2>2. Whole(oldDb)' <=> Whole(oldDb)
    BY <1>1 DEF Undo, Whole, history
  <2>3. Whole(db)' \/ db' = NoDb \/ db'.lic = 0
    BY <1>1 DEF Undo, Whole, history
  <2> QED
    BY <1>1, <2>1, <2>2, <2>3 DEF Undo, history
<1>2. CASE UndoDb
  <2>1. Whole(oldDb) /\ oldDb # NoDb /\ plan # "none"
    BY <1>2 DEF UndoDb, Go
  <2>2. TypeOK'
    BY <1>2, <2>1 DEF UndoDb, Go, TypeOK, Phases, history, process, faults
  <2>3. Whole(db)'
    BY <1>2, <2>1 DEF UndoDb, Whole, history
  <2> QED
    BY <1>2, <2>1, <2>2, <2>3 DEF UndoDb, Go, history
<1>3. CASE Tidy
  <2>1. TypeOK'
    BY <1>3 DEF Tidy, Go, TypeOK, Phases, MediaSets, history, process, faults
  <2>2. Whole(db)' <=> Whole(db)
    BY <1>3 DEF Tidy, Whole, history
  <2> QED
    BY <1>3, <2>1, <2>2 DEF Tidy, Go, history
<1> QED BY <1>1, <1>2, <1>3

\* An upgrade changes the schema, or goes back to the safety backup.
LEMMA StepUpgrade == ASSUME IInv, BeginUpgrade \/ Migrate \/ BackDb PROVE IInv'
<1> USE NoDbFacts DEF IInv, Planned, Undoable, Untouched, SafetyKept, plans
<1>1. CASE BeginUpgrade
  <2>1. Whole(db) /\ db \in Contents /\ plan = "none" /\ phase = "upgrade"
    BY <1>1 DEF BeginUpgrade, LiveWhole, Whole
  <2>2. /\ db' \in Contents /\ db'.lic = db.lic /\ db'.n = db.n /\ db'.src = db.src
        /\ phase' \in {"serving", "migrated", "migrating", "backDb"}
        /\ phase' # "serving" => upgrade # NoUpgrade
        /\ media' \in MediaSets
    <3>1. CASE upgrade = NoUpgrade
      BY <1>1, <2>1, <3>1 DEF BeginUpgrade, TypeOK, MediaSets
    <3>2. CASE upgrade # NoUpgrade
      <4>1. media' \in MediaSets
        BY <1>1, <3>2 DEF BeginUpgrade, TypeOK
      <4>2. db.schema \in {"unversioned", "head", "old", "part"}
        BY <2>1 DEF Contents, Schemas
      <4>3. CASE db.schema \in {"unversioned", "head"}
        <5>1. phase' = "migrated" /\ db' = [db EXCEPT !.schema = "head"]
          BY <1>1, <3>2, <4>3 DEF BeginUpgrade
        <5> QED BY <2>1, <3>2, <4>1, <5>1, SchemaTyped DEF Schemas
      <4>4. CASE db.schema = "old"
        <5>1. phase' = "migrating" /\ db' = [db EXCEPT !.schema = "part"]
          BY <1>1, <3>2, <4>4 DEF BeginUpgrade
        <5> QED BY <2>1, <3>2, <4>1, <5>1, SchemaTyped DEF Schemas
      <4>5. CASE db.schema = "part"
        <5>1. phase' \in {"migrating", "backDb"} /\ db' = db
          BY <1>1, <3>2, <4>5 DEF BeginUpgrade
        <5> QED BY <2>1, <3>2, <4>1, <5>1
      <4> QED BY <4>2, <4>3, <4>4, <4>5
    <3> QED BY <3>1, <3>2
  <2>3. TypeOK'
    BY <1>1, <2>2 DEF BeginUpgrade, TypeOK, Phases, history, process, faults
  <2>4. Whole(db)'
    BY <1>1, <2>1, <2>2 DEF BeginUpgrade, Whole, history
  <2>5. LiveWhole'
    BY <2>4 DEF LiveWhole
  <2> QED
    BY <1>1, <2>1, <2>2, <2>3, <2>5 DEF BeginUpgrade, history
<1>2. CASE Migrate
  <2>1. Whole(db) /\ db \in Contents /\ plan = "none" /\ phase = "migrating"
    BY <1>2 DEF Migrate, Go, LiveWhole, Whole
  <2>2. /\ db' \in Contents /\ db'.lic = db.lic /\ db'.n = db.n /\ db'.src = db.src
        /\ phase' \in {"backDb", "migrated"}
    <3>1. (IF breaks THEN "part" ELSE "head") \in Schemas
      BY DEF Schemas
    <3> QED BY <1>2, <2>1, <3>1, SchemaTyped DEF Migrate, Go
  <2>3. TypeOK'
    BY <1>2, <2>2 DEF Migrate, TypeOK, Phases, history, process, faults
  <2>4. Whole(db)'
    BY <1>2, <2>1, <2>2 DEF Migrate, Whole, history
  <2>5. LiveWhole'
    BY <2>4 DEF LiveWhole
  <2> QED
    BY <1>2, <2>1, <2>2, <2>3, <2>5 DEF Migrate, history
<1>3. CASE BackDb
  <2>1. /\ upgrade # NoUpgrade /\ upgrade.db \in Contents /\ upgrade.db.lic > 0
        /\ plan = "none" /\ phase' = "backMedia"
    BY <1>3 DEF BackDb, Go
  <2>2. /\ upgrade.db.src \in Sources /\ upgrade.db.n \in Nat
        /\ upgrade.db.lic \in 0..MaxWrites
    BY <2>1, StartupAssumption DEF Contents
  <2>3. written' \in [Sources -> Nat] /\ written'[upgrade.db.src] = upgrade.db.n
    BY <1>3, <2>2 DEF BackDb, TypeOK
  <2>4. issued' \in 0..MaxWrites /\ issued' > 0
    BY <1>3, <2>1, <2>2 DEF BackDb
  <2>5. TypeOK'
    BY <1>3, <2>1, <2>3, <2>4 DEF BackDb, TypeOK, Phases, process, faults
  <2>6. Whole(db)'
    BY <1>3, <2>1, <2>3 DEF BackDb, Whole
  <2>7. LiveWhole'
    BY <2>6 DEF LiveWhole
  <2> QED
    BY <1>3, <2>1, <2>4, <2>5, <2>7 DEF BackDb
<1> QED BY <1>1, <1>2, <1>3

LEMMA StepIInv == IInv /\ [Next]_vars => IInv'
<1> SUFFICES ASSUME IInv, [Next]_vars PROVE IInv'
  OBVIOUS
<1>1. CASE UNCHANGED vars
  BY <1>1
  DEF vars, disk, plans, history, process, faults, IInv, TypeOK, Planned, LiveWhole, Undoable,
      Untouched, SafetyKept, Whole
<1>2. CASE Serve
  BY <1>2, StepWrite, StepLicence, StepPlans DEF Serve
<1>3. CASE Boot
  BY <1>3, StepPlans, StepPhase, StepSeed, StepReplaceDb, StepRollback, StepUpgrade DEF Boot
<1>4. CASE Crash \/ Fail
  BY <1>4, StepPhase
<1> QED
  BY <1>1, <1>2, <1>3, <1>4 DEF Next

---------------------------------------------------------------------------------
(* What is served belongs together                                                *)

\* Archives of a release that keeps its version in the database.
Versioned == \A a \in Archives : ArchiveSchema[a] # "unversioned"

\* The safety backup of a content without pictures has no media.
SafeBare == upgrade.media = "none" /\ upgrade.db.src \in bare

\* What is put in place belongs together, and so does the safety backup.
Placed ==
  /\ phase \in {"moveMedia", "placeMedia", "settle"} => db.src = plan
  /\ phase = "settle" => media = MediaOf(plan)
  /\ upgrade # NoUpgrade => Own(upgrade.media, upgrade.db.src) \/ SafeBare
  /\ phase \in {"backMedia", "backMedia2", "backSettle"} => db = upgrade.db
  /\ phase = "backMedia2" => Own(upgrade.media, db.src)
  /\ phase = "backSettle" => Own(media, db.src)

\* A licensed database has a version; only a migration that was cut leaves it in part,
\* and a database in part is not served.
Schematic ==
  /\ upgrade # NoUpgrade => upgrade.db.schema = "old"
  /\ db.lic > 0 => db.schema # "unversioned"
  /\ oldDb.lic > 0 => oldDb.schema # "unversioned"
  /\ db.schema = "part" =>
       /\ plan = "none" /\ upgrade # NoUpgrade
       /\ phase \in {"down", "seed", "extract", "upgrade", "migrating", "backDb"}
       /\ phase \in {"down", "seed", "extract", "upgrade"} => crashes > 0
  /\ oldDb.schema # "part"
  /\ phase = "migrating" => db.schema = "part"
  /\ phase = "migrated" => db.schema = "head"
  /\ phase \in GoingBack /\ ~breaks => crashes > 0

\* A stop on the way back leaves media of other data, and the same way to go again.
HalfBack ==
  /\ crashes > 0 /\ upgrade # NoUpgrade /\ breaks
  /\ db.schema \in {"old", "part"}
  /\ phase \in {"down", "seed", "extract", "upgrade", "migrating", "backDb"}

Matching ==
  /\ plan = "none" \/ phase = "serving" =>
       phase \in {"backMedia", "backMedia2"} \/ Own(media, db.src) \/ HalfBack

TInv == Placed /\ Schematic /\ Matching

LEMMA SchemaOfEdited ==
  ASSUME NEW d \in Contents, NEW s \in Schemas
  PROVE  [d EXCEPT !.schema = s].schema = s
BY DEF Contents

\* A content that is served is licensed, and its media are not an empty directory.
LEMMA ServedFacts ==
  ASSUME IInv, plan = "none" \/ phase = "serving"
  PROVE  db \in Contents /\ db.lic > 0 /\ db # NoDb /\ db.src \in Sources
         /\ db.src \notin {"none", "empty"}
BY StartupAssumption, NoDbFacts DEF IInv, LiveWhole, Whole, Contents, Sources

LEMMA TogetherInit == ASSUME Init PROVE TInv
BY DEF Init, TInv, Placed, Schematic, Matching, Own, NoDb, NoUpgrade

USE DEF TInv, Placed, Schematic, Matching, HalfBack, Own, MediaOf, SafeBare

LEMMA TogetherServe ==
  ASSUME IInv, TInv, Serve
  PROVE  TInv'
<1>1. phase = "serving" /\ Own(media, db.src) /\ db \in Contents /\ db.lic > 0
      /\ db.schema \notin {"part", "unversioned"}
  BY ServedFacts
  DEF Serve, Write, ChangeLicence, PrepareRestore, CancelRestore, PrepareUpgrade,
     CancelUpgrade, Stop, Go
<1>2. CASE Write
  <2>1. db'.lic = db.lic /\ db'.src = db.src /\ db'.schema = db.schema
    BY <1>1, <1>2 DEF Write, Contents
  <2> QED
    BY <1>1, <1>2, <2>1 DEF Write, plans, faults
<1>3. CASE ChangeLicence
  <2>1. db'.lic = db.lic + 1 /\ db'.src = db.src /\ db'.schema = db.schema
    BY <1>1, <1>3 DEF ChangeLicence, Contents
  <2> QED
    BY <1>1, <1>3, <2>1 DEF ChangeLicence, plans, faults
<1>4. ASSUME NEW a \in Archives, PrepareRestore(a) PROVE TInv'
  BY <1>1, <1>4 DEF PrepareRestore, history, faults, NoDb
<1>5. CASE CancelRestore
  BY <1>1, <1>5 DEF CancelRestore, disk, history, faults
<1>6. CASE PrepareUpgrade
  <2>1. db.schema = "old"
    BY <1>1, <1>6 DEF PrepareUpgrade, Contents, Schemas
  <2>2. upgrade'.db = db /\ upgrade'.media = Entries(media)
    BY <1>6 DEF PrepareUpgrade
  <2>3. db.src # "none" /\ db.src # "empty"
    BY <1>1, ServedFacts
  <2> QED
    BY <1>1, <1>6, <2>1, <2>2, <2>3 DEF PrepareUpgrade, Entries, disk, history, faults
<1>7. CASE CancelUpgrade
  BY <1>1, <1>7 DEF CancelUpgrade, disk, history, faults
<1>8. CASE Stop
  BY <1>1, <1>8 DEF Stop, Go, disk, plans, history, faults
<1> QED
  BY <1>2, <1>3, <1>4, <1>5, <1>6, <1>7, <1>8 DEF Serve

\* A restore, up to the removal of its plan
LEMMA TogetherRestore ==
  ASSUME IInv, TInv, Versioned,
         \/ Start \/ Seed \/ Extract \/ MoveDb \/ MoveHeldDb \/ PlaceDb \/ MoveMedia
         \/ PlaceMedia \/ Settle \/ Tidy \/ Undo \/ UndoDb \/ UndoMedia \/ UndoMedia2
  PROVE  TInv'
<1>1. CASE Start
  BY <1>1 DEF Start, Go, disk, plans, history, faults
<1>2. CASE Seed
  <2>1. CASE db = NoDb
    <3>1. db'.lic = 0 /\ db'.schema = "unversioned" /\ plan # "none" /\ phase' = "extract"
      BY <1>2, <2>1, ServedFacts DEF Seed, Go
    <3> QED
      BY <1>2, <3>1 DEF Seed, plans, history, faults
  <2>2. CASE db # NoDb
    BY <1>2, <2>2 DEF Seed, Go, plans, history, faults
  <2> QED
    BY <2>1, <2>2
<1>3. CASE Extract
  BY <1>3 DEF Extract, Go, disk, plans, history, faults
<1>4. CASE MoveDb
  BY <1>4, NoDbFacts DEF MoveDb, Go, plans, history, faults, IInv, Planned, NoDb
<1>5. CASE MoveHeldDb
  BY <1>5 DEF MoveHeldDb, Go, disk, plans, history, faults, IInv, Planned
<1>6. CASE PlaceDb
  <2>1. plan \in Archives /\ ArchiveSchema[plan] \notin {"part", "unversioned"}
    BY <1>6, StartupAssumption DEF PlaceDb, Go, IInv, Planned, TypeOK, Versioned
  <2>2. db'.src = plan /\ db'.schema = ArchiveSchema[plan] /\ phase' = "moveMedia"
    BY <1>6 DEF PlaceDb, Go
  <2> QED
    BY <1>6, <2>1, <2>2, StartupAssumption DEF PlaceDb, plans, faults
<1>7. CASE MoveMedia
  BY <1>7 DEF MoveMedia, plans, history, faults, IInv, Planned
<1>8. CASE PlaceMedia
  BY <1>8 DEF PlaceMedia, Go, plans, history, faults, IInv, Planned
<1>9. CASE Settle
  BY <1>9, ServedFacts DEF Settle, Settled, Go, disk, history, faults
<1>10. CASE Tidy
  BY <1>10, NoDbFacts DEF Tidy, Go, plans, history, faults, NoDb
<1>11. CASE Undo
  BY <1>11, NoDbFacts DEF Undo, plans, history, faults, IInv, Planned, NoDb
<1>12. CASE UndoDb
  BY <1>12, NoDbFacts DEF UndoDb, Go, plans, history, faults, IInv, Planned, NoDb
<1>13. CASE UndoMedia
  BY <1>13 DEF UndoMedia, plans, history, faults, IInv, Planned
<1>14. CASE UndoMedia2
  BY <1>14 DEF UndoMedia2, Go, plans, history, faults, IInv, Planned
<1> QED
  BY <1>1, <1>2, <1>3, <1>4, <1>5, <1>6, <1>7, <1>8, <1>9, <1>10, <1>11, <1>12, <1>13, <1>14

\* An upgrade, and the way back
LEMMA TogetherUpgrade ==
  ASSUME IInv, TInv, MaxCrashes <= 1,
         \/ BeginUpgrade \/ Migrate \/ EndUpgrade \/ BackDb \/ BackMedia \/ BackMedia2
         \/ BackSettle \/ Crash \/ Fail
  PROVE  TInv'
<1>1. CASE BeginUpgrade
  <2>1. /\ plan = "none" /\ phase = "upgrade" /\ db \in Contents /\ db.lic > 0
        /\ db.src \notin {"none", "empty"}
        /\ db.schema \in {"head", "old", "part"}
    BY <1>1, ServedFacts DEF BeginUpgrade, IInv, Planned, Contents, Schemas
  <2>2. CASE upgrade = NoUpgrade
    <3>1. phase' = "serving" /\ db' = db /\ Own(media, db.src)
          /\ media' = IF media = "none" THEN "empty" ELSE media
      BY <1>1, <2>1, <2>2 DEF BeginUpgrade
    <3> QED
      BY <1>1, <2>1, <2>2, <3>1 DEF BeginUpgrade, plans, history, faults
  <2>3. CASE upgrade # NoUpgrade /\ db.schema = "head"
    <3>1. phase' = "migrated" /\ db' = [db EXCEPT !.schema = "head"] /\ media' = media
      BY <1>1, <2>3 DEF BeginUpgrade
    <3>2. db'.schema = "head" /\ db'.lic = db.lic /\ db'.src = db.src
      BY <2>1, <3>1, SchemaTyped, SchemaOfEdited DEF Schemas
    <3> QED
      BY <1>1, <2>1, <2>3, <3>1, <3>2 DEF BeginUpgrade, plans, history, faults
  <2>4. CASE upgrade # NoUpgrade /\ db.schema = "old"
    <3>1. phase' = "migrating" /\ db' = [db EXCEPT !.schema = "part"] /\ media' = media
      BY <1>1, <2>4 DEF BeginUpgrade
    <3>2. db'.schema = "part" /\ db'.lic = db.lic /\ db'.src = db.src
      BY <2>1, <3>1, SchemaTyped, SchemaOfEdited DEF Schemas
    <3> QED
      BY <1>1, <2>1, <2>4, <3>1, <3>2 DEF BeginUpgrade, plans, history, faults
  <2>5. CASE upgrade # NoUpgrade /\ db.schema = "part"
    <3>1. phase' \in {"migrating", "backDb"} /\ db' = db /\ media' = media
      BY <1>1, <2>5 DEF BeginUpgrade
    <3> QED
      BY <1>1, <2>1, <2>5, <3>1 DEF BeginUpgrade, plans, history, faults
  <2> QED
    BY <2>1, <2>2, <2>3, <2>4, <2>5
<1>2. CASE Migrate
  <2>1. /\ plan = "none" /\ phase = "migrating" /\ db \in Contents /\ upgrade # NoUpgrade
    BY <1>2, ServedFacts DEF Migrate, Go, IInv, Planned, SafetyKept
  <2>2. /\ db'.lic = db.lic /\ db'.src = db.src
        /\ db'.schema = IF breaks THEN "part" ELSE "head"
        /\ phase' = IF breaks THEN "backDb" ELSE "migrated"
    <3>1. (IF breaks THEN "part" ELSE "head") \in Schemas
      BY DEF Schemas
    <3> QED
      BY <1>2, <2>1, <3>1, SchemaTyped, SchemaOfEdited DEF Migrate, Go
  <2> QED
    BY <1>2, <2>1, <2>2 DEF Migrate, plans, history, faults, IInv, TypeOK
<1>3. CASE EndUpgrade
  <2>1. /\ Own(media, db.src) /\ db.src # "none"
        /\ media' = IF media = "none" THEN "empty" ELSE media
    BY <1>3, ServedFacts DEF EndUpgrade, Go, IInv, Planned
  <2> QED
    BY <1>3, <2>1 DEF EndUpgrade, Go, history, faults
<1>4. CASE BackDb
  <2>1. upgrade # NoUpgrade
    BY <1>4 DEF BackDb, Go, IInv, SafetyKept
  <2> QED
    BY <1>4, <2>1 DEF BackDb, Go, plans, faults
<1>5. CASE BackMedia
  <2>1. /\ plan = "none" /\ phase = "backMedia" /\ upgrade # NoUpgrade /\ db = upgrade.db
        /\ db.src # "none" /\ db.src # "empty"
    BY <1>5, ServedFacts DEF BackMedia, IInv, Planned, SafetyKept
  <2>2. UNCHANGED <<db, oldDb, plans, breaks, bare, crashes>>
    BY <1>5 DEF BackMedia, plans, faults
  <2>3. CASE upgrade.media = "none"
    <3>1. db.src \in bare
      BY <2>1, <2>3
    <3>2. phase' = "backSettle" /\ media' = media /\ leftover' = (leftover \/ media # "empty")
      BY <1>5, <2>3 DEF BackMedia
    <3>3. Own(media, db.src)'
      BY <2>2, <3>1, <3>2
    <3> QED
      BY <2>1, <2>2, <2>3, <3>1, <3>2, <3>3 DEF plans
  <2>4. CASE upgrade.media # "none"
    <3>1. phase' = "backMedia2" /\ leftover' = leftover
      BY <1>5, <2>4 DEF BackMedia
    <3> QED
      BY <2>1, <2>2, <2>4, <3>1 DEF plans
  <2> QED
    BY <2>3, <2>4
<1>6. CASE BackMedia2
  BY <1>6 DEF BackMedia2, Go, plans, history, faults, IInv, SafetyKept
<1>7. CASE BackSettle
  BY <1>7 DEF BackSettle, Go, disk, history, faults, IInv, SafetyKept
<1>8. CASE Crash
  <2>1. crashes = 0 /\ crashes' = 1
    BY <1>8, StartupAssumption DEF Crash, IInv, TypeOK
  <2>2. phase \in GoingBack =>
          (breaks /\ upgrade # NoUpgrade /\ db.schema \in {"old", "part"}) \/ phase = "backDb"
    BY <2>1 DEF IInv, SafetyKept
  <2> QED
    BY <1>8, <2>1, <2>2 DEF Crash, disk, plans, history
<1>9. CASE Fail
  BY <1>9 DEF Fail, disk, plans, history
<1> QED
  BY <1>1, <1>2, <1>3, <1>4, <1>5, <1>6, <1>7, <1>8, <1>9

LEMMA TogetherStep ==
  ASSUME IInv, TInv, [Next]_vars, MaxCrashes <= 1, Versioned
  PROVE  TInv'
<1>1. CASE UNCHANGED vars
  BY <1>1 DEF vars, disk, plans, history, process, faults
<1>2. CASE Serve
  BY <1>2, TogetherServe
<1>3. CASE Boot
  BY <1>3, TogetherRestore, TogetherUpgrade DEF Boot
<1>4. CASE Crash \/ Fail
  BY <1>4, TogetherUpgrade
<1> QED
  BY <1>1, <1>2, <1>3, <1>4 DEF Next

LEMMA TogetherHolds == IInv /\ TInv => Together
BY DEF Together, Matching, HalfBack

HIDE DEF TInv, Placed, Schematic, Matching, HalfBack, Own, MediaOf, SafeBare

---------------------------------------------------------------------------------
(* The first start: where the password of the account can be read               *)

After == {"scrub", "tell"}
Changing == {"changeScrub", "changeUnlink", "changeCommit"}

\* What the first start keeps on Windows: nothing is there before .env, and until the
\* administrator has changed it the password of the account is reported, is about to be, or
\* a write was cut short or refused.
SetupInv ==
  /\ setupEnv \in [there : BOOLEAN, key : Setup!Secrets, password : Setup!Secrets]
  /\ setupProcess \in [at : Setup!Steps, password : Setup!Secrets, generated : BOOLEAN]
  /\ setupAdmin \in [password : Setup!Secrets, must : BOOLEAN]
  /\ setupReport \in Setup!Secrets /\ setupDrawn \in Nat /\ setupRefusals \in Nat
  /\ Setup!At("down") => setupProcess = Setup!Idle
  /\ ~setupEnv.there =>
       /\ setupEnv.key = Setup!None /\ setupEnv.password = Setup!None
       /\ setupAdmin.password = Setup!None /\ setupReport = Setup!None
       /\ setupProcess.at \in {"down", "env"}
  /\ Setup!At("env") => ~setupEnv.there
  /\ Setup!At("report") =>
       /\ setupAdmin.password = Setup!None /\ setupProcess.password = setupEnv.password
       /\ setupEnv.password # Setup!None /\ setupReport = Setup!None
  /\ Setup!At("account") =>
       setupProcess.password = setupEnv.password /\ ~setupProcess.generated
  /\ setupAdmin.password = Setup!None =>
       /\ setupReport \in {Setup!None, setupEnv.password}
       /\ setupProcess.at \notin After \cup Changing
       /\ ~setupCut /\ setupEnv.password # Setup!None /\ ~Setup!At("report") =>
            setupReport = setupEnv.password
  /\ setupProcess.generated =>
       setupProcess.at \in After /\ setupProcess.password = setupAdmin.password
  /\ setupProcess.at \in Changing => setupProcess.password # Setup!None /\ setupAdmin.must
  /\ setupAdmin.password # Setup!None /\ setupAdmin.must =>
       /\ setupReport \in {Setup!None, setupAdmin.password}
       /\ ~setupCut /\ setupRefusals = 0 =>
            setupReport = setupAdmin.password \/ setupProcess.generated
              \/ Setup!At("changeCommit")

Processes == [at : Setup!Steps, password : Setup!Secrets, generated : BOOLEAN]

\* The fields of a process that goes on
LEMMA ProcessGoes ==
  ASSUME NEW p \in Processes, NEW s \in Setup!Steps
  PROVE  /\ [p EXCEPT !.at = s] \in Processes /\ [p EXCEPT !.at = s].at = s
         /\ [p EXCEPT !.at = s].password = p.password
         /\ ([p EXCEPT !.at = s].generated <=> p.generated)
BY DEF Processes

LEMMA IdleFields ==
  /\ Setup!Idle \in Processes /\ Setup!Idle.at = "down" /\ ~Setup!Idle.generated
       /\ Setup!Idle.password = Setup!None
  /\ [Setup!Idle EXCEPT !.at = "serving"] \in Processes
       /\ [Setup!Idle EXCEPT !.at = "serving"].at = "serving"
  /\ ~[Setup!Idle EXCEPT !.at = "serving"].generated
<1>1. Setup!None \in Setup!Secrets
  BY HostAssumption DEF Setup!FirstRunConstants, Setup!None, Setup!Secrets
<1> QED
  BY <1>1 DEF Setup!Idle, Processes, Setup!Steps

LEMMA SetupInit == Setup!Init => SetupInv
<1> SUFFICES ASSUME Setup!Init PROVE SetupInv
  OBVIOUS
<1>1. Setup!None \in Setup!Secrets
  BY HostAssumption DEF Setup!FirstRunConstants, Setup!None, Setup!Secrets
<1>2. PICK p : p = setupProcess
  OBVIOUS
<1>3. p \in Processes /\ p.at = "down" /\ ~p.generated
  BY <1>2, IdleFields DEF Setup!Init
<1>4. setupEnv \in [there : BOOLEAN, key : Setup!Secrets, password : Setup!Secrets]
          /\ ~setupEnv.there
      /\ setupEnv.key = Setup!None /\ setupEnv.password = Setup!None
  BY <1>1 DEF Setup!Init
<1>5. setupAdmin \in [password : Setup!Secrets, must : BOOLEAN]
          /\ setupAdmin.password = Setup!None
  BY <1>1 DEF Setup!Init
<1> QED
  BY <1>1, <1>2, <1>3, <1>4, <1>5
     DEF Setup!Init, SetupInv, Setup!At, Processes, After, Changing

\* What the invariant says in terms of fields
LEMMA SetupFields ==
  ASSUME SetupInv
  PROVE  /\ setupProcess \in Processes /\ setupProcess.at \in Setup!Steps
              /\ setupProcess.password \in Setup!Secrets
         /\ setupEnv.key \in Setup!Secrets /\ setupEnv.password \in Setup!Secrets
              /\ setupAdmin.password \in Setup!Secrets
         /\ Setup!None \in Setup!Secrets /\ setupDrawn \in Nat /\ setupRefusals \in Nat
         /\ Setup!Secrets \subseteq Nat
BY HostAssumption DEF SetupInv, Processes, Setup!FirstRunConstants, Setup!None, Setup!Secrets

LEMMA EnvWithout ==
  ASSUME NEW e \in [there : BOOLEAN, key : Setup!Secrets, password : Setup!Secrets],
      Setup!None \in Setup!Secrets
  PROVE  /\ [e EXCEPT !.password = Setup!None] \in [there : BOOLEAN, key : Setup!Secrets,
              password : Setup!Secrets]
         /\ ([e EXCEPT !.password = Setup!None].there <=> e.there)
         /\ [e EXCEPT !.password = Setup!None].key = e.key
         /\ [e EXCEPT !.password = Setup!None].password = Setup!None
OBVIOUS

LEMMA SetupStep ==
  ASSUME SetupInv, Setup!Next, Frozen
  PROVE  SetupInv' /\ (setupEnv.key # Setup!None /\ ~setupEmptied'
      => setupEnv'.key = setupEnv.key)
<1> USE SetupFields
<1>1. CASE Setup!Setup
  <2>1. PICK p : p = setupProcess'
    OBVIOUS
  <2>s. "env" \in Setup!Steps
    BY DEF Setup!Steps
  <2>2. p \in Processes /\ p.at = "env" /\ (p.generated <=> setupProcess.generated)
    BY <1>1, <2>1, <2>s, ProcessGoes DEF Setup!Setup, Setup!Goto
  <2>3. setupProcess.at = "down" /\ ~setupEnv.there /\ ~setupProcess.generated
    BY <1>1, IdleFields DEF Setup!Setup, Setup!At, Setup!KeepsExisting, SetupInv
  <2> QED
    BY <1>1, <2>1, <2>2, <2>3 DEF Setup!Setup, SetupInv, Setup!At, Processes, After, Changing
<1>2. CASE Setup!WriteEnv
  <2>1. PICK p : p = setupProcess'
    OBVIOUS
  <2>2. setupDrawn + 1 \in Setup!Secrets /\ setupDrawn + 2 \in Setup!Secrets
            /\ setupDrawn + 2 # Setup!None /\ setupDrawn' \in Nat
    BY <1>2, HostAssumption DEF Setup!WriteEnv, Setup!Draw, Setup!Secrets, Setup!None,
       Setup!FirstRunConstants
  <2>s. "report" \in Setup!Steps
    BY DEF Setup!Steps
  <2>3. p \in Processes /\ p.at = "report" /\ p.password = setupDrawn + 2
        /\ (p.generated <=> setupProcess.generated)
    <3>1. p = [setupProcess EXCEPT !.at = "report", !.password = setupDrawn + 2]
      BY <1>2, <2>1 DEF Setup!WriteEnv
    <3> QED
      BY <2>2, <2>s, <3>1 DEF Processes
  <2>4. setupProcess.at = "env" /\ ~setupEnv.there /\ ~setupProcess.generated
    BY <1>2 DEF Setup!WriteEnv, Setup!At, SetupInv, After
  <2>5. PICK e : e = setupEnv'
    OBVIOUS
  <2>6. e \in [there : BOOLEAN, key : Setup!Secrets, password : Setup!Secrets] /\ e.there
        /\ e.password = setupDrawn + 2
    BY <1>2, <2>2, <2>5 DEF Setup!WriteEnv
  <2> QED
    BY <1>2, <2>1, <2>2, <2>3, <2>4, <2>5, <2>6
       DEF Setup!WriteEnv, SetupInv, Setup!At, Processes, After, Changing
<1>3. CASE Setup!WriteReport
  <2>1. PICK p : p = setupProcess'
    OBVIOUS
  <2>2. p \in Processes /\ p.at = "down" /\ ~p.generated /\ p = Setup!Idle
    BY <1>3, <2>1, IdleFields DEF Setup!WriteReport
  <2>3. setupProcess.at = "report" /\ setupReport' = setupProcess.password
            /\ setupAdmin.password = Setup!None
        /\ setupProcess.password = setupEnv.password /\ setupEnv.password # Setup!None
    BY <1>3 DEF Setup!WriteReport, Setup!At, SetupInv
  <2> QED
    BY <1>3, <2>1, <2>2, <2>3 DEF Setup!WriteReport, SetupInv, Setup!At, Processes, After,
       Changing
<1>4. CASE Setup!StartServer
  <2>1. PICK p : p = setupProcess'
    OBVIOUS
  <2>s. "account" \in Setup!Steps
    BY DEF Setup!Steps
  <2>2. p \in Processes /\ p.at = "account" /\ p.password = setupEnv.password
        /\ (p.generated <=> setupProcess.generated)
    <3>1. p = [setupProcess EXCEPT !.at = "account", !.password = setupEnv.password]
      BY <1>4, <2>1 DEF Setup!StartServer, Setup!Bootstrap
    <3> QED
      BY <2>s, <3>1 DEF Processes
  <2>3. setupProcess.at = "down" /\ setupEnv.there /\ ~setupProcess.generated
    BY <1>4, IdleFields DEF Setup!StartServer, Setup!At, SetupInv
  <2> QED
    BY <1>4, <2>1, <2>2, <2>3 DEF Setup!StartServer, SetupInv, Setup!At, Processes, After,
       Changing
<1>5. CASE Setup!CreateAdmin /\ setupAdmin.password # Setup!None
  <2>1. PICK p : p = setupProcess'
    OBVIOUS
  <2>s. "scrub" \in Setup!Steps
    BY DEF Setup!Steps
  <2>2. p \in Processes /\ p.at = "scrub" /\ p.password = setupProcess.password
        /\ (p.generated <=> setupProcess.generated)
    <3>1. p = [setupProcess EXCEPT !.at = "scrub"]
      BY <1>5, <2>1 DEF Setup!CreateAdmin
    <3> QED
      BY <2>s, <3>1, ProcessGoes
  <2>3. setupProcess.at = "account" /\ ~setupProcess.generated
            /\ UNCHANGED <<setupEnv, setupReport, setupAdmin, setupDrawn>>
        /\ UNCHANGED <<setupRefusals, setupCut, setupEmptied>>
    BY <1>5 DEF Setup!CreateAdmin, Setup!At, SetupInv
  <2> QED
    BY <1>5, <2>1, <2>2, <2>3 DEF SetupInv, Setup!At, Processes, After, Changing
<1>6. CASE Setup!CreateAdmin /\ setupAdmin.password = Setup!None
  <2>1. PICK fresh \in BOOLEAN :
          /\ fresh = (setupProcess.password = Setup!None)
          /\ IF fresh THEN Setup!Draw(1) ELSE UNCHANGED setupDrawn
          /\ LET p == IF fresh THEN setupDrawn + 1 ELSE setupProcess.password
             IN /\ setupAdmin' = [password |-> p, must |-> TRUE]
                /\ setupProcess' = [at |-> "scrub", password |-> p, generated |-> fresh]
    BY <1>6 DEF Setup!CreateAdmin
  <2>2. PICK w : w = IF fresh THEN setupDrawn + 1 ELSE setupProcess.password
    OBVIOUS
  <2>3. w \in Setup!Secrets /\ w # Setup!None /\ setupDrawn' \in Nat /\ (~fresh
            => w = setupProcess.password)
        /\ (fresh => setupProcess.password = Setup!None)
    <3>1. CASE fresh
      <4>1. Setup!Draw(1) /\ setupProcess.password = Setup!None
        BY <2>1, <3>1
      <4>2. w = setupDrawn + 1
        BY <2>2, <3>1
      <4> QED
        BY <3>1, <4>1, <4>2, HostAssumption DEF Setup!Draw, Setup!Secrets, Setup!None,
           Setup!FirstRunConstants
    <3>2. CASE ~fresh
      BY <2>1, <2>2, <3>2
    <3> QED
      BY <3>1, <3>2
  <2>4. PICK p : p = setupProcess'
    OBVIOUS
  <2>5. p = [at |-> "scrub", password |-> w, generated |-> fresh]
    BY <2>1, <2>2, <2>4
  <2>6. p \in Processes /\ p.at = "scrub" /\ p.password = w /\ (p.generated <=> fresh)
    BY <2>1, <2>3, <2>5 DEF Processes, Setup!Steps
  <2>7. PICK a : a = setupAdmin'
    OBVIOUS
  <2>8. a \in [password : Setup!Secrets, must : BOOLEAN] /\ a.password = w /\ a.must
    BY <2>1, <2>2, <2>3, <2>7
  <2>9. setupProcess.at = "account"
            /\ UNCHANGED <<setupEnv, setupReport, setupRefusals, setupCut, setupEmptied>>
        /\ setupProcess.password = setupEnv.password /\ setupEnv.there
    BY <1>6 DEF Setup!CreateAdmin, Setup!At, SetupInv
  <2>10. /\ setupReport \in {Setup!None, setupEnv.password}
         /\ ~setupCut /\ setupEnv.password # Setup!None => setupReport = setupEnv.password
    BY <1>6, <2>9 DEF SetupInv, Setup!At
  <2>11. fresh => setupReport = Setup!None
    BY <2>3, <2>9, <2>10
  <2>12. ~fresh => w = setupEnv.password
    BY <2>3, <2>9
  <2> QED
    BY <1>6, <2>3, <2>4, <2>6, <2>7, <2>8, <2>9, <2>10, <2>11, <2>12
       DEF SetupInv, Setup!At, Processes, After, Changing
<1>7. CASE Setup!SeedFails
  <2>1. PICK p : p = setupProcess'
    OBVIOUS
  <2>2. p \in Processes /\ p.at = "serving" /\ ~p.generated
    BY <1>7, <2>1, IdleFields DEF Setup!SeedFails
  <2>3. setupProcess.at = "account" /\ setupRefusals' \in Nat /\ setupRefusals' # 0
            /\ ~setupProcess.generated
    BY <1>7 DEF Setup!SeedFails, Setup!Refuse, Setup!At, SetupInv
  <2> QED
    BY <1>7, <2>1, <2>2, <2>3 DEF Setup!SeedFails, SetupInv, Setup!At, Processes, After,
       Changing
<1>8. CASE Setup!Scrub
  <2>1. PICK p : p = setupProcess'
    OBVIOUS
  <2>s. "tell" \in Setup!Steps
    BY DEF Setup!Steps
  <2>2. p \in Processes /\ p.at = "tell" /\ p.password = setupProcess.password
        /\ (p.generated <=> setupProcess.generated)
    BY <1>8, <2>1, <2>s, ProcessGoes DEF Setup!Scrub, Setup!Goto
  <2>3. setupProcess.at = "scrub" /\ setupEnv.there /\ setupAdmin.password # Setup!None
    BY <1>8 DEF Setup!Scrub, Setup!At, SetupInv, After
  <2>4. PICK e : e = setupEnv'
    OBVIOUS
  <2>5. e \in [there : BOOLEAN, key : Setup!Secrets, password : Setup!Secrets] /\ (e.there
            <=> setupEnv.there)
        /\ e.key = setupEnv.key
    BY <1>8, <2>4, EnvWithout DEF Setup!Scrub, SetupInv
  <2>6. UNCHANGED <<setupReport, setupAdmin, setupDrawn, setupCut, setupEmptied>>
            /\ setupRefusals' \in Nat
        /\ (setupRefusals' = 0 => setupRefusals = 0)
    BY <1>8 DEF Setup!Scrub, Setup!Refuse
  <2> QED
    BY <1>8, <2>1, <2>2, <2>3, <2>4, <2>5, <2>6 DEF SetupInv, Setup!At, Processes, After,
       Changing
<1>9. CASE Setup!Tell
  <2>1. PICK p : p = setupProcess'
    OBVIOUS
  <2>2. p \in Processes /\ p.at = "serving" /\ ~p.generated
    BY <1>9, <2>1, IdleFields DEF Setup!Tell
  <2>3. setupProcess.at = "tell" /\ setupEnv.there /\ setupAdmin.password # Setup!None
        /\ UNCHANGED <<setupEnv, setupAdmin, setupDrawn, setupCut, setupEmptied>>
    BY <1>9 DEF Setup!Tell, Setup!At, SetupInv, After
  <2>4. setupRefusals' \in Nat /\ (setupRefusals' = 0 => setupRefusals = 0)
    BY <1>9 DEF Setup!Tell, Setup!Refuse
  <2>5. \/ setupReport' = setupReport /\ (setupRefusals' = 0 => ~setupProcess.generated)
        \/ setupReport' = setupAdmin.password
    <3>1. CASE setupProcess.generated
      BY <1>9, <3>1 DEF Setup!Tell, Setup!Refuse, SetupInv
    <3>2. CASE ~setupProcess.generated
      BY <1>9, <3>2 DEF Setup!Tell
    <3> QED
      BY <3>1, <3>2
  <2>6. setupReport' \in Setup!Secrets
    BY <2>5 DEF SetupInv
  <2> QED
    BY <1>9, <2>1, <2>2, <2>3, <2>4, <2>5, <2>6 DEF SetupInv, Setup!At, Processes, After,
       Changing
<1>10. CASE Setup!Stop
  <2>1. PICK p : p = setupProcess'
    OBVIOUS
  <2>2. p \in Processes /\ p.at = "down" /\ ~p.generated /\ p = Setup!Idle
    BY <1>10, <2>1, IdleFields DEF Setup!Stop
  <2>3. setupProcess.at = "serving" /\ ~setupProcess.generated
    BY <1>10 DEF Setup!Stop, Setup!At, SetupInv, After
  <2> QED
    BY <1>10, <2>1, <2>2, <2>3 DEF Setup!Stop, SetupInv, Setup!At, Processes, After, Changing
<1>11. CASE Setup!ChangePassword
  <2>1. PICK p : p = setupProcess'
    OBVIOUS
  <2>2. setupDrawn + 1 \in Setup!Secrets /\ setupDrawn + 1 # Setup!None /\ setupDrawn' \in Nat
    BY <1>11, HostAssumption DEF Setup!ChangePassword, Setup!Draw, Setup!Secrets,
       Setup!None, Setup!FirstRunConstants
  <2>s. "changeScrub" \in Setup!Steps
    BY DEF Setup!Steps
  <2>3. p \in Processes /\ p.at = "changeScrub" /\ p.password = setupDrawn + 1
        /\ (p.generated <=> setupProcess.generated)
    <3>1. p = [setupProcess EXCEPT !.at = "changeScrub", !.password = setupDrawn + 1]
      BY <1>11, <2>1 DEF Setup!ChangePassword
    <3> QED
      BY <2>2, <2>s, <3>1 DEF Processes
  <2>4. setupProcess.at = "serving" /\ ~setupProcess.generated /\ setupAdmin.must
            /\ setupAdmin.password # Setup!None
        /\ setupEnv.there
    BY <1>11 DEF Setup!ChangePassword, Setup!At, SetupInv, After, Setup!Readable
  <2> QED
    BY <1>11, <2>1, <2>2, <2>3, <2>4 DEF Setup!ChangePassword, SetupInv, Setup!At, Processes,
       After, Changing
<1>12. CASE Setup!ChangeScrub
  <2>1. PICK p : p = setupProcess'
    OBVIOUS
  <2>s. "changeUnlink" \in Setup!Steps
    BY DEF Setup!Steps
  <2>2. p \in Processes /\ p.at = "changeUnlink" /\ p.password = setupProcess.password
        /\ (p.generated <=> setupProcess.generated)
    BY <1>12, <2>1, <2>s, ProcessGoes DEF Setup!ChangeScrub, Setup!Goto
  <2>3. setupProcess.at = "changeScrub" /\ setupEnv.there /\ setupAdmin.password # Setup!None
            /\ ~setupProcess.generated
        /\ setupProcess.password # Setup!None /\ setupAdmin.must
    BY <1>12 DEF Setup!ChangeScrub, Setup!At, SetupInv, After, Changing
  <2>4. PICK e : e = setupEnv'
    OBVIOUS
  <2>5. e \in [there : BOOLEAN, key : Setup!Secrets, password : Setup!Secrets] /\ (e.there
            <=> setupEnv.there)
        /\ e.key = setupEnv.key
    BY <1>12, <2>4, EnvWithout DEF Setup!ChangeScrub, SetupInv
  <2>6. UNCHANGED <<setupReport, setupAdmin, setupDrawn, setupCut, setupEmptied>>
            /\ setupRefusals' \in Nat
        /\ (setupRefusals' = 0 => setupRefusals = 0)
    BY <1>12 DEF Setup!ChangeScrub, Setup!Refuse
  <2> QED
    BY <1>12, <2>1, <2>2, <2>3, <2>4, <2>5, <2>6 DEF SetupInv, Setup!At, Processes, After,
       Changing
<1>13. CASE Setup!ChangeUnlink
  <2>1. PICK p : p = setupProcess'
    OBVIOUS
  <2>s. "changeCommit" \in Setup!Steps
    BY DEF Setup!Steps
  <2>2. p \in Processes /\ p.at = "changeCommit" /\ p.password = setupProcess.password
        /\ (p.generated <=> setupProcess.generated)
    BY <1>13, <2>1, <2>s, ProcessGoes DEF Setup!ChangeUnlink, Setup!Goto
  <2>3. setupProcess.at = "changeUnlink" /\ setupEnv.there /\ setupAdmin.password # Setup!None
            /\ ~setupProcess.generated
        /\ setupProcess.password # Setup!None /\ setupAdmin.must
    BY <1>13 DEF Setup!ChangeUnlink, Setup!At, SetupInv, After, Changing
  <2>4. UNCHANGED <<setupEnv, setupAdmin, setupDrawn, setupCut, setupEmptied>>
            /\ setupRefusals' \in Nat
        /\ setupReport' \in {Setup!None, setupReport}
    BY <1>13 DEF Setup!ChangeUnlink, Setup!Refuse
  <2> QED
    BY <1>13, <2>1, <2>2, <2>3, <2>4 DEF SetupInv, Setup!At, Processes, After, Changing
<1>14. CASE Setup!ChangeCommit
  <2>1. PICK p : p = setupProcess'
    OBVIOUS
  <2>2. p \in Processes /\ p.at = "serving" /\ ~p.generated
    BY <1>14, <2>1, IdleFields DEF Setup!ChangeCommit
  <2>3. setupProcess.at = "changeCommit" /\ setupEnv.there
            /\ setupProcess.password # Setup!None
    BY <1>14 DEF Setup!ChangeCommit, Setup!At, SetupInv, Changing
  <2>4. PICK a : a = setupAdmin'
    OBVIOUS
  <2>5. a \in [password : Setup!Secrets, must : BOOLEAN] /\ a.password # Setup!None /\ ~a.must
    BY <1>14, <2>3, <2>4 DEF Setup!ChangeCommit
  <2> QED
    BY <1>14, <2>1, <2>2, <2>3, <2>4, <2>5
       DEF Setup!ChangeCommit, SetupInv, Setup!At, Processes, After, Changing
<1>15. CASE Setup!Crash
  <2>1. PICK p : p = setupProcess'
    OBVIOUS
  <2>2. p \in Processes /\ p.at = "down" /\ ~p.generated /\ p = Setup!Idle
    BY <1>15, <2>1, IdleFields DEF Setup!Crash
  <2>3. UNCHANGED <<setupAdmin, setupDrawn, setupRefusals>> /\ setupProcess.at # "down"
    BY <1>15 DEF Setup!Crash, Setup!At
  <2>4. ~setupCut' => /\ ~setupCut /\ setupProcess.at \notin {"report", "changeCommit"}
                      /\ ~setupProcess.generated
    BY <1>15 DEF Setup!Crash, Setup!At, SetupInv, After
  <2>5. CASE UNCHANGED <<setupEnv, setupReport, setupEmptied>>
    BY <1>15, <2>1, <2>2, <2>3, <2>4, <2>5 DEF SetupInv, Setup!At, Processes, After, Changing
  <2>6. CASE /\ setupProcess.at \in {"env", "scrub", "changeScrub"}
             /\ setupEnv' = [there |-> TRUE, key |-> Setup!None, password |-> Setup!None]
             /\ setupEmptied' = TRUE /\ setupReport' = setupReport
    <3>1. PICK e : e = setupEnv'
      OBVIOUS
    <3>2. e \in [there : BOOLEAN, key : Setup!Secrets, password : Setup!Secrets] /\ e.there
          /\ e.password = Setup!None
      BY <2>6, <3>1
    <3>3. setupAdmin.password = Setup!None => setupReport = Setup!None
      BY <2>6 DEF SetupInv, After, Changing, Setup!At
    <3> QED
      BY <2>1, <2>2, <2>3, <2>4, <2>6, <3>1, <3>2, <3>3
         DEF SetupInv, Setup!At, Processes, After, Changing
  <2>7. CASE /\ setupProcess.at \in {"report", "tell"} /\ setupReport' = Setup!None
            /\ UNCHANGED <<setupEnv, setupEmptied>>
             /\ (setupProcess.at = "tell" => setupProcess.generated)
    BY <2>1, <2>2, <2>3, <2>4, <2>7 DEF SetupInv, Setup!At, Processes, After, Changing
  <2> QED
    BY <1>15, <2>5, <2>6, <2>7 DEF Setup!Crash, Setup!At
<1> QED
  BY <1>1, <1>2, <1>3, <1>4, <1>5, <1>6, <1>7, <1>8, <1>9, <1>10, <1>11, <1>12, <1>13,
     <1>14, <1>15 DEF Setup!Next

LEMMA SetupStay == SetupInv /\ UNCHANGED Setup!vars => SetupInv'
BY DEF Setup!vars, SetupInv, Setup!At

LEMMA SetupOpen == SetupInv /\ Frozen => Setup!CredentialsOpen
BY DEF SetupInv, Setup!CredentialsOpen, Setup!At, Setup!Readable, After, Setup!None

----------------------------------------------------------------------------------
(* Copies: what a row, a session and an answer say of the archives of a destination  *)

Tables == UNION {[D -> Cloud!Row] : D \in SUBSET Destinations}
Results == SUBSET [to : Destinations, ok : BOOLEAN]
Readings == [at : {"read"}, archive : Cloud!Numbers, rows : Tables]
Uploads == [at : {"upload"}, archive : Cloud!Numbers, rows : Tables,
            left : SUBSET Destinations, new : Tables, results : Results]
Answers == [at : {"done"}, archive : Cloud!Numbers, results : Results]
Failures == [at : {"error"}, archive : Cloud!Numbers]
Copying == {Cloud!Idle} \cup Readings \cup Uploads \cup Answers \cup Failures

Honest(table, inPlace) ==
  \A d \in DOMAIN table : table[d].synced # Cloud!None => <<d, table[d].synced>> \in inPlace
Vouched(w, inPlace) ==
  /\ w.at \in {"read", "upload"} => Honest(w.rows, inPlace)
  /\ w.at = "upload" => w.left \subseteq DOMAIN w.rows /\ Honest(w.new, inPlace)
  /\ w.at \in {"upload", "done"} =>
       \A x \in w.results : x.ok => <<x.to, w.archive>> \in inPlace

CloudInv ==
  /\ cloudMade \in 0..MaxCopied /\ cloudKey \in 1..MaxSecretKeys
  /\ cloudRows \in Tables
  /\ \A r \in Requests : cloudWork[r] \in Copying /\ Vouched(cloudWork[r], cloudCopies)
  /\ cloudWork = [r \in Requests |-> cloudWork[r]]
  /\ Honest(cloudRows, cloudCopies)

LEMMA Empty == ASSUME NEW f, f = [d \in {} |-> 0] PROVE f \in Tables /\ DOMAIN f = {}
<1>1. f \in [{} -> Cloud!Row] /\ {} \in SUBSET Destinations
  OBVIOUS
<1> QED
  BY <1>1 DEF Tables

LEMMA TableIs ==
  ASSUME NEW f \in Tables
  PROVE  /\ DOMAIN f \in SUBSET Destinations /\ \A d \in DOMAIN f : f[d] \in Cloud!Row
         /\ f = [d \in DOMAIN f |-> f[d]]
BY DEF Tables

LEMMA TableOf ==
  ASSUME NEW D \in SUBSET Destinations, NEW f, f = [d \in D |-> f[d]],
      \A d \in D : f[d] \in Cloud!Row
  PROVE  f \in Tables /\ DOMAIN f = D
<1>1. f \in [D -> Cloud!Row]
  OBVIOUS
<1> QED
  BY <1>1 DEF Tables

LEMMA CopyKinds ==
  ASSUME NEW w \in Copying
  PROVE  /\ w.at = "read"
              => w \in Readings /\ w.archive \in Cloud!Numbers /\ w.rows \in Tables
         /\ w.at = "upload"
              => w \in Uploads /\ w.archive \in Cloud!Numbers /\ w.rows \in Tables
              /\ w.left \in SUBSET Destinations /\ w.new \in Tables /\ w.results \in Results
         /\ w.at = "done" => w.archive \in Cloud!Numbers /\ w.results \in Results
         /\ w.at \in {"idle", "read", "upload", "done", "error"}
BY DEF Copying, Cloud!Idle, Readings, Uploads, Answers, Failures

LEMMA MoreHonest ==
  ASSUME NEW inPlace, NEW more, inPlace \subseteq more
  PROVE  /\ \A f : Honest(f, inPlace) => Honest(f, more)
         /\ \A w : Vouched(w, inPlace) => Vouched(w, more)
BY DEF Honest, Vouched

LEMMA OutcomeIs ==
  ASSUME NEW row \in Cloud!Row, NEW a \in Cloud!Numbers, NEW ok \in BOOLEAN
  PROVE  /\ Cloud!Outcome(row, a, ok) \in Cloud!Row
         /\ Cloud!Outcome(row, a, ok).synced = IF ok THEN a ELSE row.synced
<1>1. a \in 0..MaxCopied
  BY HostAssumption DEF Cloud!Numbers, Cloud!CloudCopiesConstants
<1>2. CASE ok
  <2>1. Cloud!Outcome(row, a, ok) = [row EXCEPT !.synced = a, !.error = FALSE]
    BY <1>2 DEF Cloud!Outcome
  <2> QED
    BY <1>1, <1>2, <2>1 DEF Cloud!Row
<1>3. CASE ~ok
  <2>1. Cloud!Outcome(row, a, ok) = [row EXCEPT !.error = TRUE]
    BY <1>3 DEF Cloud!Outcome
  <2> QED
    BY <1>3, <2>1 DEF Cloud!Row
<1> QED
  BY <1>2, <1>3

LEMMA WrittenIs ==
  ASSUME NEW w \in Uploads, NEW d \in DOMAIN cloudRows, cloudRows \in Tables,
      d \in DOMAIN w.new
  PROVE  /\ Cloud!Written(w, d) \in Cloud!Row
         /\ Cloud!Written(w, d).synced \in {w.new[d].synced, cloudRows[d].synced}
<1>1. cloudRows[d] \in Cloud!Row /\ w.new[d] \in Cloud!Row
  BY TableIs DEF Uploads
<1>2. PICK s, e : /\ s = IF w.new[d].synced # w.rows[d].synced THEN w.new[d].synced
                       ELSE cloudRows[d].synced
                  /\ e = IF w.new[d].error # w.rows[d].error THEN w.new[d].error
                       ELSE cloudRows[d].error
  OBVIOUS
<1>3. Cloud!Written(w, d) = [cloudRows[d] EXCEPT !.synced = s, !.error = e]
  BY <1>2 DEF Cloud!Written
<1>4. s \in 0..MaxCopied /\ s \in {w.new[d].synced, cloudRows[d].synced}
  BY <1>1, <1>2 DEF Cloud!Row
<1>5. e \in BOOLEAN
  <2>1. w.new[d].error \in BOOLEAN /\ cloudRows[d].error \in BOOLEAN
    BY <1>1 DEF Cloud!Row
  <2> QED
    BY <1>2, <2>1
<1> QED
  BY <1>1, <1>3, <1>4, <1>5 DEF Cloud!Row

LEMMA CloudInit == Cloud!Init => CloudInv
<1> SUFFICES ASSUME Cloud!Init PROVE CloudInv
  OBVIOUS
<1>1. cloudRows \in Tables /\ DOMAIN cloudRows = {}
  BY Empty DEF Cloud!Init
<1>2. Cloud!Idle \in Copying /\ Cloud!Idle.at = "idle"
  BY DEF Copying, Cloud!Idle
<1>3. cloudMade \in 0..MaxCopied /\ cloudKey \in 1..MaxSecretKeys
  BY HostAssumption DEF Cloud!Init, Cloud!CloudCopiesConstants
<1>4. cloudWork = [r \in Requests |-> Cloud!Idle]
  BY DEF Cloud!Init
<1> QED
  BY <1>1, <1>2, <1>3, <1>4 DEF CloudInv, Vouched, Honest

\* A step of one request leaves the sessions of the others; copies are only added.
LEMMA CopyStep ==
  ASSUME CloudInv, NEW r \in Requests, NEW w \in Copying,
      cloudWork' = [cloudWork EXCEPT ![r] = w],
         cloudCopies \subseteq cloudCopies', Vouched(w, cloudCopies'),
         cloudMade' \in 0..MaxCopied, cloudKey' = cloudKey, cloudRows' \in Tables,
             Honest(cloudRows', cloudCopies')
  PROVE  CloudInv'
<1>1. \A q \in Requests : cloudWork'[q] = IF q = r THEN w ELSE cloudWork[q]
  BY DEF CloudInv
<1>2. cloudWork' = [q \in Requests |-> cloudWork'[q]]
  BY DEF CloudInv
<1>3. ASSUME NEW q \in Requests
          PROVE cloudWork'[q] \in Copying /\ Vouched(cloudWork'[q], cloudCopies')
  <2>1. cloudWork[q] \in Copying /\ Vouched(cloudWork[q], cloudCopies)
    BY DEF CloudInv
  <2> QED
    BY <1>1, <2>1, MoreHonest
<1> QED
  BY <1>2, <1>3 DEF CloudInv

LEMMA CloudStep == CloudInv /\ [Cloud!Next]_Cloud!vars => CloudInv'
<1> SUFFICES ASSUME CloudInv, [Cloud!Next]_Cloud!vars PROVE CloudInv'
  OBVIOUS
<1>t. /\ cloudMade \in 0..MaxCopied /\ cloudKey \in 1..MaxSecretKeys /\ cloudRows \in Tables
           /\ Honest(cloudRows, cloudCopies)
      /\ \A r \in Requests : cloudWork[r] \in Copying /\ Vouched(cloudWork[r], cloudCopies)
  BY DEF CloudInv
<1>1. CASE UNCHANGED Cloud!vars
  BY <1>1 DEF Cloud!vars, CloudInv
<1>2. ASSUME NEW r \in Requests, Cloud!Backup(r) PROVE CloudInv'
  <2>1. cloudMade + 1 \in Cloud!Numbers /\ cloudMade' = cloudMade + 1
            /\ cloudMade' \in 0..MaxCopied
        /\ UNCHANGED <<cloudRows, cloudKey, cloudCopies>>
    BY <1>2, <1>t, HostAssumption DEF Cloud!Backup, Cloud!Numbers,
       Cloud!CloudCopiesConstants
  <2>2. PICK w : w = IF DOMAIN cloudRows = {}
            THEN [at |-> "done", archive |-> cloudMade + 1, results |-> {}]
                     ELSE [at |-> "read", archive |-> cloudMade + 1, rows |-> cloudRows]
    OBVIOUS
  <2>3. cloudWork' = [cloudWork EXCEPT ![r] = w]
    BY <1>2, <2>2 DEF Cloud!Backup
  <2>4. w \in Copying /\ Vouched(w, cloudCopies)
    <3>1. CASE DOMAIN cloudRows = {}
      <4>1. w = [at |-> "done", archive |-> cloudMade + 1, results |-> {}]
        BY <2>2, <3>1
      <4>2. w \in Answers /\ w.at = "done" /\ w.results = {}
        BY <2>1, <4>1 DEF Answers, Results
      <4> QED
        BY <4>2 DEF Copying, Vouched
    <3>2. CASE DOMAIN cloudRows # {}
      <4>1. w = [at |-> "read", archive |-> cloudMade + 1, rows |-> cloudRows]
        BY <2>2, <3>2
      <4>2. w \in Readings /\ w.at = "read" /\ w.rows = cloudRows
        BY <1>t, <2>1, <4>1 DEF Readings
      <4> QED
        BY <1>t, <4>2 DEF Copying, Vouched
    <3> QED
      BY <3>1, <3>2
  <2> QED
    BY <1>t, <2>1, <2>3, <2>4, CopyStep
<1>3. ASSUME NEW r \in Requests, Cloud!Read(r) PROVE CloudInv'
  <2>1. cloudWork[r].at = "read" /\ UNCHANGED <<cloudMade, cloudRows, cloudKey, cloudCopies>>
    BY <1>3 DEF Cloud!Read
  <2>2. cloudWork[r].archive \in Cloud!Numbers /\ cloudWork[r].rows \in Tables
            /\ Honest(cloudWork[r].rows, cloudCopies)
    BY <1>t, <2>1, CopyKinds DEF Vouched
  <2>3. PICK w : w = IF cloudWork[r].archive \in cloudKept
                     THEN [at |-> "upload", archive |-> cloudWork[r].archive,
                     rows |-> cloudWork[r].rows,
                           left |-> DOMAIN cloudWork[r].rows, new |-> [d \in {} |-> 0],
                               results |-> {}]
                     ELSE [at |-> "error", archive |-> cloudWork[r].archive]
    OBVIOUS
  <2>4. cloudWork' = [cloudWork EXCEPT ![r] = w]
    BY <1>3, <2>3 DEF Cloud!Read
  <2>5. w \in Copying /\ Vouched(w, cloudCopies)
    <3>1. CASE cloudWork[r].archive \in cloudKept
      <4>1. PICK e : e = [d \in {} |-> 0]
        OBVIOUS
      <4>2. e \in Tables /\ DOMAIN e = {}
        BY <4>1, Empty
      <4>3. w = [at |-> "upload", archive |-> cloudWork[r].archive, rows |-> cloudWork[r].rows,
                 left |-> DOMAIN cloudWork[r].rows, new |-> e, results |-> {}]
        BY <2>3, <3>1, <4>1
      <4>4. DOMAIN cloudWork[r].rows \in SUBSET Destinations
        BY <2>2, TableIs
      <4>5. w \in Uploads /\ w.at = "upload" /\ w.rows = cloudWork[r].rows /\ w.new = e
            /\ w.left = DOMAIN w.rows /\ w.results = {}
        BY <2>2, <4>2, <4>3, <4>4 DEF Uploads, Results
      <4> QED
        BY <2>2, <4>2, <4>5 DEF Copying, Vouched, Honest
    <3>2. CASE cloudWork[r].archive \notin cloudKept
      <4>1. w = [at |-> "error", archive |-> cloudWork[r].archive]
        BY <2>3, <3>2
      <4>2. w \in Failures /\ w.at = "error"
        BY <2>2, <4>1 DEF Failures
      <4> QED
        BY <4>2 DEF Copying, Vouched
    <3> QED
      BY <3>1, <3>2
  <2> QED
    BY <1>t, <2>1, <2>4, <2>5, CopyStep
<1>4. ASSUME NEW r \in Requests, NEW d \in Destinations, Cloud!Upload(r, d) PROVE CloudInv'
  <2>1. cloudWork[r].at = "upload" /\ d \in cloudWork[r].left
            /\ UNCHANGED <<cloudMade, cloudRows, cloudKey>>
    BY <1>4 DEF Cloud!Upload
  <2>2. /\ cloudWork[r] \in Uploads /\ cloudWork[r].archive \in Cloud!Numbers
             /\ cloudWork[r].rows \in Tables
        /\ cloudWork[r].left \in SUBSET Destinations /\ cloudWork[r].new \in Tables
        /\ cloudWork[r].results \in Results
        /\ Honest(cloudWork[r].rows, cloudCopies)
             /\ cloudWork[r].left \subseteq DOMAIN cloudWork[r].rows
        /\ Honest(cloudWork[r].new, cloudCopies)
        /\ \A x \in cloudWork[r].results : x.ok
             => <<x.to, cloudWork[r].archive>> \in cloudCopies
    BY <1>t, <2>1, CopyKinds DEF Vouched
  <2>3. PICK stored \in BOOLEAN, ok \in BOOLEAN :
          /\ ok => stored
          /\ cloudCopies' = IF stored THEN cloudCopies \union {<<d, cloudWork[r].archive>>}
               ELSE cloudCopies
          /\ cloudWork' = [cloudWork EXCEPT
                    ![r].left = @ \ {d},
                    ![r].new = [e \in DOMAIN @ \union {d} |->
                                  IF e = d THEN Cloud!Outcome(cloudWork[r].rows[d],
                                      cloudWork[r].archive, ok) ELSE @[e]],
                    ![r].results = @ \union {[to |-> d, ok |-> ok]}]
    BY <1>4 DEF Cloud!Upload
  <2>4. PICK row : row = Cloud!Outcome(cloudWork[r].rows[d], cloudWork[r].archive, ok)
    OBVIOUS
  <2>5. /\ row \in Cloud!Row
        /\ row.synced = IF ok THEN cloudWork[r].archive ELSE cloudWork[r].rows[d].synced
    BY <2>1, <2>2, <2>4, TableIs, OutcomeIs
  <2>6. PICK new : new = [e \in DOMAIN cloudWork[r].new \union {d} |->
                                  IF e = d THEN row ELSE cloudWork[r].new[e]]
    OBVIOUS
  <2>7. new \in Tables /\ DOMAIN new = DOMAIN cloudWork[r].new \cup {d}
    <3>1. DOMAIN cloudWork[r].new \cup {d} \in SUBSET Destinations
      BY <2>2, TableIs
    <3>2. \A e \in DOMAIN cloudWork[r].new \cup {d} : new[e] \in Cloud!Row
      BY <2>2, <2>5, <2>6, TableIs
    <3>3. new = [e \in DOMAIN cloudWork[r].new \cup {d} |-> new[e]]
      BY <2>6
    <3> QED
      BY <3>1, <3>2, <3>3, TableOf
  <2>8. cloudCopies \subseteq cloudCopies' /\ (ok
            => <<d, cloudWork[r].archive>> \in cloudCopies')
    BY <2>3
  <2>9. Honest(new, cloudCopies')
    <3>1. ASSUME NEW e \in DOMAIN new, new[e].synced # Cloud!None
          PROVE  <<e, new[e].synced>> \in cloudCopies'
      <4>1. CASE e = d /\ ok
        BY <2>5, <2>6, <2>7, <2>8, <4>1
      <4>2. CASE e = d /\ ~ok
        <5>1. new[e].synced = cloudWork[r].rows[d].synced /\ d \in DOMAIN cloudWork[r].rows
          BY <2>1, <2>2, <2>5, <2>6, <2>7, <4>2
        <5> QED
          BY <2>2, <2>8, <3>1, <4>2, <5>1 DEF Honest
      <4>3. CASE e # d
        <5>1. new[e] = cloudWork[r].new[e] /\ e \in DOMAIN cloudWork[r].new
          BY <2>6, <2>7, <4>3
        <5> QED
          BY <2>2, <2>8, <3>1, <5>1 DEF Honest
      <4> QED
        BY <4>1, <4>2, <4>3
    <3> QED
      BY <3>1 DEF Honest
  <2>10. PICK results : results = cloudWork[r].results \union {[to |-> d, ok |-> ok]}
    OBVIOUS
  <2>11. results \in Results
         /\ \A x \in results : x.ok => <<x.to, cloudWork[r].archive>> \in cloudCopies'
    <3>1. PICK y : y = [to |-> d, ok |-> ok]
      OBVIOUS
    <3>2. y \in [to : Destinations, ok : BOOLEAN] /\ y.to = d
      BY <3>1
    <3>3. y.ok = ok
      BY <3>1
    <3>4. results = cloudWork[r].results \cup {y}
      BY <2>10, <3>1
    <3>5. results \in Results
      BY <2>2, <3>2, <3>4 DEF Results
    <3>6. \A x \in cloudWork[r].results : x.ok
              => <<x.to, cloudWork[r].archive>> \in cloudCopies'
      BY <2>2, <2>8
    <3>7. y.ok => <<y.to, cloudWork[r].archive>> \in cloudCopies'
      BY <2>8, <3>2, <3>3
    <3> QED
      BY <3>4, <3>5, <3>6, <3>7
  <2>12. PICK w : w = [cloudWork[r] EXCEPT !.left = cloudWork[r].left \ {d}, !.new = new,
             !.results = results]
    OBVIOUS
  <2>13. /\ w \in Uploads /\ w.at = "upload" /\ w.rows = cloudWork[r].rows /\ w.new = new
         /\ w.left = cloudWork[r].left \ {d} /\ w.results = results
              /\ w.archive = cloudWork[r].archive
    BY <2>2, <2>7, <2>11, <2>12 DEF Uploads
  <2>14. cloudWork' = [cloudWork EXCEPT ![r] = w]
    BY <2>3, <2>4, <2>6, <2>10, <2>12 DEF CloudInv
  <2>15. Vouched(w, cloudCopies')
    BY <2>2, <2>8, <2>9, <2>11, <2>13, MoreHonest DEF Vouched
  <2>16. w \in Copying /\ Honest(cloudRows, cloudCopies')
    BY <1>t, <2>8, <2>13, MoreHonest DEF Copying
  <2> QED
    BY <1>t, <2>1, <2>8, <2>14, <2>15, <2>16, CopyStep
<1>5. ASSUME NEW r \in Requests, Cloud!Commit(r) PROVE CloudInv'
  <2>1. cloudWork[r].at = "upload" /\ UNCHANGED <<cloudMade, cloudKey, cloudCopies>>
    BY <1>5 DEF Cloud!Commit
  <2>2. /\ cloudWork[r] \in Uploads /\ cloudWork[r].archive \in Cloud!Numbers
             /\ cloudWork[r].results \in Results
        /\ Honest(cloudWork[r].new, cloudCopies)
        /\ \A x \in cloudWork[r].results : x.ok
             => <<x.to, cloudWork[r].archive>> \in cloudCopies
    BY <1>t, <2>1, CopyKinds DEF Vouched
  <2>3. CASE Cloud!Changed(cloudWork[r]) \subseteq DOMAIN cloudRows
    <3>1. PICK w : w = [at |-> "done", archive |-> cloudWork[r].archive,
              results |-> cloudWork[r].results]
      OBVIOUS
    <3>2. w \in Answers /\ w.at = "done" /\ w.archive = cloudWork[r].archive
          /\ w.results = cloudWork[r].results
      BY <2>2, <3>1 DEF Answers
    <3>3. cloudWork' = [cloudWork EXCEPT ![r] = w]
      BY <1>5, <2>3, <3>1 DEF Cloud!Commit
    <3>4. cloudRows' = [d \in DOMAIN cloudRows |->
                          IF d \in Cloud!Changed(cloudWork[r])
                              THEN Cloud!Written(cloudWork[r], d) ELSE cloudRows[d]]
      BY <1>5, <2>3 DEF Cloud!Commit
    <3>5. ASSUME NEW d \in DOMAIN cloudRows
          PROVE  cloudRows'[d] \in Cloud!Row
                 /\ (cloudRows'[d].synced # Cloud!None
                      => <<d, cloudRows'[d].synced>> \in cloudCopies)
      <4>1. cloudRows[d] \in Cloud!Row /\ (cloudRows[d].synced # Cloud!None
                => <<d, cloudRows[d].synced>> \in cloudCopies)
        BY <1>t, TableIs DEF Honest
      <4>2. CASE d \in Cloud!Changed(cloudWork[r])
        <5>1. cloudRows'[d] = Cloud!Written(cloudWork[r], d) /\ d \in DOMAIN cloudWork[r].new
          BY <3>4, <4>2 DEF Cloud!Changed
        <5>2. cloudWork[r].new[d].synced # Cloud!None
                  => <<d, cloudWork[r].new[d].synced>> \in cloudCopies
          BY <2>2, <5>1 DEF Honest
        <5>3. cloudRows'[d] \in Cloud!Row
                  /\ cloudRows'[d].synced \in {cloudWork[r].new[d].synced, cloudRows[d].synced}
          BY <1>t, <2>2, <5>1, WrittenIs
        <5> QED
          BY <4>1, <5>2, <5>3
      <4>3. CASE d \notin Cloud!Changed(cloudWork[r])
        BY <3>4, <4>1, <4>3
      <4> QED
        BY <4>2, <4>3
    <3>6. cloudRows' \in Tables /\ DOMAIN cloudRows' = DOMAIN cloudRows
      <4>1. cloudRows' = [d \in DOMAIN cloudRows |-> cloudRows'[d]]
        BY <3>4
      <4>2. DOMAIN cloudRows \in SUBSET Destinations
        BY <1>t, TableIs
      <4> QED
        BY <3>5, <4>1, <4>2, TableOf
    <3>7. Honest(cloudRows', cloudCopies)
      BY <3>5, <3>6 DEF Honest
    <3>8. w \in Copying /\ Vouched(w, cloudCopies)
      BY <2>2, <3>2 DEF Copying, Vouched
    <3> QED
      BY <1>t, <2>1, <3>3, <3>6, <3>7, <3>8, CopyStep
  <2>4. CASE ~(Cloud!Changed(cloudWork[r]) \subseteq DOMAIN cloudRows)
    <3>1. PICK w : w = [at |-> "error", archive |-> cloudWork[r].archive]
      OBVIOUS
    <3>2. w \in Failures /\ w.at = "error"
      BY <2>2, <3>1 DEF Failures
    <3>3. cloudWork' = [cloudWork EXCEPT ![r] = w] /\ cloudRows' = cloudRows
      BY <1>5, <2>4, <3>1 DEF Cloud!Commit
    <3>4. w \in Copying /\ Vouched(w, cloudCopies)
      BY <3>2 DEF Copying, Vouched
    <3> QED
      BY <1>t, <2>1, <3>3, <3>4, CopyStep
  <2> QED
    BY <2>3, <2>4
<1>i. Cloud!Idle \in Copying /\ Vouched(Cloud!Idle, cloudCopies)
  BY DEF Copying, Cloud!Idle, Vouched
<1>6. ASSUME NEW r \in Requests, Cloud!Forget(r) PROVE CloudInv'
  <2>1. cloudWork' = [cloudWork EXCEPT ![r] = Cloud!Idle]
            /\ UNCHANGED <<cloudMade, cloudRows, cloudKey, cloudCopies>>
    BY <1>6 DEF Cloud!Forget
  <2> QED
    BY <1>i, <1>t, <2>1, CopyStep
<1>7. ASSUME NEW d \in Destinations, Cloud!Add(d) \/ Cloud!Delete(d) PROVE CloudInv'
  <2>1. UNCHANGED <<cloudMade, cloudKey, cloudCopies, cloudWork>>
    BY <1>7 DEF Cloud!Add, Cloud!Delete
  <2>2. PICK row : row = [cipher |-> cloudKey, synced |-> Cloud!None, error |-> FALSE]
    OBVIOUS
  <2>3. row \in Cloud!Row /\ row.synced = Cloud!None
    BY <1>t, <2>2, HostAssumption DEF Cloud!Row, Cloud!None, Cloud!CloudCopiesConstants
  <2>4. /\ cloudRows' = [e \in DOMAIN cloudRows' |-> cloudRows'[e]]
             /\ DOMAIN cloudRows' \in SUBSET Destinations
        /\ \A e \in DOMAIN cloudRows' : cloudRows'[e] = row
             \/ (e \in DOMAIN cloudRows /\ cloudRows'[e] = cloudRows[e])
    <3>1. CASE Cloud!Add(d)
      BY <1>t, <2>2, <3>1, TableIs DEF Cloud!Add
    <3>2. CASE Cloud!Delete(d)
      BY <1>t, <3>2, TableIs DEF Cloud!Delete
    <3> QED
      BY <1>7, <3>1, <3>2
  <2>5. \A e \in DOMAIN cloudRows' : cloudRows'[e] \in Cloud!Row
    BY <1>t, <2>3, <2>4, TableIs
  <2>6. cloudRows' \in Tables
    BY <2>4, <2>5, TableOf
  <2>7. Honest(cloudRows', cloudCopies)
    BY <1>t, <2>3, <2>4 DEF Honest
  <2> QED
    BY <2>1, <2>6, <2>7 DEF CloudInv
<1>8. CASE Cloud!NewKey
  <2>1. /\ cloudKey' = cloudKey + 1 /\ cloudKey' \in 1..MaxSecretKeys
             /\ cloudWork' = [r \in Requests |-> Cloud!Idle]
        /\ UNCHANGED <<cloudMade, cloudRows, cloudCopies>>
    BY <1>8, <1>t, HostAssumption DEF Cloud!NewKey, Cloud!CloudCopiesConstants
  <2>2. \A r \in Requests : cloudWork'[r] = Cloud!Idle
    BY <2>1
  <2>3. cloudWork' = [r \in Requests |-> cloudWork'[r]]
    BY <2>1
  <2> QED
    BY <1>i, <1>t, <2>1, <2>2, <2>3 DEF CloudInv
<1> QED
  BY <1>1, <1>2, <1>3, <1>4, <1>5, <1>6, <1>7, <1>8 DEF Cloud!Next

LEMMA CopiesHeld == CloudInv => Cloud!SyncedIsCopied
<1> SUFFICES ASSUME CloudInv PROVE Cloud!SyncedIsCopied
  OBVIOUS
<1>1. \A d \in DOMAIN cloudRows : cloudRows[d].synced # Cloud!None
          => <<d, cloudRows[d].synced>> \in cloudCopies
  BY DEF CloudInv, Honest
<1>2. \A r \in Requests : cloudWork[r].at = "done" =>
        \A x \in cloudWork[r].results : x.ok => <<x.to, cloudWork[r].archive>> \in cloudCopies
  BY DEF CloudInv, Vouched
<1> QED
  BY <1>1, <1>2 DEF Cloud!SyncedIsCopied, Cloud!Busy

----------------------------------------------------------------------------------
(* Pictures: a file, its row, and who is about to change either                      *)

Savings == [at : Pictures!Saving, owner : Owners, picture : Nat \ {0}]
Removals == [at : Pictures!Removing, owner : Removable]
IsTable(f) == f = [o \in DOMAIN f |-> f[o]]
Sound(w) ==
  /\ w.at \in {"idle", "digest", "copy"} \cup Pictures!Saving \cup Pictures!Removing
  /\ w.at \in Pictures!Saving => w \in Savings
  /\ w.at \in Pictures!Removing => w \in Removals
  /\ w.at = "digest" => IsTable(w.declared)
  /\ w.at = "copy" =>
       IsTable(w.declared) /\ IsTable(w.held) /\ DOMAIN w.held = DOMAIN w.declared

Saves(w, o) == w.at \in Pictures!Saving /\ w.owner = o
Removes(w, o) == w.at \in Pictures!Removing /\ w.owner = o

\* Of an owner who is not marked: nobody uploads while another removes, and unless somebody
\* removes it the file is there when the row names it or is about to.
Apart(o) == \A r, q \in Requests : ~(Removes(picWork[r], o) /\ Saves(picWork[q], o))
Kept(o) ==
  (\A r \in Requests : ~Removes(picWork[r], o))
      /\ (picRow[o] \/ \E q \in Requests : Saves(picWork[q], o))
    => picFile[o] # Pictures!Absent

MediaInv ==
  /\ picFile \in [Owners -> Nat] /\ picRow \in [Owners -> BOOLEAN] /\ picPictures \in Nat
  /\ picWork = [r \in Requests |-> picWork[r]]
  /\ \A r \in Requests : Sound(picWork[r])
  /\ \A o \in Owners \ picBroken : Apart(o) /\ Kept(o)
  /\ \A a \in picArchives : a.held = a.declared

LEMMA TornIs == Pictures!Torn \in Nat /\ Pictures!Torn # Pictures!Absent
BY HostAssumption DEF Pictures!Torn, Pictures!Absent, Pictures!MediaConstants

LEMMA MediaInit == Pictures!Init => MediaInv
<1> SUFFICES ASSUME Pictures!Init PROVE MediaInv
  OBVIOUS
<1>1. picWork = [r \in Requests |-> Pictures!Idle] /\ Pictures!Idle.at = "idle"
  BY DEF Pictures!Init, Pictures!Idle
<1>2. \A r \in Requests : picWork[r] = Pictures!Idle
  BY <1>1
<1>3. Sound(Pictures!Idle) /\ \A o : ~Saves(Pictures!Idle, o) /\ ~Removes(Pictures!Idle, o)
  BY <1>1 DEF Sound, Saves, Removes, Pictures!Saving, Pictures!Writing, Pictures!Removing
<1>4. \A o \in Owners : Apart(o) /\ Kept(o)
  BY <1>2, <1>3 DEF Apart, Kept, Pictures!Init
<1> QED
  BY <1>1, <1>2, <1>3, <1>4 DEF Pictures!Init, MediaInv, Pictures!Absent

\* Each step leaves sessions sound; what it makes of an owner's file, row and sessions.
LEMMA MediaKept ==
  ASSUME MediaInv, picFile' \in [Owners -> Nat], picRow' \in [Owners -> BOOLEAN],
      picPictures' \in Nat,
         picWork' = [r \in Requests |-> picWork'[r]], \A r \in Requests : Sound(picWork'[r]),
         \A o \in Owners \ picBroken' : Apart(o)' /\ Kept(o)',
         \A a \in picArchives' : a \in picArchives \/ a.held = a.declared
  PROVE  MediaInv'
BY DEF MediaInv

\* A session that neither saves nor removes afterwards, and files and rows as they were.
LEMMA QuietSession ==
  ASSUME MediaInv, NEW r \in Requests, NEW w, Sound(w), picWork' = [picWork EXCEPT ![r] = w],
         \A o : ~Saves(w, o) /\ ~Removes(w, o), \A o : ~Removes(picWork[r], o),
         UNCHANGED <<picFile, picRow, picBroken>>, picPictures' = picPictures,
         \A a \in picArchives' : a \in picArchives \/ a.held = a.declared
  PROVE  MediaInv'
<1>1. \A q \in Requests : picWork'[q] = IF q = r THEN w ELSE picWork[q]
  BY DEF MediaInv
<1>2. picWork' = [q \in Requests |-> picWork'[q]] /\ \A q \in Requests : Sound(picWork'[q])
  BY <1>1 DEF MediaInv
<1>3. ASSUME NEW o \in Owners \ picBroken' PROVE Apart(o)' /\ Kept(o)'
  <2>1. Apart(o) /\ Kept(o)
    BY <1>3 DEF MediaInv
  <2>2. \A q \in Requests : /\ Saves(picWork'[q], o) => Saves(picWork[q], o)
                            /\ Removes(picWork'[q], o) <=> Removes(picWork[q], o)
    BY <1>1
  <2> QED
    BY <2>1, <2>2 DEF Apart, Kept
<1> QED
  BY <1>2, <1>3, MediaKept DEF MediaInv

LEMMA MediaStep == MediaInv /\ [Pictures!Next]_Pictures!vars => MediaInv'
<1> SUFFICES ASSUME MediaInv, [Pictures!Next]_Pictures!vars PROVE MediaInv'
  OBVIOUS
<1>t. /\ picFile \in [Owners -> Nat] /\ picRow \in [Owners -> BOOLEAN] /\ picPictures \in Nat
      /\ \A r \in Requests : Sound(picWork[r])
      /\ \A o \in Owners \ picBroken : Apart(o) /\ Kept(o)
      /\ \A a \in picArchives : a.held = a.declared
  BY DEF MediaInv
<1>i. /\ Pictures!Idle.at = "idle" /\ Sound(Pictures!Idle) /\ \A o : ~Saves(Pictures!Idle, o)
           /\ ~Removes(Pictures!Idle, o)
  BY DEF Pictures!Idle, Sound, Saves, Removes, Pictures!Saving, Pictures!Writing,
     Pictures!Removing
<1>1. CASE UNCHANGED Pictures!vars
  BY <1>1 DEF Pictures!vars, MediaInv, Apart, Kept
<1>2. ASSUME NEW r \in Requests, NEW o \in Owners, Pictures!Receive(r, o) PROVE MediaInv'
  <2>1. /\ picWork[r].at = "idle" /\ picPictures' = picPictures + 1
             /\ UNCHANGED <<picRow, picArchives>>
        /\ picFile' = [picFile EXCEPT ![o] = Pictures!Torn]
        /\ picBroken' = IF Pictures!On(o, Pictures!Removing) # {} THEN picBroken \union {o}
             ELSE picBroken
    BY <1>2 DEF Pictures!Receive
  <2>2. picWork' = [s \in Requests |-> picWork'[s]]
    BY <1>2 DEF Pictures!Receive
  <2>3. /\ Sound(picWork'[r]) /\ Saves(picWork'[r], o) /\ picWork'[r].owner = o
        /\ \A p : ~Removes(picWork'[r], p)
    <3>1. PICK next \in Pictures!Writing :
            picWork'[r] = [at |-> next, owner |-> o, picture |-> picPictures + 1]
      <4>1. picWork'[r] = [at |-> IF Pictures!On(o, Pictures!Writing) = {} THEN "writing"
                ELSE "over",
                           owner |-> o, picture |-> picPictures + 1]
        BY <1>2 DEF Pictures!Receive
      <4> QED
        BY <4>1 DEF Pictures!Writing
    <3> QED
      BY <1>t, <3>1 DEF Sound, Saves, Removes, Savings, Pictures!Saving, Pictures!Writing,
         Pictures!Removing
  <2>4. ASSUME NEW s \in Requests, s # r
        PROVE  Sound(picWork'[s]) /\ \A p : /\ Saves(picWork'[s], p) <=> Saves(picWork[s], p)
                                            /\ Removes(picWork'[s], p)
                                                 <=> Removes(picWork[s], p)
    <3>1. CASE s \in Pictures!On(o, Pictures!Writing)
      <4>1. picWork'[s] = [picWork[s] EXCEPT !.at = "over"]
        BY <1>2, <2>4, <3>1 DEF Pictures!Receive
      <4>2. picWork[s].at \in Pictures!Saving /\ picWork[s] \in Savings
        BY <1>t, <3>1 DEF Pictures!On, Sound, Pictures!Saving
      <4>3. picWork'[s] \in Savings /\ picWork'[s].at = "over"
                /\ picWork'[s].owner = picWork[s].owner
        BY <4>1, <4>2 DEF Savings, Pictures!Saving, Pictures!Writing
      <4> QED
        BY <4>2, <4>3 DEF Sound, Saves, Removes, Pictures!Saving, Pictures!Writing,
           Pictures!Removing
    <3>2. CASE s \notin Pictures!On(o, Pictures!Writing)
      <4>1. picWork'[s] = picWork[s]
        BY <1>2, <2>4, <3>2 DEF Pictures!Receive
      <4> QED
        BY <1>t, <4>1
    <3> QED
      BY <3>1, <3>2
  <2>5. ASSUME NEW p \in Owners \ picBroken' PROVE Apart(p)' /\ Kept(p)'
    <3>1. p \notin picBroken /\ Apart(p) /\ Kept(p)
      BY <1>t, <2>1, <2>5
    <3>2. CASE p = o
      <4>1. \A q \in Requests : ~Removes(picWork[q], o)
        BY <2>1, <2>5, <3>2 DEF Pictures!On, Removes
      <4>2. \A q \in Requests : ~Removes(picWork'[q], o)
        BY <2>3, <2>4, <4>1
      <4>3. picFile'[o] = Pictures!Torn
        BY <1>t, <2>1
      <4> QED
        BY <3>2, <4>2, <4>3, TornIs DEF Apart, Kept, Pictures!Absent
    <3>3. CASE p # o
      <4>1. \A q \in Requests : /\ Saves(picWork'[q], p) => Saves(picWork[q], p)
                                /\ Removes(picWork'[q], p) <=> Removes(picWork[q], p)
        <5>1. ~Saves(picWork'[r], p) /\ ~Removes(picWork[r], p)
          BY <2>1, <2>3, <3>3 DEF Saves, Removes, Pictures!Removing
        <5> QED
          BY <2>3, <2>4, <5>1
      <4>2. picFile'[p] = picFile[p] /\ picRow' = picRow
        BY <1>t, <2>1, <3>3
      <4> QED
        BY <3>1, <4>1, <4>2 DEF Apart, Kept
    <3> QED
      BY <3>2, <3>3
  <2>6. picFile' \in [Owners -> Nat] /\ picPictures' \in Nat
    BY <1>t, <2>1, TornIs
  <2> QED
    BY <1>t, <2>1, <2>2, <2>3, <2>4, <2>5, <2>6, MediaKept
<1>3. ASSUME NEW r \in Requests, Pictures!Save(r) PROVE MediaInv'
  <2>1. picWork[r].at \in Pictures!Writing
            /\ UNCHANGED <<picRow, picPictures, picArchives, picBroken>>
    BY <1>3 DEF Pictures!Save
  <2>2. PICK o \in Owners : o = picWork[r].owner /\ picWork[r] \in Savings
    BY <1>t, <2>1 DEF Sound, Pictures!Saving, Savings
  <2>3. PICK c \in Nat : picFile' = [picFile EXCEPT ![o] = c] /\ (picFile[o] # Pictures!Absent
            => c # Pictures!Absent)
    <3>1. PICK c \in IF picFile[o] = Pictures!Absent THEN {Pictures!Absent}
                     ELSE IF picWork[r].at = "over" THEN {picWork[r].picture, Pictures!Torn}
                     ELSE {picWork[r].picture} : picFile' = [picFile EXCEPT ![o] = c]
      BY <1>3, <2>2 DEF Pictures!Save
    <3>2. picWork[r].picture \in Nat /\ picWork[r].picture # Pictures!Absent
      BY <2>2 DEF Savings, Pictures!Absent
    <3> QED
      BY <3>1, <3>2, TornIs DEF Pictures!Absent
  <2>4. PICK w : w = [picWork[r] EXCEPT !.at = "saved"]
    OBVIOUS
  <2>5. picWork' = [picWork EXCEPT ![r] = w]
    BY <1>3, <2>4 DEF Pictures!Save, Pictures!Step
  <2>6. w \in Savings /\ w.at = "saved" /\ w.owner = o
    BY <2>2, <2>4 DEF Savings, Pictures!Saving
  <2>7. /\ Sound(w) /\ \A p : /\ Saves(w, p) <=> Saves(picWork[r], p)
                              /\ ~Removes(w, p) /\ ~Removes(picWork[r], p)
    BY <2>1, <2>2, <2>6 DEF Sound, Saves, Removes, Pictures!Saving, Pictures!Writing,
       Pictures!Removing
  <2>8. \A q \in Requests : picWork'[q] = IF q = r THEN w ELSE picWork[q]
    BY <2>5 DEF MediaInv
  <2>9. picWork' = [q \in Requests |-> picWork'[q]] /\ \A q \in Requests : Sound(picWork'[q])
    BY <1>t, <2>5, <2>7, <2>8 DEF MediaInv
  <2>10. ASSUME NEW p \in Owners \ picBroken' PROVE Apart(p)' /\ Kept(p)'
    <3>1. Apart(p) /\ Kept(p)
      BY <1>t, <2>1, <2>10
    <3>2. \A q \in Requests : /\ Saves(picWork'[q], p) <=> Saves(picWork[q], p)
                              /\ Removes(picWork'[q], p) <=> Removes(picWork[q], p)
      BY <2>7, <2>8
    <3>3. picFile[p] # Pictures!Absent => picFile'[p] # Pictures!Absent
      BY <1>t, <2>3
    <3> QED
      BY <2>1, <3>1, <3>2, <3>3 DEF Apart, Kept
  <2>11. picFile' \in [Owners -> Nat]
    BY <1>t, <2>3
  <2> QED
    BY <1>t, <2>1, <2>9, <2>10, <2>11, MediaKept
<1>4. ASSUME NEW r \in Requests, Pictures!SaveFails(r) PROVE MediaInv'
  <2>1. /\ picWork[r].at \in Pictures!Writing
             /\ picWork' = [picWork EXCEPT ![r] = Pictures!Idle]
        /\ UNCHANGED <<picFile, picRow, picPictures, picArchives, picBroken>>
    BY <1>4 DEF Pictures!SaveFails, Pictures!Step
  <2>2. \A o : ~Removes(picWork[r], o)
    BY <2>1 DEF Removes, Pictures!Writing, Pictures!Removing
  <2> QED
    BY <1>i, <2>1, <2>2, QuietSession
<1>5. ASSUME NEW r \in Requests, Pictures!CommitPath(r) \/ Pictures!CommitRemoval(r)
          PROVE MediaInv'
  <2>1. /\ picWork' = [picWork EXCEPT ![r] = Pictures!Idle]
             /\ UNCHANGED <<picFile, picPictures, picArchives, picBroken>>
        /\ picWork[r].at \in {"saved", "unlinked"}
        /\ picRow' = [picRow EXCEPT ![picWork[r].owner] = (picWork[r].at = "saved")]
    BY <1>5 DEF Pictures!CommitPath, Pictures!CommitRemoval, Pictures!Step
  <2>2. PICK o \in Owners : o = picWork[r].owner
    <3>1. picWork[r].owner \in Owners \cup Removable
      BY <1>t, <2>1 DEF Sound, Pictures!Saving, Pictures!Removing, Savings, Removals
    <3> QED
      BY <3>1, HostAssumption DEF Pictures!MediaConstants
  <2>3. \A q \in Requests : picWork'[q] = IF q = r THEN Pictures!Idle ELSE picWork[q]
    BY <2>1 DEF MediaInv
  <2>4. picWork' = [q \in Requests |-> picWork'[q]] /\ \A q \in Requests : Sound(picWork'[q])
    BY <1>i, <1>t, <2>1, <2>3 DEF MediaInv
  <2>5. picRow' \in [Owners -> BOOLEAN] /\ picRow'[o] = (picWork[r].at = "saved")
        /\ \A p \in Owners \ {o} : picRow'[p] = picRow[p]
    BY <1>t, <2>1, <2>2
  <2>6. ASSUME NEW p \in Owners \ picBroken' PROVE Apart(p)' /\ Kept(p)'
    <3>1. Apart(p) /\ Kept(p)
      BY <1>t, <2>1, <2>6
    <3>2. \A q \in Requests : /\ Saves(picWork'[q], p) => Saves(picWork[q], p)
                              /\ Removes(picWork'[q], p) => Removes(picWork[q], p)
                              /\ p # o => (Removes(picWork'[q], p) <=> Removes(picWork[q], p))
      BY <1>i, <2>2, <2>3 DEF Removes
    <3>3. Apart(p)'
      BY <3>1, <3>2 DEF Apart
    <3>4. CASE p # o
      BY <2>1, <2>5, <3>1, <3>2, <3>3, <3>4 DEF Kept
    <3>5. CASE p = o /\ picWork[r].at = "saved"
      <4>1. Saves(picWork[r], o) /\ \A q \in Requests : ~Removes(picWork[q], o)
        BY <2>2, <3>1, <3>5 DEF Saves, Pictures!Saving, Apart
      <4>2. picFile[o] # Pictures!Absent
        BY <3>1, <3>5, <4>1 DEF Kept
      <4> QED
        BY <2>1, <3>3, <3>5, <4>2 DEF Kept
    <3>6. CASE p = o /\ picWork[r].at = "unlinked"
      <4>1. Removes(picWork[r], o)
        BY <2>2, <3>6 DEF Removes, Pictures!Removing
      <4>2. \A q \in Requests : ~Saves(picWork'[q], o)
        BY <3>1, <3>2, <3>6, <4>1 DEF Apart
      <4>3. ~picRow'[o]
        BY <2>5, <3>6
      <4> QED
        BY <3>3, <3>6, <4>2, <4>3 DEF Kept
    <3> QED
      BY <2>1, <3>4, <3>5, <3>6
  <2> QED
    BY <1>t, <2>1, <2>4, <2>5, <2>6, MediaKept
<1>6. ASSUME NEW r \in Requests, NEW o \in Removable, Pictures!Unlink(r, o) PROVE MediaInv'
  <2>1. /\ picWork[r].at = "idle" /\ UNCHANGED <<picRow, picPictures, picArchives>>
        /\ picFile' = [picFile EXCEPT ![o] = Pictures!Absent]
        /\ picBroken' = IF Pictures!On(o, Pictures!Saving) # {} THEN picBroken \union {o}
             ELSE picBroken
        /\ o \in Owners
    BY <1>6, HostAssumption DEF Pictures!Unlink, Pictures!MediaConstants
  <2>2. PICK w : w = [at |-> "unlinked", owner |-> o]
    OBVIOUS
  <2>3. picWork' = [picWork EXCEPT ![r] = w]
    BY <1>6, <2>2 DEF Pictures!Unlink, Pictures!Step
  <2>4. Sound(w) /\ \A p : ~Saves(w, p) /\ (Removes(w, p) <=> p = o)
    BY <2>1, <2>2 DEF Sound, Saves, Removes, Removals, Pictures!Saving, Pictures!Writing,
       Pictures!Removing
  <2>5. \A q \in Requests : picWork'[q] = IF q = r THEN w ELSE picWork[q]
    BY <2>3 DEF MediaInv
  <2>6. picWork' = [q \in Requests |-> picWork'[q]] /\ \A q \in Requests : Sound(picWork'[q])
    BY <1>t, <2>3, <2>4, <2>5 DEF MediaInv
  <2>7. ASSUME NEW p \in Owners \ picBroken' PROVE Apart(p)' /\ Kept(p)'
    <3>1. p \notin picBroken /\ Apart(p) /\ Kept(p)
      BY <1>t, <2>1, <2>7
    <3>2. CASE p = o
      <4>1. \A q \in Requests : ~Saves(picWork[q], o)
        BY <2>1, <2>7, <3>2 DEF Pictures!On, Saves
      <4>2. \A q \in Requests : ~Saves(picWork'[q], o)
        BY <2>4, <2>5, <4>1
      <4>3. Removes(picWork'[r], o)
        BY <2>4, <2>5
      <4> QED
        BY <3>2, <4>2, <4>3 DEF Apart, Kept
    <3>3. CASE p # o
      <4>1. \A q \in Requests : /\ Saves(picWork'[q], p) => Saves(picWork[q], p)
                                /\ Removes(picWork'[q], p) <=> Removes(picWork[q], p)
        <5>1. ~Removes(picWork[r], p)
          BY <2>1 DEF Removes, Pictures!Removing
        <5> QED
          BY <2>4, <2>5, <3>3, <5>1
      <4>2. picFile'[p] = picFile[p] /\ picRow' = picRow
        BY <1>t, <2>1, <3>3
      <4> QED
        BY <3>1, <4>1, <4>2 DEF Apart, Kept
    <3> QED
      BY <3>2, <3>3
  <2>8. picFile' \in [Owners -> Nat]
    BY <1>t, <2>1 DEF Pictures!Absent
  <2> QED
    BY <1>t, <2>1, <2>6, <2>7, <2>8, MediaKept
<1>7. CASE Pictures!Crash
  <2>1. /\ picWork' = [r \in Requests |-> Pictures!Idle]
        /\ picBroken'
             = picBroken \union {o \in Removable : Pictures!On(o, Pictures!Removing) # {}}
        /\ UNCHANGED <<picFile, picRow, picPictures, picArchives>>
    BY <1>7 DEF Pictures!Crash
  <2>2. \A r \in Requests : picWork'[r] = Pictures!Idle
    BY <2>1
  <2>3. picWork' = [r \in Requests |-> picWork'[r]] /\ \A r \in Requests : Sound(picWork'[r])
    BY <1>i, <2>1, <2>2
  <2>4. ASSUME NEW p \in Owners \ picBroken' PROVE Apart(p)' /\ Kept(p)'
    <3>1. p \notin picBroken /\ Apart(p) /\ Kept(p)
      BY <1>t, <2>1, <2>4
    <3>2. ASSUME NEW r \in Requests PROVE ~Removes(picWork[r], p)
      <4>1. SUFFICES ASSUME picWork[r].at \in Pictures!Removing, picWork[r].owner = p
                PROVE FALSE
        BY DEF Removes
      <4>2. p \in Removable
        BY <1>t, <4>1 DEF Sound, Removals
      <4> QED
        BY <2>1, <2>4, <4>1, <4>2 DEF Pictures!On
    <3> QED
      BY <1>i, <2>1, <2>2, <3>1, <3>2 DEF Apart, Kept
  <2> QED
    BY <1>t, <2>1, <2>3, <2>4, MediaKept
<1>8. ASSUME NEW r \in Requests, Pictures!Digest(r) PROVE MediaInv'
  <2>1. /\ picWork[r].at = "idle"
             /\ UNCHANGED <<picFile, picRow, picPictures, picArchives, picBroken>>
    BY <1>8 DEF Pictures!Digest
  <2>2. PICK f : f = [o \in Pictures!Present |-> picFile[o]]
    OBVIOUS
  <2>3. PICK w : w = [at |-> "digest", owner |-> "none", declared |-> f,
                         steady |-> {o \in Pictures!Present : Pictures!On(o, Pictures!Writing)
                             = {}}]
    OBVIOUS
  <2>4. picWork' = [picWork EXCEPT ![r] = w]
    BY <1>8, <2>2, <2>3 DEF Pictures!Digest, Pictures!Step
  <2>5. IsTable(f)
    BY <2>2 DEF IsTable
  <2>6. w.at = "digest" /\ w.declared = f
    BY <2>3
  <2>7. Sound(w) /\ (\A o : ~Saves(w, o) /\ ~Removes(w, o)) /\ \A o : ~Removes(picWork[r], o)
    BY <2>1, <2>5, <2>6 DEF Sound, Saves, Removes, Pictures!Saving, Pictures!Writing,
       Pictures!Removing
  <2> QED
    BY <2>1, <2>4, <2>7, QuietSession
<1>9. ASSUME NEW r \in Requests, Pictures!Copy(r) PROVE MediaInv'
  <2>1. /\ picWork[r].at = "digest"
             /\ UNCHANGED <<picFile, picRow, picPictures, picArchives, picBroken>>
        /\ IsTable(picWork[r].declared) /\ \A o : ~Removes(picWork[r], o)
    BY <1>9, <1>t DEF Pictures!Copy, Sound, Removes, Pictures!Removing
  <2>2. CASE picWork' = [picWork EXCEPT ![r] = Pictures!Idle]
    BY <1>i, <2>1, <2>2, QuietSession
  <2>3. ASSUME NEW same,
               picWork' = [picWork EXCEPT ![r] =
                    [at |-> "copy", owner |-> "none", declared |-> picWork[r].declared,
                  held |-> [o \in DOMAIN picWork[r].declared |-> picFile[o]], same |-> same]]
        PROVE  MediaInv'
    <3>1. PICK f : f = [o \in DOMAIN picWork[r].declared |-> picFile[o]]
      OBVIOUS
    <3>2. PICK w : w = [at |-> "copy", owner |-> "none", declared |-> picWork[r].declared,
                           held |-> f, same |-> same]
      OBVIOUS
    <3>3. picWork' = [picWork EXCEPT ![r] = w]
      BY <2>3, <3>1, <3>2
    <3>4. w.at = "copy" /\ w.declared = picWork[r].declared /\ w.held = f
      BY <3>2
    <3>5. IsTable(f) /\ DOMAIN f = DOMAIN picWork[r].declared
      BY <3>1 DEF IsTable
    <3>6. Sound(w) /\ \A o : ~Saves(w, o) /\ ~Removes(w, o)
      BY <2>1, <3>4, <3>5 DEF Sound, Saves, Removes, Pictures!Saving, Pictures!Writing,
         Pictures!Removing
    <3> QED
      BY <2>1, <3>3, <3>6, QuietSession
  <2>4. \/ picWork' = [picWork EXCEPT ![r] = Pictures!Idle]
        \/ \E same \in SUBSET (DOMAIN picWork[r].declared \ picWork[r].steady) :
             picWork' = [picWork EXCEPT ![r] =
                  [at |-> "copy", owner |-> "none", declared |-> picWork[r].declared,
                held |-> [o \in DOMAIN picWork[r].declared |-> picFile[o]],
                same |-> same \union picWork[r].steady]]
    BY <1>9 DEF Pictures!Copy, Pictures!Step
  <2> QED
    BY <2>2, <2>3, <2>4
<1>10. ASSUME NEW r \in Requests, Pictures!Publish(r) PROVE MediaInv'
  <2>1. /\ picWork[r].at = "copy" /\ UNCHANGED <<picFile, picRow, picPictures, picBroken>>
        /\ picWork' = [picWork EXCEPT ![r] = Pictures!Idle] /\ \A o : ~Removes(picWork[r], o)
        /\ IsTable(picWork[r].declared) /\ IsTable(picWork[r].held)
        /\ DOMAIN picWork[r].held = DOMAIN picWork[r].declared
    BY <1>10, <1>t DEF Pictures!Publish, Pictures!Step, Sound, Removes, Pictures!Removing
  <2>2. ASSUME Pictures!Validates(picWork[r]) PROVE picWork[r].held = picWork[r].declared
    <3>1. \A o \in DOMAIN picWork[r].declared : picWork[r].held[o] = picWork[r].declared[o]
      BY <2>2 DEF Pictures!Validates
    <3> QED
      BY <2>1, <3>1 DEF IsTable
  <2>3. ASSUME NEW a \in picArchives' PROVE a \in picArchives \/ a.held = a.declared
    <3>1. CASE a \in picArchives
      BY <3>1
    <3>2. CASE a \notin picArchives
      <4>1. /\ Pictures!Validates(picWork[r])
            /\ a = [declared |-> picWork[r].declared, held |-> picWork[r].held]
        BY <1>10, <2>3, <3>2 DEF Pictures!Publish
      <4> QED
        BY <2>2, <4>1
    <3> QED
      BY <3>1, <3>2
  <2> QED
    BY <1>i, <2>1, <2>3, QuietSession
<1> QED
  BY <1>1, <1>2, <1>3, <1>4, <1>5, <1>6, <1>7, <1>8, <1>9, <1>10 DEF Pictures!Next

LEMMA PicturesHold == MediaInv => Pictures!RowHasItsFile /\ Pictures!PublishedIsWhole
<1> SUFFICES ASSUME MediaInv PROVE Pictures!RowHasItsFile /\ Pictures!PublishedIsWhole
  OBVIOUS
<1>1. ASSUME NEW o \in Owners, picRow[o], o \notin picBroken,
          Pictures!On(o, Pictures!Removing) = {}
      PROVE  picFile[o] # Pictures!Absent
  <2>1. Kept(o)
    BY <1>1 DEF MediaInv
  <2>2. \A r \in Requests : ~Removes(picWork[r], o)
    BY <1>1 DEF Pictures!On, Removes
  <2> QED
    BY <1>1, <2>1, <2>2 DEF Kept
<1> QED
  BY <1>1 DEF MediaInv, Pictures!RowHasItsFile, Pictures!PublishedIsWhole

----------------------------------------------------------------------------------
(* Stops: what a launch obeys, and what an asker waits for                         *)

Starts == [at : {"down", "starting", "ready", "serving", "leaving"},
           older : Nat, kept : BOOLEAN, obeys : Nat]
Waits == [at : {"idle", "waiting", "told", "unanswered"}, whom : Launches \cup {Nobody},
          crossed : BOOLEAN, left : BOOLEAN]

\* The file that a launch may come to see was written after it cleared the directory.
Recent(x, file, last) ==
  /\ x.older <= last
  /\ ~x.kept => file = Stopping!None \/ file > x.older
  /\ ~x.kept => x.obeys = Stopping!None \/ x.obeys > x.older
  /\ x.at \in {"down", "starting"} => x.obeys = Stopping!None

\* Who waits for a launch waits while it serves and the file is there, or has seen it leave.
Awaits(y, file, holder) ==
  y.at \in {"waiting", "told"} /\ ~y.crossed /\ y.whom # Nobody =>
    y.left \/ (y.at = "waiting" /\ holder = y.whom /\ file # Stopping!None)

StopInv ==
  /\ stopRequest \in Nat /\ stopWritten \in Nat /\ stopRequest <= stopWritten
  /\ stopPort \in Launches \cup {Nobody}
  /\ stopServer \in [Launches -> Starts] /\ stopAsker \in [Askers -> Waits]
  /\ \A l \in Launches : Stopping!At(l, "serving") <=> stopPort = l
  /\ \A l \in Launches : Recent(stopServer[l], stopRequest, stopWritten)
  /\ \A a \in Askers : Awaits(stopAsker[a], stopRequest, stopPort)

LEMMA StopInit == Stopping!Init => StopInv
<1> SUFFICES ASSUME Stopping!Init PROVE StopInv
  OBVIOUS
<1>1. Stopping!Down \in Starts /\ Stopping!Down.at = "down" /\ Stopping!Down.older = 0
          /\ Stopping!Down.obeys = 0
  BY DEF Stopping!Down, Starts, Stopping!None
<1>2. Stopping!Still \in Waits /\ Stopping!Still.at = "idle"
  BY DEF Stopping!Still, Waits
<1>3. stopServer \in [Launches -> Starts] /\ stopAsker \in [Askers -> Waits]
  BY <1>1, <1>2 DEF Stopping!Init
<1>4. \A l \in Launches : stopServer[l] = Stopping!Down
  BY DEF Stopping!Init
<1>5. \A a \in Askers : stopAsker[a] = Stopping!Still
  BY DEF Stopping!Init
<1>6. stopRequest = 0 /\ stopWritten = 0 /\ stopPort = Nobody /\ Nobody \notin Launches
  BY HostAssumption DEF Stopping!Init, Stopping!None, Stopping!StopRequestConstants
<1> QED
  BY <1>1, <1>2, <1>3, <1>4, <1>5, <1>6 DEF StopInv, Stopping!At, Recent, Awaits, Stopping!None

\* A step of one launch leaves the others as they are.
LEMMA OneLaunch ==
  ASSUME stopServer \in [Launches -> Starts], NEW l \in Launches, NEW x \in Starts,
         stopServer' = [stopServer EXCEPT ![l] = x]
  PROVE  /\ stopServer' \in [Launches -> Starts] /\ stopServer'[l] = x
         /\ \A k \in Launches \ {l} : stopServer'[k] = stopServer[k]
OBVIOUS

\* The file goes, or a server goes: who waits for another is not told of it, or sees it leave.
LEMMA Withdrawn ==
  ASSUME StopInv, NEW by, Stopping!Withdraw(by),
         stopPort' = stopPort \/ stopPort = Nobody, by = Nobody \/ stopPort # by
  PROVE  /\ stopAsker' \in [Askers -> Waits]
         /\ \A a \in Askers : Awaits(stopAsker'[a], stopRequest', stopPort')
<1>1. ASSUME NEW a \in Askers
      PROVE  stopAsker'[a] \in Waits /\ Awaits(stopAsker'[a], Stopping!None, stopPort')
  <2>1. stopAsker[a] \in Waits /\ Awaits(stopAsker[a], stopRequest, stopPort)
    BY DEF StopInv
  <2>2. CASE stopAsker[a].at = "waiting" /\ stopAsker[a].whom # by
    <3>1. stopAsker'[a] = [stopAsker[a] EXCEPT !.crossed = TRUE]
      BY <2>2 DEF Stopping!Withdraw
    <3>2. stopAsker'[a] \in Waits /\ stopAsker'[a].crossed
      BY <2>1, <3>1 DEF Waits
    <3> QED
      BY <3>2 DEF Awaits
  <2>3. CASE ~(stopAsker[a].at = "waiting" /\ stopAsker[a].whom # by)
    <3>1. stopAsker'[a] = stopAsker[a]
      BY <2>3 DEF Stopping!Withdraw
    <3> QED
      BY <2>1, <2>3, <3>1 DEF Awaits
  <2> QED
    BY <2>2, <2>3
<1>2. stopAsker' = [a \in Askers |-> stopAsker'[a]] /\ stopRequest' = Stopping!None
  BY DEF Stopping!Withdraw
<1> QED
  BY <1>1, <1>2

LEMMA LaunchGone ==
  ASSUME StopInv, NEW l \in Launches, Stopping!Gone(l), stopRequest' = stopRequest,
      stopPort' = IF stopPort = l THEN Nobody ELSE stopPort
  PROVE  /\ stopAsker' \in [Askers -> Waits]
         /\ \A a \in Askers : Awaits(stopAsker'[a], stopRequest', stopPort')
<1>1. ASSUME NEW a \in Askers
      PROVE  stopAsker'[a] \in Waits /\ Awaits(stopAsker'[a], stopRequest', stopPort')
  <2>1. stopAsker[a] \in Waits /\ Awaits(stopAsker[a], stopRequest, stopPort)
    BY DEF StopInv
  <2>2. CASE stopAsker[a].whom = l
    <3>1. stopAsker'[a] = [stopAsker[a] EXCEPT !.left = TRUE]
      BY <2>2 DEF Stopping!Gone
    <3>2. stopAsker'[a] \in Waits /\ stopAsker'[a].left
      BY <2>1, <3>1 DEF Waits
    <3> QED
      BY <3>2 DEF Awaits
  <2>3. CASE stopAsker[a].whom # l
    <3>1. stopAsker'[a] = stopAsker[a]
      BY <2>3 DEF Stopping!Gone
    <3> QED
      BY <2>1, <2>3, <3>1 DEF Awaits
  <2> QED
    BY <2>2, <2>3
<1>2. stopAsker' = [a \in Askers |-> stopAsker'[a]]
  BY DEF Stopping!Gone
<1> QED
  BY <1>1, <1>2

\* What is proved of each step of a launch: its own record, and what is not of launches.
LEMMA LaunchStep ==
  ASSUME StopInv, NEW l \in Launches, NEW x \in Starts,
         stopServer' = [stopServer EXCEPT ![l] = x],
         stopRequest' \in {stopRequest, Stopping!None}, stopWritten' = stopWritten,
         stopPort' \in Launches \cup {Nobody}, x.at = "serving" <=> stopPort' = l,
         \A k \in Launches \ {l} : stopPort' = k <=> stopPort = k,
         Recent(x, stopRequest', stopWritten),
         stopAsker' \in [Askers -> Waits],
         \A a \in Askers : Awaits(stopAsker'[a], stopRequest', stopPort')
  PROVE  StopInv'
<1>1. /\ stopServer' \in [Launches -> Starts] /\ stopServer'[l] = x
      /\ \A k \in Launches \ {l} : stopServer'[k] = stopServer[k]
  BY OneLaunch DEF StopInv
<1>2. stopRequest' \in Nat /\ stopRequest' <= stopWritten'
  BY DEF StopInv, Stopping!None
<1>3. ASSUME NEW k \in Launches
      PROVE  (stopServer'[k].at = "serving" <=> stopPort' = k)
          /\ Recent(stopServer'[k], stopRequest', stopWritten')
  <2>1. CASE k = l
    BY <1>1, <2>1
  <2>2. CASE k # l
    <3>1. stopServer'[k] = stopServer[k] /\ (stopPort' = k <=> stopPort = k)
      BY <1>1, <2>2
    <3>2. (stopServer[k].at = "serving" <=> stopPort = k)
              /\ Recent(stopServer[k], stopRequest, stopWritten)
      BY DEF StopInv, Stopping!At
    <3> QED
      BY <3>1, <3>2 DEF Recent, Stopping!None
  <2> QED
    BY <2>1, <2>2
<1> QED
  BY <1>1, <1>2, <1>3 DEF StopInv, Stopping!At

\* An asker's step, and the others who then wait for a file that has gone.
LEMMA AskersStep ==
  ASSUME StopInv, stopServer' = stopServer, stopPort' = stopPort,
         \/ stopRequest' \in {stopRequest, Stopping!None} /\ stopWritten' = stopWritten
         \/ stopRequest' = stopWritten + 1 /\ stopWritten' = stopWritten + 1,
         stopAsker' \in [Askers -> Waits],
         \A b \in Askers : Awaits(stopAsker'[b], stopRequest', stopPort)
  PROVE  StopInv'
<1>r. \A l \in Launches : stopServer[l] \in Starts
          /\ Recent(stopServer[l], stopRequest, stopWritten)
        /\ (stopServer[l].at = "serving" <=> stopPort = l)
  BY DEF StopInv, Stopping!At
<1>t. stopRequest \in Nat /\ stopWritten \in Nat /\ stopRequest <= stopWritten
          /\ stopPort \in Launches \cup {Nobody}
  BY DEF StopInv
<1>1. stopRequest' \in Nat /\ stopWritten' \in Nat /\ stopRequest' <= stopWritten'
          /\ stopWritten <= stopWritten'
      /\ (stopRequest' = Stopping!None \/ stopRequest' = stopRequest
           \/ stopRequest' > stopWritten)
  BY <1>t DEF Stopping!None
<1>2. ASSUME NEW l \in Launches PROVE Recent(stopServer[l], stopRequest', stopWritten')
  <2>1. stopServer[l] \in Starts /\ Recent(stopServer[l], stopRequest, stopWritten)
    BY <1>r
  <2>2. stopServer[l].older \in Nat
    BY <2>1 DEF Starts
  <2> QED
    BY <1>t, <1>1, <2>1, <2>2 DEF Recent, Stopping!None
<1>4. \A l \in Launches : stopServer'[l] = stopServer[l]
  OBVIOUS
<1>5. /\ stopServer' \in [Launches -> Starts] /\ stopPort' \in Launches \cup {Nobody}
      /\ \A l \in Launches : stopServer'[l].at = "serving" <=> stopPort' = l
  BY <1>r, <1>t DEF StopInv
<1> QED
  BY <1>1, <1>2, <1>4, <1>5 DEF StopInv, Stopping!At

LEMMA StopStep == StopInv /\ [Stopping!Next]_Stopping!vars => StopInv'
<1> SUFFICES ASSUME StopInv, [Stopping!Next]_Stopping!vars PROVE StopInv'
  OBVIOUS
<1> DEFINE Same == stopAsker' = stopAsker /\ stopRequest' = stopRequest /\ stopPort' = stopPort
<1>0. Same => /\ stopAsker' \in [Askers -> Waits]
              /\ \A a \in Askers : Awaits(stopAsker'[a], stopRequest', stopPort')
  BY DEF StopInv
<1>n. Nobody \notin Launches
  BY HostAssumption DEF Stopping!StopRequestConstants
<1>d. Stopping!Down \in Starts /\ Stopping!Down.at = "down" /\ Stopping!Down.older = 0
          /\ Stopping!Down.obeys = 0
  BY DEF Stopping!Down, Starts, Stopping!None
<1>r. \A l \in Launches : stopServer[l] \in Starts
          /\ Recent(stopServer[l], stopRequest, stopWritten)
        /\ (stopServer[l].at = "serving" <=> stopPort = l)
  BY DEF StopInv, Stopping!At
<1>t. stopRequest \in Nat /\ stopWritten \in Nat /\ stopRequest <= stopWritten
          /\ stopPort \in Launches \cup {Nobody}
  BY DEF StopInv
<1>rd. \A file \in {stopRequest, Stopping!None} : Recent(Stopping!Down, file, stopWritten)
  BY <1>d, <1>t DEF Recent, Stopping!None
<1>1. ASSUME NEW l \in Launches, Stopping!Launch(l) PROVE StopInv'
  <2>1. PICK x : x = [Stopping!Down EXCEPT !.at = "starting"]
    OBVIOUS
  <2>2. x \in Starts /\ x.at = "starting" /\ x.older = 0 /\ x.obeys = 0
    BY <2>1 DEF Stopping!Down, Starts, Stopping!None
  <2>3. stopServer' = [stopServer EXCEPT ![l] = x] /\ stopWritten' = stopWritten /\ Same
            /\ stopServer[l].at = "down"
    BY <1>1, <2>1 DEF Stopping!Launch, Stopping!At
  <2>4. Recent(x, stopRequest', stopWritten)
    BY <1>t, <2>2, <2>3 DEF Recent, Stopping!None
  <2> QED
    BY <1>0, <1>r, <1>t, <2>2, <2>3, <2>4, LaunchStep
<1>2. ASSUME NEW l \in Launches, Stopping!Clear(l) PROVE StopInv'
  <2>0. stopServer[l].at = "starting" /\ stopWritten' = stopWritten /\ stopPort' = stopPort
    BY <1>2 DEF Stopping!Clear, Stopping!At
  <2>1. CASE /\ Stopping!Withdraw(Nobody)
             /\ stopServer' = [stopServer EXCEPT ![l].at = "ready", ![l].older = stopWritten]
    <3>1. PICK x : x = [stopServer[l] EXCEPT !.at = "ready", !.older = stopWritten]
      OBVIOUS
    <3>2. x \in Starts /\ x.at = "ready" /\ x.older = stopWritten
              /\ x.obeys = stopServer[l].obeys
      BY <1>r, <1>t, <3>1 DEF Starts
    <3>3. stopServer' = [stopServer EXCEPT ![l] = x]
      BY <2>1, <3>1
    <3>4. x.obeys = Stopping!None
      BY <1>r, <2>0, <3>2 DEF Recent
    <3>5. stopRequest' = Stopping!None
      BY <2>1 DEF Stopping!Withdraw
    <3>6. Recent(x, stopRequest', stopWritten)
      BY <1>t, <3>2, <3>4, <3>5 DEF Recent, Stopping!None
    <3>7. /\ stopAsker' \in [Askers -> Waits]
          /\ \A a \in Askers : Awaits(stopAsker'[a], stopRequest', stopPort')
      BY <2>0, <2>1, Withdrawn
    <3>8. stopPort # l /\ stopPort' = stopPort
      BY <1>r, <2>0
    <3> QED
      BY <1>t, <2>0, <3>2, <3>3, <3>5, <3>6, <3>7, <3>8, LaunchStep
  <2>2. CASE /\ stopRequest # Stopping!None /\ UNCHANGED <<stopRequest, stopAsker>>
             /\ stopServer' = [stopServer EXCEPT ![l].at = "ready", ![l].kept = TRUE]
    <3>1. PICK x : x = [stopServer[l] EXCEPT !.at = "ready", !.kept = TRUE]
      OBVIOUS
    <3>2. x \in Starts /\ x.at = "ready" /\ x.older = stopServer[l].older /\ x.kept
      BY <1>r, <3>1 DEF Starts
    <3>3. stopServer' = [stopServer EXCEPT ![l] = x]
      BY <2>2, <3>1
    <3>4. Recent(x, stopRequest', stopWritten)
      BY <1>r, <2>2, <3>2 DEF Recent
    <3>5. stopPort # l /\ Same
      BY <1>r, <2>0, <2>2
    <3> QED
      BY <1>0, <1>t, <2>0, <3>2, <3>3, <3>4, <3>5, LaunchStep
  <2> QED
    BY <1>2, <2>1, <2>2 DEF Stopping!Clear
<1>3. ASSUME NEW l \in Launches, Stopping!Bind(l) PROVE StopInv'
  <2>1. /\ stopServer[l].at = "ready" /\ UNCHANGED <<stopRequest, stopWritten, stopAsker>>
        /\ stopPort # l
    BY <1>3, <1>r DEF Stopping!Bind, Stopping!At
  <2>2. PICK x : x = [stopServer[l] EXCEPT !.at = IF stopPort = Nobody THEN "serving"
            ELSE "leaving"]
    OBVIOUS
  <2>3. /\ x \in Starts /\ x.at = (IF stopPort = Nobody THEN "serving" ELSE "leaving")
        /\ x.older = stopServer[l].older /\ x.kept = stopServer[l].kept
             /\ x.obeys = stopServer[l].obeys
    BY <1>r, <2>2 DEF Starts
  <2>4. stopServer' = [stopServer EXCEPT ![l] = x] /\ stopPort' = IF stopPort = Nobody THEN l
            ELSE stopPort
    BY <1>3, <2>2 DEF Stopping!Bind
  <2>5. Recent(x, stopRequest', stopWritten)
    BY <1>r, <2>1, <2>3 DEF Recent
  <2>6. \A a \in Askers : Awaits(stopAsker'[a], stopRequest', stopPort')
    BY <2>1, <2>4 DEF StopInv, Awaits
  <2>7. stopAsker' \in [Askers -> Waits]
    BY <2>1 DEF StopInv
  <2>8. /\ stopPort' \in Launches \cup {Nobody} /\ (x.at = "serving" <=> stopPort' = l)
        /\ \A k \in Launches \ {l} : stopPort' = k <=> stopPort = k
    BY <1>n, <1>t, <2>1, <2>3, <2>4
  <2> QED
    BY <2>1, <2>3, <2>4, <2>5, <2>6, <2>7, <2>8, LaunchStep
<1>4. ASSUME NEW l \in Launches, Stopping!Watch(l) PROVE StopInv'
  <2>1. /\ stopServer[l].at \in {"ready", "serving"} /\ stopRequest # Stopping!None
        /\ Same /\ stopWritten' = stopWritten
    BY <1>4 DEF Stopping!Watch, Stopping!Watching, Stopping!At
  <2>2. PICK x : x = [stopServer[l] EXCEPT !.obeys = stopRequest]
    OBVIOUS
  <2>3. /\ x \in Starts /\ x.at = stopServer[l].at
        /\ x.older = stopServer[l].older /\ x.kept = stopServer[l].kept
             /\ x.obeys = stopRequest
    BY <1>r, <1>t, <2>2 DEF Starts
  <2>4. stopServer' = [stopServer EXCEPT ![l] = x]
    BY <1>4, <2>2 DEF Stopping!Watch
  <2>5. Recent(x, stopRequest', stopWritten)
    BY <1>r, <2>1, <2>3 DEF Recent
  <2> QED
    BY <1>0, <1>r, <1>t, <2>1, <2>3, <2>4, <2>5, LaunchStep
<1>5. ASSUME NEW l \in Launches, Stopping!Leave(l) PROVE StopInv'
  <2>1. /\ stopServer[l].at = "serving" /\ stopPort = l /\ stopPort' = Nobody
             /\ Stopping!Gone(l)
        /\ UNCHANGED <<stopRequest, stopWritten>>
    BY <1>5, <1>r DEF Stopping!Leave, Stopping!At
  <2>2. PICK x : x = [stopServer[l] EXCEPT !.at = "leaving"]
    OBVIOUS
  <2>3. /\ x \in Starts /\ x.at = "leaving"
        /\ x.older = stopServer[l].older /\ x.kept = stopServer[l].kept
             /\ x.obeys = stopServer[l].obeys
    BY <1>r, <2>2 DEF Starts
  <2>4. stopServer' = [stopServer EXCEPT ![l] = x]
    BY <1>5, <2>2 DEF Stopping!Leave
  <2>5. Recent(x, stopRequest', stopWritten)
    BY <1>r, <2>1, <2>3 DEF Recent
  <2>6. /\ stopAsker' \in [Askers -> Waits]
        /\ \A a \in Askers : Awaits(stopAsker'[a], stopRequest', stopPort')
    BY <2>1, LaunchGone
  <2>7. /\ stopPort' \in Launches \cup {Nobody} /\ (x.at = "serving" <=> stopPort' = l)
        /\ \A k \in Launches \ {l} : stopPort' = k <=> stopPort = k
    BY <1>n, <2>1, <2>3
  <2> QED
    BY <2>1, <2>3, <2>4, <2>5, <2>6, <2>7, LaunchStep
<1>6. ASSUME NEW l \in Launches, Stopping!Unlink(l) PROVE StopInv'
  <2>1. /\ stopServer[l].at = "leaving" /\ stopPort # l /\ UNCHANGED <<stopWritten, stopPort>>
        /\ stopServer' = [stopServer EXCEPT ![l] = Stopping!Down]
        /\ Stopping!Withdraw(l) \/ UNCHANGED <<stopRequest, stopAsker>>
    BY <1>6, <1>r DEF Stopping!Unlink, Stopping!At
  <2>2. stopRequest' \in {stopRequest, Stopping!None}
    BY <2>1 DEF Stopping!Withdraw
  <2>3. /\ stopAsker' \in [Askers -> Waits]
        /\ \A a \in Askers : Awaits(stopAsker'[a], stopRequest', stopPort')
    BY <1>0, <2>1, Withdrawn
  <2> QED
    BY <1>d, <1>rd, <1>t, <2>1, <2>2, <2>3, LaunchStep
<1>7. ASSUME NEW l \in Launches, Stopping!Kill(l) PROVE StopInv'
  <2>1. /\ stopServer' = [stopServer EXCEPT ![l] = Stopping!Down] /\ Stopping!Gone(l)
        /\ UNCHANGED <<stopRequest, stopWritten>> /\ stopPort' = IF stopPort = l THEN Nobody
             ELSE stopPort
    BY <1>7 DEF Stopping!Kill
  <2>2. /\ stopAsker' \in [Askers -> Waits]
        /\ \A a \in Askers : Awaits(stopAsker'[a], stopRequest', stopPort')
    BY <2>1, LaunchGone
  <2>3. /\ stopPort' \in Launches \cup {Nobody} /\ stopPort' # l
        /\ \A k \in Launches \ {l} : stopPort' = k <=> stopPort = k
    BY <1>n, <1>t, <2>1
  <2> QED
    BY <1>d, <1>rd, <2>1, <2>2, <2>3, LaunchStep
<1>a. \A b \in Askers : stopAsker[b] \in Waits /\ Awaits(stopAsker[b], stopRequest, stopPort)
  BY DEF StopInv
<1>b. stopAsker = [b \in Askers |-> stopAsker[b]]
  BY DEF StopInv
<1>9. ASSUME NEW a \in Askers, Stopping!Ask(a) PROVE StopInv'
  <2>1. PICK y : y = [Stopping!Still EXCEPT !.at = "waiting", !.whom = stopPort]
    OBVIOUS
  <2>2. y \in Waits /\ y.at = "waiting" /\ y.whom = stopPort
    BY <1>t, <2>1 DEF Stopping!Still, Waits
  <2>3. /\ stopAsker' = [stopAsker EXCEPT ![a] = y] /\ UNCHANGED <<stopServer, stopPort>>
        /\ stopRequest' = stopWritten + 1 /\ stopWritten' = stopWritten + 1
    BY <1>9, <2>1 DEF Stopping!Ask
  <2>4. stopRequest' # Stopping!None
    BY <1>t, <2>3 DEF Stopping!None
  <2>5. ASSUME NEW b \in Askers
            PROVE stopAsker'[b] \in Waits /\ Awaits(stopAsker'[b], stopRequest', stopPort)
    <3>1. CASE b = a
      <4>1. stopAsker'[b] = y
        BY <1>b, <2>3, <3>1
      <4> QED
        BY <2>2, <2>4, <4>1 DEF Awaits
    <3>2. CASE b # a
      <4>1. stopAsker'[b] = stopAsker[b]
        BY <1>b, <2>3, <3>2
      <4> QED
        BY <1>a, <2>4, <4>1 DEF Awaits
    <3> QED
      BY <3>1, <3>2
  <2>6. stopAsker' \in [Askers -> Waits]
    BY <1>b, <2>3, <2>5
  <2> QED
    BY <2>3, <2>5, <2>6, AskersStep
<1>10. ASSUME NEW a \in Askers, Stopping!Told(a) \/ Stopping!Done(a) PROVE StopInv'
  <2>1. UNCHANGED <<stopServer, stopPort, stopRequest, stopWritten>>
    BY <1>10 DEF Stopping!Told, Stopping!Done
  <2>2. PICK y : y = IF Stopping!Told(a) THEN [stopAsker[a] EXCEPT !.at = "told"]
            ELSE Stopping!Still
    OBVIOUS
  <2>3. CASE Stopping!Told(a)
    <3>1. stopAsker[a].at = "waiting" /\ stopRequest = Stopping!None
              /\ stopAsker' = [stopAsker EXCEPT ![a] = y]
      BY <2>2, <2>3 DEF Stopping!Told
    <3>2. /\ y \in Waits /\ y.at = "told" /\ y.whom = stopAsker[a].whom
          /\ y.crossed = stopAsker[a].crossed /\ y.left = stopAsker[a].left
      BY <1>a, <2>2, <2>3 DEF Waits
    <3>3. Awaits(y, stopRequest, stopPort)
      BY <1>a, <3>1, <3>2 DEF Awaits
    <3>4. \A b \in Askers : stopAsker'[b] = IF b = a THEN y ELSE stopAsker[b]
      BY <1>b, <3>1
    <3>5. stopAsker' = [b \in Askers |-> stopAsker'[b]]
      BY <1>b, <3>1
    <3>6. \A b \in Askers : stopAsker'[b] \in Waits
              /\ Awaits(stopAsker'[b], stopRequest, stopPort)
      BY <1>a, <3>2, <3>3, <3>4
    <3>7. stopAsker' \in [Askers -> Waits]
      BY <3>5, <3>6
    <3> QED
      BY <2>1, <3>6, <3>7, AskersStep
  <2>4. CASE Stopping!Done(a)
    <3>1. stopAsker' = [stopAsker EXCEPT ![a] = Stopping!Still]
      BY <2>4 DEF Stopping!Done
    <3>2. Stopping!Still \in Waits /\ Awaits(Stopping!Still, stopRequest, stopPort)
      BY DEF Stopping!Still, Waits, Awaits
    <3>3. \A b \in Askers : stopAsker'[b] = IF b = a THEN Stopping!Still ELSE stopAsker[b]
      BY <1>b, <3>1
    <3>4. stopAsker' = [b \in Askers |-> stopAsker'[b]]
      BY <1>b, <3>1
    <3>5. \A b \in Askers : stopAsker'[b] \in Waits
              /\ Awaits(stopAsker'[b], stopRequest, stopPort)
      BY <1>a, <3>2, <3>3
    <3>6. stopAsker' \in [Askers -> Waits]
      BY <3>4, <3>5
    <3> QED
      BY <2>1, <3>5, <3>6, AskersStep
  <2> QED
    BY <1>10, <2>3, <2>4
<1>11. ASSUME NEW a \in Askers, Stopping!TimeOut(a) PROVE StopInv'
  <2>1. UNCHANGED <<stopServer, stopPort, stopWritten>> /\ stopRequest' = Stopping!None
    BY <1>11 DEF Stopping!TimeOut
  <2>2. ASSUME NEW b \in Askers
            PROVE stopAsker'[b] \in Waits /\ Awaits(stopAsker'[b], stopRequest', stopPort)
    <3>1. stopAsker[b] \in Waits /\ Awaits(stopAsker[b], stopRequest, stopPort)
      BY <1>a
    <3>2. CASE b = a
      <4>1. stopAsker'[b] = [stopAsker[b] EXCEPT !.at = "unanswered"]
        BY <1>11, <3>2 DEF Stopping!TimeOut
      <4>2. stopAsker'[b] \in Waits /\ stopAsker'[b].at = "unanswered"
        BY <3>1, <4>1 DEF Waits
      <4> QED
        BY <4>2 DEF Awaits
    <3>3. CASE b # a /\ stopAsker[b].at = "waiting"
      <4>1. stopAsker'[b] = [stopAsker[b] EXCEPT !.crossed = TRUE]
        BY <1>11, <3>3 DEF Stopping!TimeOut
      <4>2. stopAsker'[b] \in Waits /\ stopAsker'[b].crossed
        BY <3>1, <4>1 DEF Waits
      <4> QED
        BY <4>2 DEF Awaits
    <3>4. CASE b # a /\ stopAsker[b].at # "waiting"
      <4>1. stopAsker'[b] = stopAsker[b]
        BY <1>11, <3>4 DEF Stopping!TimeOut
      <4> QED
        BY <3>1, <3>4, <4>1 DEF Awaits
    <3> QED
      BY <3>2, <3>3, <3>4
  <2>3. stopAsker' = [b \in Askers |-> stopAsker'[b]]
    BY <1>11 DEF Stopping!TimeOut
  <2>4. stopAsker' \in [Askers -> Waits]
    BY <2>2, <2>3
  <2> QED
    BY <2>1, <2>2, <2>4, AskersStep
<1>12. CASE UNCHANGED Stopping!vars
  <2>1. UNCHANGED <<stopServer, stopPort, stopRequest, stopWritten, stopAsker>>
    BY <1>12 DEF Stopping!vars
  <2>2. \A b \in Askers : Awaits(stopAsker'[b], stopRequest', stopPort)
    BY <1>a, <2>1
  <2>3. stopAsker' \in [Askers -> Waits]
    BY <2>1 DEF StopInv
  <2> QED
    BY <2>1, <2>2, <2>3, AskersStep
<1> QED
  BY <1>1, <1>2, <1>3, <1>4, <1>5, <1>6, <1>7, <1>9, <1>10, <1>11, <1>12 DEF Stopping!Next

LEMMA StopsTold == StopInv => Stopping!OldRequestsDoNotStop /\ Stopping!ToldIsStopped
<1> SUFFICES ASSUME StopInv PROVE Stopping!OldRequestsDoNotStop /\ Stopping!ToldIsStopped
  OBVIOUS
<1>1. Stopping!OldRequestsDoNotStop
  BY DEF StopInv, Recent, Stopping!OldRequestsDoNotStop
<1>2. Stopping!ToldIsStopped
  BY DEF StopInv, Awaits, Stopping!ToldIsStopped
<1> QED
  BY <1>1, <1>2

----------------------------------------------------------------------------------
(* The service: what its two threads have written of a status, and what is told     *)

Over == svcWorker \in {"raised", "returned"}
Final == [state |-> "stopped", exit |-> IF svcError THEN 1 ELSE 0]

\* As long as no stop was asked for the main thread fills the status alone.
Written ==
  svcMain \in {"joined", "ended"} /\ ~svcAsked =>
    /\ svcThread["main"].at # "rest" => svcThread["main"].says = Final
    /\ svcThread["main"].at = "exit" => svcStatus.state = Final.state
    /\ svcThread["main"].at = "report" => svcStatus = Final
    /\ svcThread["main"].at = "rest" => svcTold = Final

ServiceInv ==
  /\ Service!TypeOK
  /\ \A t \in Service!Threads : svcThread[t].at = "rest" => svcThread[t] = Service!Quiet
  /\ ~svcAsked => svcThread["handler"] = Service!Quiet
  /\ svcMain = "ended" /\ ~svcAsked => svcThread["main"] = Service!Quiet
  /\ svcMain \in {"begin", "starting"} <=> svcWorker = "none"
  /\ svcMain \in {"joined", "ended"} => Over
  /\ svcWorker = "raised" => svcError
  /\ svcStatus.state = "stopped" => Over
  /\ svcTold.state = "stopped" => Over
  /\ \A t \in Service!Threads : svcThread[t].says.state = "stopped" => Over
  /\ Written

LEMMA ServiceInit == Service!Init => ServiceInv
<1> SUFFICES ASSUME Service!Init PROVE ServiceInv
  OBVIOUS
<1>1. /\ Service!Quiet \in [at : {"rest", "state", "exit", "report"}, says : Service!Report]
      /\ Service!Quiet.at = "rest" /\ Service!Quiet.says.state = "none"
           /\ Service!Quiet.says \in Service!Report
  BY DEF Service!Quiet, Service!Report, Service!States
<1>2. \A t \in Service!Threads : svcThread[t] = Service!Quiet
  BY DEF Service!Init
<1>3. svcThread \in [Service!Threads -> [at : {"rest", "state", "exit", "report"},
          says : Service!Report]]
  BY <1>1 DEF Service!Init
<1>4. "main" \in Service!Threads /\ "handler" \in Service!Threads
  BY DEF Service!Threads
<1>5. /\ svcStatus = Service!Quiet.says /\ svcTold = Service!Quiet.says /\ svcMain = "begin"
           /\ svcWorker = "none"
      /\ svcError = FALSE /\ svcAsked = FALSE
  BY DEF Service!Init
<1> QED
  BY <1>1, <1>2, <1>3, <1>4, <1>5 DEF ServiceInv, Service!TypeOK, Over, Written

LEMMA ServiceSays ==
  ASSUME ServiceInv, NEW t \in Service!Threads, NEW state \in Service!States,
      NEW exit \in {0, 1},
         Service!Says(t, state, exit)
  PROVE  /\ svcThread' \in [Service!Threads -> [at : {"rest", "state", "exit", "report"},
              says : Service!Report]]
         /\ svcThread[t] = Service!Quiet
         /\ svcThread'[t].at = "state" /\ svcThread'[t].says = [state |-> state, exit |-> exit]
         /\ svcThread'[t].says.state = state
         /\ \A u \in Service!Threads \ {t} : svcThread'[u] = svcThread[u]
<1>1. PICK x : x = [at |-> "state", says |-> [state |-> state, exit |-> exit]]
  OBVIOUS
<1>2. x \in [at : {"rest", "state", "exit", "report"}, says : Service!Report]
  BY <1>1 DEF Service!Report
<1>3. svcThread' = [svcThread EXCEPT ![t] = x] /\ svcThread[t] = Service!Quiet
  BY <1>1 DEF Service!Says
<1> QED
  BY <1>1, <1>2, <1>3 DEF ServiceInv, Service!TypeOK

LEMMA ServiceFills ==
  ASSUME ServiceInv, NEW t \in Service!Threads,
      Service!SetState(t) \/ Service!SetExit(t) \/ Service!SetServiceStatus(t)
  PROVE  /\ svcThread' \in [Service!Threads -> [at : {"rest", "state", "exit", "report"},
              says : Service!Report]]
         /\ \A u \in Service!Threads \ {t} : svcThread'[u] = svcThread[u]
         /\ svcStatus' \in Service!Report /\ svcTold' \in Service!Report
         /\ UNCHANGED <<svcMain, svcWorker, svcError, svcAsked>>
         /\ \/ /\ svcThread[t].at = "state" /\ svcThread'[t].at = "exit"
               /\ svcThread'[t].says = svcThread[t].says
               /\ svcStatus'.state = svcThread[t].says.state /\ svcTold' = svcTold
            \/ /\ svcThread[t].at = "exit" /\ svcThread'[t].at = "report"
               /\ svcThread'[t].says = svcThread[t].says
               /\ svcStatus'.state = svcStatus.state
                    /\ svcStatus'.exit = svcThread[t].says.exit /\ svcTold' = svcTold
            \/ /\ svcThread[t].at = "report" /\ svcThread'[t] = Service!Quiet
               /\ svcTold' = svcStatus /\ svcStatus' = svcStatus
<1>1. /\ svcStatus \in Service!Report /\ svcTold \in Service!Report
      /\ svcThread \in [Service!Threads -> [at : {"rest", "state", "exit", "report"},
           says : Service!Report]]
  BY DEF ServiceInv, Service!TypeOK
<1>2. CASE Service!SetState(t)
  <2>1. PICK x : x = [svcThread[t] EXCEPT !.at = "exit"]
    OBVIOUS
  <2>2. svcThread' = [svcThread EXCEPT ![t] = x]
    BY <1>2, <2>1 DEF Service!SetState
  <2>3. x \in [at : {"rest", "state", "exit", "report"}, says : Service!Report]
        /\ x.at = "exit" /\ x.says = svcThread[t].says
    BY <1>1, <2>1
  <2>4. svcStatus' = [svcStatus EXCEPT !.state = svcThread[t].says.state]
    BY <1>2 DEF Service!SetState
  <2>5. svcStatus' \in Service!Report /\ svcStatus'.state = svcThread[t].says.state
    BY <1>1, <2>4 DEF Service!Report
  <2> QED
    BY <1>1, <1>2, <2>2, <2>3, <2>5 DEF Service!SetState
<1>3. CASE Service!SetExit(t)
  <2>1. PICK x : x = [svcThread[t] EXCEPT !.at = "report"]
    OBVIOUS
  <2>2. svcThread' = [svcThread EXCEPT ![t] = x]
    BY <1>3, <2>1 DEF Service!SetExit
  <2>3. x \in [at : {"rest", "state", "exit", "report"}, says : Service!Report]
        /\ x.at = "report" /\ x.says = svcThread[t].says
    BY <1>1, <2>1
  <2>4. svcStatus' = [svcStatus EXCEPT !.exit = svcThread[t].says.exit]
    BY <1>3 DEF Service!SetExit
  <2>5. svcStatus' \in Service!Report /\ svcStatus'.exit = svcThread[t].says.exit
            /\ svcStatus'.state = svcStatus.state
    BY <1>1, <2>4 DEF Service!Report
  <2> QED
    BY <1>1, <1>3, <2>2, <2>3, <2>5 DEF Service!SetExit
<1>4. CASE Service!SetServiceStatus(t)
  BY <1>1, <1>4 DEF Service!SetServiceStatus, Service!Quiet, Service!Report, Service!States
<1> QED
  BY <1>2, <1>3, <1>4

LEMMA HostingStep == ServiceInv /\ [Service!Next]_Service!vars => ServiceInv'
<1> SUFFICES ASSUME ServiceInv, [Service!Next]_Service!vars PROVE ServiceInv'
  OBVIOUS
<1>0. Service!Quiet.at = "rest" /\ Service!Quiet.says.state = "none"
          /\ "main" \in Service!Threads
      /\ "handler" \in Service!Threads /\ \A t \in Service!Threads : t = "main"
           \/ t = "handler"
  BY DEF Service!Quiet, Service!Threads
<1>f. Final \in Service!Report /\ Final.state = "stopped"
  BY DEF Final, Service!Report, Service!States
<1>1. CASE UNCHANGED Service!vars
  BY <1>1 DEF Service!vars, ServiceInv, Service!TypeOK, Over, Written, Final
<1>2. CASE Service!Begin
  <2>1. Service!Says("main", "start pending", 0) /\ svcMain = "begin" /\ svcMain' = "starting"
        /\ UNCHANGED <<svcStatus, svcTold, svcWorker, svcError, svcAsked>>
    BY <1>2 DEF Service!Begin
  <2>2. /\ svcThread' \in [Service!Threads -> [at : {"rest", "state", "exit", "report"},
             says : Service!Report]]
        /\ svcThread'["main"].at = "state" /\ svcThread'["main"].says.state = "start pending"
        /\ svcThread'["handler"] = svcThread["handler"]
    BY <1>0, <2>1, ServiceSays DEF Service!States, Service!Threads
  <2> QED
    BY <1>0, <2>1, <2>2 DEF ServiceInv, Service!TypeOK, Over, Written
<1>3. CASE Service!StartWorker
  <2>1. Service!Says("main", "running", 0) /\ svcMain = "starting" /\ svcMain' = "started"
        /\ svcWorker' = "works" /\ UNCHANGED <<svcStatus, svcTold, svcError, svcAsked>>
    BY <1>3 DEF Service!StartWorker
  <2>2. /\ svcThread' \in [Service!Threads -> [at : {"rest", "state", "exit", "report"},
             says : Service!Report]]
        /\ svcThread'["main"].at = "state" /\ svcThread'["main"].says.state = "running"
        /\ svcThread'["handler"] = svcThread["handler"]
    BY <1>0, <2>1, ServiceSays DEF Service!States, Service!Threads
  <2> QED
    BY <1>0, <2>1, <2>2 DEF ServiceInv, Service!TypeOK, Over, Written
<1>4. CASE Service!Join
  <2>1. Service!Says("main", "stopped", IF svcError THEN 1 ELSE 0) /\ svcMain = "started"
            /\ svcMain' = "joined"
        /\ Over /\ UNCHANGED <<svcStatus, svcTold, svcWorker, svcError, svcAsked>>
    BY <1>4 DEF Service!Join, Over
  <2>2. /\ svcThread' \in [Service!Threads -> [at : {"rest", "state", "exit", "report"},
             says : Service!Report]]
        /\ svcThread'["main"].at = "state" /\ svcThread'["main"].says = Final
        /\ svcThread'["handler"] = svcThread["handler"]
    BY <1>0, <2>1, ServiceSays DEF Service!States, Service!Threads, Final
  <2>3. Final' = Final
    BY <2>1 DEF Final
  <2> QED
    BY <1>0, <2>1, <2>2, <2>3 DEF ServiceInv, Service!TypeOK, Over, Written
<1>5. CASE Service!Return
  BY <1>0, <1>5 DEF Service!Return, ServiceInv, Service!TypeOK, Over, Written, Final
<1>6. CASE Service!WorkerReturns
  BY <1>0, <1>6 DEF Service!WorkerReturns, ServiceInv, Service!TypeOK, Over, Written, Final
<1>7. CASE Service!WorkerRaises
  BY <1>0, <1>7 DEF Service!WorkerRaises, ServiceInv, Service!TypeOK, Over, Written, Final
<1>8. CASE Service!Control
  <2>1. Service!Says("handler", "stop pending", 0) /\ svcAsked' = TRUE
        /\ UNCHANGED <<svcStatus, svcTold, svcMain, svcWorker, svcError>>
    BY <1>8 DEF Service!Control
  <2>2. /\ svcThread' \in [Service!Threads -> [at : {"rest", "state", "exit", "report"},
             says : Service!Report]]
        /\ svcThread'["handler"].at = "state"
             /\ svcThread'["handler"].says.state = "stop pending"
        /\ svcThread'["main"] = svcThread["main"]
    BY <1>0, <2>1, ServiceSays DEF Service!States, Service!Threads
  <2> QED
    BY <1>0, <2>1, <2>2 DEF ServiceInv, Service!TypeOK, Over, Written
<1>9. ASSUME NEW t \in Service!Threads,
          Service!SetState(t) \/ Service!SetExit(t) \/ Service!SetServiceStatus(t)
      PROVE  ServiceInv'
  <2>1. /\ svcThread' \in [Service!Threads -> [at : {"rest", "state", "exit", "report"},
             says : Service!Report]]
        /\ \A u \in Service!Threads \ {t} : svcThread'[u] = svcThread[u]
        /\ svcStatus' \in Service!Report /\ svcTold' \in Service!Report
        /\ UNCHANGED <<svcMain, svcWorker, svcError, svcAsked>>
        /\ \/ /\ svcThread[t].at = "state" /\ svcThread'[t].at = "exit"
              /\ svcThread'[t].says = svcThread[t].says
              /\ svcStatus'.state = svcThread[t].says.state /\ svcTold' = svcTold
           \/ /\ svcThread[t].at = "exit" /\ svcThread'[t].at = "report"
              /\ svcThread'[t].says = svcThread[t].says
              /\ svcStatus'.state = svcStatus.state
                   /\ svcStatus'.exit = svcThread[t].says.exit /\ svcTold' = svcTold
           \/ /\ svcThread[t].at = "report" /\ svcThread'[t] = Service!Quiet
              /\ svcTold' = svcStatus /\ svcStatus' = svcStatus
    BY <1>9, ServiceFills
  <2>2. Service!TypeOK' /\ Over' = Over /\ Final' = Final
    BY <2>1 DEF ServiceInv, Service!TypeOK, Over, Final
  <2>3. (\A u \in Service!Threads : svcThread[u].at = "rest" => svcThread[u] = Service!Quiet)'
    BY <1>0, <2>1 DEF ServiceInv
  <2>4. /\ (~svcAsked => svcThread["handler"] = Service!Quiet)'
        /\ (svcMain = "ended" /\ ~svcAsked => svcThread["main"] = Service!Quiet)'
    BY <1>0, <2>1 DEF ServiceInv
  <2>5. /\ (svcStatus.state = "stopped" => Over)' /\ (svcTold.state = "stopped" => Over)'
        /\ (\A u \in Service!Threads : svcThread[u].says.state = "stopped" => Over)'
    BY <1>0, <2>1, <2>2 DEF ServiceInv
  <2>6. Written'
    <3>1. SUFFICES ASSUME svcMain \in {"joined", "ended"}, ~svcAsked
                   PROVE  /\ svcThread'["main"].at # "rest" => svcThread'["main"].says = Final
                          /\ svcThread'["main"].at = "exit" => svcStatus'.state = Final.state
                          /\ svcThread'["main"].at = "report" => svcStatus' = Final
                          /\ svcThread'["main"].at = "rest" => svcTold' = Final
      BY <2>1, <2>2 DEF Written
    <3>2. t = "main" /\ svcThread["main"].at # "rest"
      BY <1>0, <2>1, <3>1 DEF ServiceInv
    <3>3. svcThread["main"].says = Final
      BY <3>1, <3>2 DEF ServiceInv, Written
    <3>4. /\ svcThread["main"].at = "exit" => svcStatus.state = Final.state
          /\ svcThread["main"].at = "report" => svcStatus = Final
      BY <3>1 DEF ServiceInv, Written
    <3>5. svcStatus'.state = Final.state /\ svcStatus'.exit = Final.exit => svcStatus' = Final
      BY <1>f, <2>1 DEF Service!Report
    <3> QED
      BY <1>0, <2>1, <3>2, <3>3, <3>4, <3>5
  <2> QED
    BY <2>1, <2>2, <2>3, <2>4, <2>5, <2>6 DEF ServiceInv
<1> QED
  BY <1>1, <1>2, <1>3, <1>4, <1>5, <1>6, <1>7, <1>8, <1>9 DEF Service!Next

LEMMA CrashTold == ServiceInv => Service!CrashIsReported
<1> SUFFICES ASSUME ServiceInv PROVE Service!CrashIsReported
  OBVIOUS
<1>1. svcTold.state = "stopped" => svcWorker \in {"raised", "returned"}
  BY DEF ServiceInv, Over
<1>2. ASSUME svcMain = "ended", svcWorker = "raised", ~svcAsked
      PROVE  svcTold = [state |-> "stopped", exit |-> 1]
  <2>1. svcThread["main"].at = "rest"
    BY <1>2 DEF ServiceInv, Service!Quiet
  <2>2. svcTold = Final /\ svcError
    BY <1>2, <2>1 DEF ServiceInv, Written
  <2> QED
    BY <2>2 DEF Final
<1> QED
  BY <1>1, <1>2 DEF Service!CrashIsReported

---------------------------------------------------------------------------------
(* The theorems                                                                  *)

LEMMA HostStarts ==
  HostInit => /\ Init /\ Server!Init /\ Client!Init /\ Local!Init
              /\ Setup!Init /\ Stopping!Init /\ Service!Init /\ Cloud!Init /\ Pictures!Init
BY DEF HostInit

LEMMA HostSteps ==
  [HostNext]_<<deployed, beside, part>> =>
    /\ [Next]_vars /\ [Server!Next]_Server!vars /\ [Client!Next]_Client!vars
    /\ [Local!Next]_Local!vars /\ [Setup!Next]_Setup!vars
    /\ [Stopping!Next]_Stopping!vars /\ [Service!Next]_Service!vars
    /\ [Cloud!Next]_Cloud!vars /\ [Pictures!Next]_Pictures!vars
<1>1. UNCHANGED deployed =>
        /\ UNCHANGED vars /\ UNCHANGED Server!vars /\ UNCHANGED Client!vars
        /\ UNCHANGED Local!vars
  BY DEF deployed, server, client, local, Server!vars, Server!files, Client!vars, Local!vars
<1>2. UNCHANGED beside =>
        /\ UNCHANGED Setup!vars /\ UNCHANGED Stopping!vars /\ UNCHANGED Service!vars
        /\ UNCHANGED Cloud!vars /\ UNCHANGED Pictures!vars
  BY DEF beside, setup, stopping, hosting, cloud, pictures, Setup!vars, Stopping!vars,
     Service!vars, Cloud!vars, Pictures!vars
<1>3. ASSUME \/ Next /\ UNCHANGED <<server, client, local>>
             \/ Server!Next /\ UNCHANGED <<vars, client, local>>
             \/ Client!Next /\ UNCHANGED <<vars, server, local>>
             \/ Local!Next /\ UNCHANGED <<vars, server, client>>
      PROVE  /\ [Next]_vars /\ [Server!Next]_Server!vars /\ [Client!Next]_Client!vars
             /\ [Local!Next]_Local!vars
  BY <1>3 DEF server, client, local, Server!vars, Server!files, Client!vars, Local!vars
<1>4. ASSUME \/ Setup!Next /\ UNCHANGED <<stopping, hosting, cloud, pictures>>
             \/ Stopping!Next /\ UNCHANGED <<setup, hosting, cloud, pictures>>
             \/ Service!Next /\ UNCHANGED <<setup, stopping, cloud, pictures>>
             \/ Cloud!Next /\ UNCHANGED <<setup, stopping, hosting, pictures>>
             \/ Pictures!Next /\ UNCHANGED <<setup, stopping, hosting, cloud>>
      PROVE  /\ [Setup!Next]_Setup!vars /\ [Stopping!Next]_Stopping!vars
             /\ [Service!Next]_Service!vars /\ [Cloud!Next]_Cloud!vars
             /\ [Pictures!Next]_Pictures!vars
  BY <1>4 DEF setup, stopping, hosting, cloud, pictures, Setup!vars, Stopping!vars,
     Service!vars, Cloud!vars, Pictures!vars
<1>5. ASSUME HostNext PROVE
        \/ /\ UNCHANGED beside
           /\ \/ Next /\ UNCHANGED <<server, client, local>>
              \/ Server!Next /\ UNCHANGED <<vars, client, local>>
              \/ Client!Next /\ UNCHANGED <<vars, server, local>>
              \/ Local!Next /\ UNCHANGED <<vars, server, client>>
        \/ /\ UNCHANGED deployed
           /\ \/ Setup!Next /\ UNCHANGED <<stopping, hosting, cloud, pictures>>
              \/ Stopping!Next /\ UNCHANGED <<setup, hosting, cloud, pictures>>
              \/ Service!Next /\ UNCHANGED <<setup, stopping, cloud, pictures>>
              \/ Cloud!Next /\ UNCHANGED <<setup, stopping, hosting, pictures>>
              \/ Pictures!Next /\ UNCHANGED <<setup, stopping, hosting, cloud>>
  BY <1>5 DEF HostNext
<1>6. UNCHANGED <<deployed, beside, part>> => UNCHANGED deployed /\ UNCHANGED beside
  OBVIOUS
<1> QED
  BY <1>1, <1>2, <1>3, <1>4, <1>5, <1>6

LEMMA StartupHolds == HostSpec => []IInv
BY HostStarts, HostSteps, InitIInv, StepIInv, PTL DEF HostSpec

\* The disk, the plans and the phase of the start are always as they should be.
THEOREM TypeCorrect == HostSpec => []TypeOK
<1>1. IInv => TypeOK
  BY DEF IInv
<1> QED
  BY <1>1, StartupHolds, PTL

\* Whatever restore and upgrade were pending, wherever the process stopped and
\* whichever file operation failed, what is served has every write that was accepted
\* on it and the last licence that was issued (apply_pending_restore and
\* _restore_safety_backup).
THEOREM NothingIsLost == HostSpec => []NothingLost
<1>1. IInv => NothingLost
  BY DEF IInv, LiveWhole, Whole, NothingLost
<1> QED
  BY <1>1, StartupHolds, PTL

\* However commands of the service, kills, failed downloads, other agents and the
\* auto-healer cross, an activation that none of them touches leaves the executable that
\* it reports (activate_windows_executable); and wherever any number of client updates
\* fail or stop, a whole tree is installed or kept somewhere (update_client).
THEOREM OutcomeHolds == HostSpec => []OutcomeIsTrue
<1>1. DeployedInv /\ ClientInv => OutcomeIsTrue
  BY DeployedOutcome, ClientReturn DEF OutcomeIsTrue
<1>2. HostSpec => []DeployedInv
  BY HostStarts, HostSteps, DeployedInit, DeployedStep, PTL DEF HostSpec
<1>3. HostSpec => []ClientInv
  BY HostStarts, HostSteps, ClientInit, ClientStep, PTL DEF HostSpec
<1> QED
  BY <1>1, <1>2, <1>3, PTL

\* Archives that carry their version, and one stop of the process at most: then the
\* database and the media that are served are of one origin, whatever restores and upgrades
\* were planned, failed and were tried again (apply_pending_restore,
\* _restore_safety_backup); and in any case as many newer valid archives as are to be kept
\* were made for each that a pruning removed (prune_backups).
THEOREM CopiesHold ==
  ASSUME MaxCrashes <= 1, Versioned PROVE HostSpec => []CopiesAreThere
<1>1. IInv /\ TInv /\ ArchivesInv => CopiesAreThere
  BY TogetherHolds, ArchivesKeep DEF CopiesAreThere
<1>2. HostSpec => []ArchivesInv
  BY HostStarts, HostSteps, ArchivesInit, ArchivesStep, PTL DEF HostSpec
<1>3. IInv /\ TInv /\ [Next]_vars => TInv'
  BY TogetherStep
<1>4. Init => TInv
  BY TogetherInit
<1>5. HostSpec => []TInv
  BY <1>3, <1>4, StartupHolds, HostStarts, HostSteps, PTL DEF HostSpec
<1> QED
  BY <1>1, <1>2, <1>5, StartupHolds, PTL

\* The newest archives stay whatever happens to the rest.
THEOREM NewestStay == HostSpec => [](part = "archives" => Local!KeepsTheNewest)
<1>1. ArchivesInv => (part = "archives" => Local!KeepsTheNewest)
  BY ArchivesKeep
<1>2. HostSpec => []ArchivesInv
  BY HostStarts, HostSteps, ArchivesInit, ArchivesStep, PTL DEF HostSpec
<1> QED
  BY <1>1, <1>2, PTL

\* The Windows build, wherever its installation and its starts were cut short and whatever
\* files the system refused: the report has the first administrator's password until it was
\* changed, and .env or the report lets it be read unless a cut or a refusal fell where the
\* property says; and the key of the sessions stays (first_run.py, main.py).
THEOREM FirstStartOpens == ASSUME Frozen PROVE HostSpec => FirstRunOpens
<1>1. /\ SetupInv /\ [Setup!Next]_Setup!vars => SetupInv'
      /\ SetupInv /\ [Setup!Next]_Setup!vars =>
           [setupEnv.key # Setup!None /\ ~setupEmptied'
               => setupEnv'.key = setupEnv.key]_Setup!vars
  BY SetupStep, SetupStay
<1>2. SetupInv => Setup!CredentialsOpen
  BY SetupOpen
<1> QED
  BY <1>1, <1>2, HostStarts, HostSteps, SetupInit, PTL
     DEF HostSpec, FirstRunOpens, Setup!KeyKept

\* For any destinations, archives, keys, requests that cross, deletions and uploads that
\* fail: a destination that is said to have an archive has it (cloud_backup.sync_backup and
\* its callers); and for any owners, uploads, removals, backups and failed writes: a picture
\* that a row names is on the disk unless its removal was cut short or crossed an upload,
\* and an archive holds what its manifest declares (media.py, backup.py).
THEOREM FilesHold == HostSpec => []FilesAreThere
<1>1. HostSpec => []CloudInv
  BY HostStarts, HostSteps, CloudInit, CloudStep, PTL DEF HostSpec
<1>2. HostSpec => []MediaInv
  BY HostStarts, HostSteps, MediaInit, MediaStep, PTL DEF HostSpec
<1>3. CloudInv /\ MediaInv => FilesAreThere
  BY CopiesHeld, PicturesHold DEF FilesAreThere
<1> QED
  BY <1>1, <1>2, <1>3, PTL

\* For any launches, askers, requests, kills and refused removals: no server stops for a
\* request that is older than its start, and an asker is told of a stop that took place
\* (run_server.py, stop_server); and a service whose server died reports it
\* (windows_service.py).
THEOREM StopsHold == HostSpec => []StopsAreTold
<1>1. HostSpec => []StopInv
  BY HostStarts, HostSteps, StopInit, StopStep, PTL DEF HostSpec
<1>2. HostSpec => []ServiceInv
  BY HostStarts, HostSteps, ServiceInit, HostingStep, PTL DEF HostSpec
<1>3. StopInv /\ ServiceInv => StopsAreTold
  BY StopsTold, CrashTold DEF StopsAreTold
<1> QED
  BY <1>1, <1>2, <1>3, PTL
=================================================================================
