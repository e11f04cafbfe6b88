------------------------------- MODULE Deployment -------------------------------
(* The update of the server's executable: the agent's lock and download             *)
(* (services/update_agent.py, scripts/update_agent.py), its activation              *)
(* (services/deployment_guard.py), the same activation started by hand without the  *)
(* lock (scripts/deploy_safe.py), and the auto-healer that restarts the service     *)
(* (scripts/auto_heal.py) while all this goes on.                                   *)
(*                                                                                  *)
(* The service control commands return before the service has stopped; Windows      *)
(* replaces no executable that is still running.  An agent may be killed between    *)
(* any two steps; then nothing undoes what it did.  No caller passes health_check,  *)
(* so that the health gate of the activation is never there.                        *)
EXTENDS Integers, FiniteSets

CONSTANTS
  Agents,            \* runs of the update agent and of deploy_safe, each once
  Manual,            \* those of deploy_safe
  Target,            \* [Agents -> versions]: what each one installs
  First,             \* the version that is installed before
  Broken,            \* versions whose service ends as soon as it is started
  MAX_RESTARTS,      \* of the auto-healer
  NoLock, Unwritten, \* no lock file; one that holds no number yet
  MaxFaults          \* bound: kills, failed commands, failed downloads

VARIABLES
  active,            \* SIGMA-Server.exe
  previous,          \* .rollback/SIGMA-Server.previous.exe, None if there is none
  staged,            \* the versions in .staging
  service,           \* "running", "stopping" or "stopped"
  image,             \* the version that the service runs or ran last
  lock,              \* .update.lock: NoLock, Unwritten, or the agent whose number it holds
  agent,             \* agent[a]: at, outcome; found and left: the active version then; crossed
  healer,            \* at, restarts
  tries,             \* history: restarts since the service was last seen well
  faults

files == <<active, previous, staged>>
vars == <<files, service, image, lock, agent, healer, tries, faults>>

None == 0
Versions == {First} \cup {Target[a] : a \in Agents}

DeploymentConstants ==
  /\ IsFiniteSet(Agents) /\ Manual \subseteq Agents
  /\ NoLock \notin Agents /\ Unwritten \notin Agents
  /\ Versions \subseteq Nat \ {None} /\ Broken \subseteq Versions
  /\ MAX_RESTARTS \in Nat \ {0} /\ MaxFaults \in Nat

Activating == {"stop", "swap", "start", "undo stop", "undo swap", "undo start"}
Inside == Activating \cup {"download", "stage", "keep", "activated", "failed"}
Ended == {"over", "blocked", "killed"}

TypeOK ==
  /\ active \in Versions /\ previous \in Versions \cup {None} /\ staged \subseteq Versions
  /\ service \in {"running", "stopping", "stopped"} /\ image \in Versions
  /\ lock \in Agents \cup {NoLock, Unwritten}
  /\ \A a \in Agents :
       /\ agent[a].at \in Inside \cup Ended \cup {"new", "lock", "write", "read", "steal", "relock"}
       /\ {agent[a].found, agent[a].left} \subseteq Versions \cup {None}
  /\ healer.at \in {"watch", "stop", "start"} /\ healer.restarts \in 0..MAX_RESTARTS
  /\ tries \in Nat

Init ==
  /\ active = First /\ previous = None /\ staged = {}
  /\ service = "running" /\ image = First
  /\ lock = NoLock
  /\ agent = [a \in Agents |-> [at |-> "new", found |-> None, left |-> None,
                                outcome |-> "none", crossed |-> FALSE]]
  /\ healer = [at |-> "watch", restarts |-> 0]
  /\ tries = 0 /\ faults = 0

----------------------------------------------------------------------------------
Fault == faults < MaxFaults /\ faults' = faults + 1
Goes(a, place) == agent' = [agent EXCEPT ![a].at = place]

\* Whoever touches the files or the service while another is at it crosses it.
Crossing(by) == [b \in Agents |-> IF b # by /\ agent[b].at \in Activating
                                  THEN [agent[b] EXCEPT !.crossed = TRUE] ELSE agent[b]]
Acts(a, place) ==
  agent' = [Crossing(a) EXCEPT
    ![a].at = place,
    ![a].outcome = IF place \in {"activated", "failed"} THEN place ELSE @,
    ![a].left = IF place \in {"activated", "failed"} THEN active' ELSE @,
    ![a].crossed = @ \/ \E b \in Agents \ {a} : agent[b].at \in Activating]

Alive(a) == agent[a].at \notin Ended \cup {"new"}

----------------------------------------------------------------------------------
(* The lock                                                                       *)

Begin(a) ==
  /\ agent[a].at = "new"
  /\ Goes(a, IF a \in Manual THEN "stage" ELSE "lock")
  /\ UNCHANGED <<files, service, image, lock, healer, tries, faults>>

\* os.open with O_EXCL, twice at most; the number is written next.
CreateLock(a) ==
  /\ agent[a].at \in {"lock", "relock"}
  /\ IF lock = NoLock THEN lock' = Unwritten /\ Goes(a, "write")
     ELSE lock' = lock /\ Goes(a, IF agent[a].at = "lock" THEN "read" ELSE "blocked")
  /\ UNCHANGED <<files, service, image, healer, tries, faults>>

WritePid(a) ==
  /\ agent[a].at = "write"
  /\ lock' = IF lock = Unwritten THEN a ELSE lock
  /\ Goes(a, "download")
  /\ UNCHANGED <<files, service, image, healer, tries, faults>>

\* _pid_is_alive: on Windows os.kill(pid, 0) sends a console event and mostly fails,
\* which the code takes for a process that has ended.
LooksEnded(b) == IF Alive(b) THEN {TRUE, FALSE} ELSE {TRUE}
ReadLock(a) ==
  /\ agent[a].at = "read"
  /\ IF lock \in Agents
     THEN \E ended \in LooksEnded(lock) : Goes(a, IF ended THEN "steal" ELSE "blocked")
     ELSE Goes(a, "blocked")
  /\ UNCHANGED <<files, service, image, lock, healer, tries, faults>>

StealLock(a) ==
  /\ agent[a].at = "steal"
  /\ lock' = NoLock
  /\ Goes(a, IF lock = NoLock THEN "blocked" ELSE "relock")
  /\ UNCHANGED <<files, service, image, healer, tries, faults>>

\* release_lock removes the file, whoever wrote it.
Leave(a) ==
  /\ agent[a].at \in {"activated", "failed"}
  /\ Goes(a, "over")
  /\ lock' = IF a \in Manual THEN lock ELSE NoLock
  /\ UNCHANGED <<files, service, image, healer, tries, faults>>

----------------------------------------------------------------------------------
(* The activation                                                                 *)

Download(a) ==
  /\ agent[a].at = "download"
  /\ \/ Goes(a, "stage") /\ faults' = faults
     \/ Goes(a, "failed") /\ Fault
  /\ UNCHANGED <<files, service, image, lock, healer, tries>>

Stage(a) ==
  /\ agent[a].at = "stage"
  /\ \/ staged' = staged \cup {Target[a]} /\ Goes(a, "keep") /\ faults' = faults
     \/ staged' = staged /\ Goes(a, "failed") /\ Fault
  /\ UNCHANGED <<active, previous, service, image, lock, healer, tries>>

Kept_Target(a) == Target[a]
Kept(a) == active
KeepPrevious(a) ==
  /\ agent[a].at = "keep"
  /\ previous' = Kept(a)
  /\ agent' = [Crossing(a) EXCEPT ![a].at = "stop", ![a].found = active]
  /\ UNCHANGED <<active, staged, service, image, lock, healer, tries, faults>>

\* sc stop: accepted or not, and not waited for beyond half a second.
AskedToStop == IF service = "running" THEN "stopping" ELSE service
StopService(a, at, next) ==
  /\ agent[a].at = at
  /\ \/ service' = AskedToStop /\ faults' = faults
     \/ service' = service /\ Fault
  /\ Acts(a, next)
  /\ UNCHANGED <<files, image, lock, healer, tries>>

Free == service = "stopped"

\* os.replace(staged, active)
Swap(a) ==
  /\ agent[a].at = "swap"
  /\ IF Free /\ Target[a] \in staged
     THEN /\ active' = Target[a] /\ staged' = staged \ {Target[a]}
          /\ Acts(a, "start")
     ELSE /\ UNCHANGED <<active, staged>>
          /\ Acts(a, IF previous # None THEN "undo stop" ELSE "failed")
  /\ UNCHANGED <<previous, service, image, lock, healer, tries, faults>>

\* sc start: refused for a service that is not stopped.
Starts(well) ==
  IF well THEN Free /\ service' = "running" /\ image' = active /\ faults' = faults
  ELSE /\ UNCHANGED <<service, image>>
       /\ IF Free THEN Fault ELSE faults' = faults

StartService(a) ==
  /\ agent[a].at = "start"
  /\ UNCHANGED <<files, lock, healer, tries>>
  /\ \/ Starts(TRUE) /\ Acts(a, "activated")
     \/ Starts(FALSE) /\ Acts(a, IF previous # None THEN "undo stop" ELSE "failed")

\* The second os.replace is not guarded: its error ends the activation.
UndoSwap(a) ==
  /\ agent[a].at = "undo swap"
  /\ IF Free /\ previous # None
     THEN active' = previous /\ previous' = None /\ Acts(a, "undo start")
     ELSE UNCHANGED <<active, previous>> /\ Acts(a, "failed")
  /\ UNCHANGED <<staged, service, image, lock, healer, tries, faults>>

UndoStart(a) ==
  /\ agent[a].at = "undo start"
  /\ UNCHANGED <<files, lock, healer, tries>>
  /\ Starts(TRUE) \/ Starts(FALSE)
  /\ Acts(a, "failed")

Kill(a) ==
  /\ agent[a].at \notin Ended \cup {"new"} /\ Fault
  /\ Goes(a, "killed")
  /\ UNCHANGED <<files, service, image, lock, healer, tries>>

----------------------------------------------------------------------------------
(* The service and its auto-healer                                                *)

StopCompletes ==
  /\ service = "stopping" /\ service' = "stopped"
  /\ UNCHANGED <<files, image, lock, agent, healer, tries, faults>>

ServiceDies ==
  /\ service = "running"
  /\ IF image \in Broken THEN faults' = faults ELSE Fault
  /\ service' = "stopped"
  /\ UNCHANGED <<files, image, lock, agent, healer, tries>>

Well == service = "running" /\ image \notin Broken

Reset_Never == healer
Reset == [healer EXCEPT !.restarts = 0]
ProbeWell ==
  /\ healer.at = "watch" /\ Well
  /\ healer' = Reset /\ tries' = 0
  /\ UNCHANGED <<files, service, image, lock, agent, faults>>

\* The cooldown has passed when this happens.
ProbeIll ==
  /\ healer.at = "watch" /\ ~Well
  /\ healer.restarts < MAX_RESTARTS
  /\ healer' = [healer EXCEPT !.at = "stop"]
  /\ UNCHANGED <<files, service, image, lock, agent, tries, faults>>

HealerStops ==
  /\ healer.at = "stop"
  /\ service' = AskedToStop
  /\ healer' = [healer EXCEPT !.at = "start"]
  /\ agent' = Crossing(NoLock)
  /\ UNCHANGED <<files, image, lock, tries, faults>>

HealerStarts ==
  /\ healer.at = "start"
  /\ Starts(TRUE) \/ Starts(FALSE)
  /\ healer' = [at |-> "watch", restarts |-> healer.restarts + 1]
  /\ tries' = tries + 1
  /\ agent' = Crossing(NoLock)
  /\ UNCHANGED <<files, lock>>

----------------------------------------------------------------------------------
Activate(a) ==
  \/ Download(a) \/ Stage(a) \/ KeepPrevious(a)
  \/ StopService(a, "stop", "swap") \/ Swap(a) \/ StartService(a)
  \/ StopService(a, "undo stop", "undo swap") \/ UndoSwap(a) \/ UndoStart(a)
Heal == ProbeWell \/ ProbeIll \/ HealerStops \/ HealerStarts

Next ==
  \/ \E a \in Agents : \/ Begin(a) \/ CreateLock(a) \/ WritePid(a) \/ ReadLock(a)
                       \/ StealLock(a) \/ Leave(a) \/ Kill(a) \/ Activate(a)
  \/ StopCompletes \/ ServiceDies \/ Heal

\* The system ends what it has begun to stop; the auto-healer goes on, and so do agents.
Fairness ==
  /\ WF_vars(StopCompletes) /\ WF_vars(Heal)
  /\ \A a \in Agents : WF_vars(Leave(a) \/ Activate(a))

Spec == Init /\ [][Next]_vars /\ Fairness

----------------------------------------------------------------------------------
(* Properties                                                                     *)

\* An activation that nobody crosses and that nobody kills ends with what it reports:
\* the new executable after a success, the one it found after a failure, wherever the
\* failure was and however slowly the service stops.
OutcomeIsTrue ==
  \A a \in Agents : ~agent[a].crossed =>
    /\ agent[a].outcome = "activated" => agent[a].left = Target[a]
    /\ agent[a].outcome = "failed" /\ agent[a].found # None => agent[a].left = agent[a].found

\* Two runs of the agent are not past the lock together.
OneAtATime ==
  \A a, b \in Agents \ Manual : agent[a].at \in Inside /\ agent[b].at \in Inside => a = b

\* Wherever an activation stops, and whatever it crosses, the service comes back, or the
\* auto-healer has tried as often as it may since it last saw the service well.
ServiceComesBack == ~Well ~> (Well \/ tries >= MAX_RESTARTS)
================================================================================
