-------------------------------- MODULE StopRequest -------------------------------
(* The server started from a console or a portable package, which has no window to     *)
(* close: `SIGMA-Server.exe --stop` leaves a file in the data directory, a thread of   *)
(* the server looks for it every second, and the server takes it away when it has      *)
(* stopped (run_server.py).  Launches of one data directory share the file and a port. *)
EXTENDS Naturals

CONSTANTS
  Launches,    \* processes that serve
  Askers,      \* processes that ask for a stop
  Nobody,      \* no launch
  MaxRequests, \* bound: requests written
  MaxFaults    \* bound: kills and files that the system refuses to remove

StopRequestConstants == Nobody \notin Launches /\ MaxRequests \in Nat /\ MaxFaults \in Nat

None == 0

VARIABLES
  request,   \* the file: the number of the request written last, or None
  written,   \* requests written so far
  server,    \* per launch: its step, the requests older than its start, the one it obeys
  port,      \* the launch that holds the port, or Nobody
  asker,     \* per asker: its step, its request, the launch that served when it wrote
  faults

vars == <<request, written, server, port, asker, faults>>

Down == [at |-> "down", older |-> 0, kept |-> FALSE, obeys |-> None]
Still == [at |-> "idle", whom |-> Nobody, crossed |-> FALSE, left |-> FALSE]

TypeOK ==
  /\ request \in 0 .. written /\ written \in 0 .. MaxRequests
  /\ server \in [Launches -> [at : {"down", "starting", "ready", "serving", "leaving"},
                              older : 0 .. MaxRequests, kept : BOOLEAN,
                              obeys : 0 .. MaxRequests]]
  /\ port \in Launches \union {Nobody}
  /\ asker \in [Askers -> [at : {"idle", "waiting", "told", "unanswered"},
                           whom : Launches \union {Nobody},
                           crossed : BOOLEAN, left : BOOLEAN]]
  /\ faults \in 0 .. MaxFaults

Init ==
  /\ request = None /\ written = 0 /\ port = Nobody /\ faults = 0
  /\ server = [l \in Launches |-> Down]
  /\ asker = [a \in Askers |-> Still]

At(l, step) == server[l].at = step
Watching(l) == At(l, "ready") \/ At(l, "serving")
Fault == faults < MaxFaults /\ faults' = faults + 1
\* The file goes: those who wait for it are told so, by whomever it was taken away.
Withdraw(by) ==
  /\ request' = None
  /\ asker' = [a \in Askers |->
                 IF asker[a].at = "waiting" /\ asker[a].whom # by
                 THEN [asker[a] EXCEPT !.crossed = TRUE] ELSE asker[a]]
Gone(l) ==
  asker' = [a \in Askers |->
              IF asker[a].whom = l THEN [asker[a] EXCEPT !.left = TRUE] ELSE asker[a]]
----------------------------------------------------------------------------
(* run_console *)

Launch(l) ==
  /\ At(l, "down")
  /\ server' = [server EXCEPT ![l] = [Down EXCEPT !.at = "starting"]]
  /\ UNCHANGED <<request, written, port, asker, faults>>

\* A request left by an earlier run is removed (the system may refuse: it stays), then the
\* watching starts.
Clear_Never(l) ==
  /\ At(l, "starting")
  /\ server' = [server EXCEPT ![l].at = "ready", ![l].older = written]
  /\ UNCHANGED <<request, written, port, asker, faults>>
Clear(l) ==
  /\ At(l, "starting")
  /\ \/ /\ Withdraw(Nobody)
        /\ server' = [server EXCEPT ![l].at = "ready", ![l].older = written]
        /\ UNCHANGED faults
     \/ /\ request # None /\ Fault
        /\ server' = [server EXCEPT ![l].at = "ready", ![l].kept = TRUE]
        /\ UNCHANGED <<request, asker>>
  /\ UNCHANGED <<written, port>>

\* uvicorn: the port, or the end of the process by way of run_console's `finally`.
Bind(l) ==
  /\ At(l, "ready")
  /\ IF port = Nobody
     THEN port' = l /\ server' = [server EXCEPT ![l].at = "serving"]
     ELSE port' = port /\ server' = [server EXCEPT ![l].at = "leaving"]
  /\ UNCHANGED <<request, written, asker, faults>>

\* _watch_stop_request: the event is set, the file stays.
Watch_Takes(l) ==
  /\ Watching(l) /\ request # None /\ server[l].obeys = None
  /\ server' = [server EXCEPT ![l].obeys = request]
  /\ Withdraw(l)
  /\ UNCHANGED <<written, port, faults>>
Watch(l) ==
  /\ Watching(l) /\ request # None /\ server[l].obeys = None
  /\ server' = [server EXCEPT ![l].obeys = request]
  /\ UNCHANGED <<request, written, port, asker, faults>>

\* should_exit, or Ctrl+C: server.run() has closed the connections and returns.
Leave(l) ==
  /\ At(l, "serving")
  /\ server' = [server EXCEPT ![l].at = "leaving"]
  /\ port' = Nobody
  /\ Gone(l)
  /\ UNCHANGED <<request, written, faults>>
Unlink(l) ==
  /\ At(l, "leaving")
  /\ server' = [server EXCEPT ![l] = Down]
  /\ \/ Withdraw(l) /\ UNCHANGED faults
     \/ request # None /\ Fault /\ UNCHANGED <<request, asker>>
  /\ UNCHANGED <<written, port>>

Kill(l) ==
  /\ ~At(l, "down") /\ Fault
  /\ server' = [server EXCEPT ![l] = Down]
  /\ port' = IF port = l THEN Nobody ELSE port
  /\ Gone(l)
  /\ UNCHANGED <<request, written>>
----------------------------------------------------------------------------
(* request_stop *)

Ask(a) ==
  /\ asker[a].at = "idle" /\ written < MaxRequests
  /\ written' = written + 1 /\ request' = written + 1
  /\ asker' = [asker EXCEPT ![a] = [Still EXCEPT !.at = "waiting", !.whom = port]]
  /\ UNCHANGED <<server, port, faults>>
\* "SIGMA est arrêté."
Told(a) ==
  /\ asker[a].at = "waiting" /\ request = None
  /\ asker' = [asker EXCEPT ![a].at = "told"]
  /\ UNCHANGED <<request, written, server, port, faults>>
\* Thirty seconds: a server that looks every second has seen the file, though it may still
\* be closing its connections.
TimeOut(a) ==
  /\ asker[a].at = "waiting" /\ request # None
  /\ \A l \in Launches : At(l, "serving") => server[l].obeys # None
  /\ request' = None
  /\ asker' = [b \in Askers |->
                 IF b = a THEN [asker[b] EXCEPT !.at = "unanswered"]
                 ELSE IF asker[b].at = "waiting" THEN [asker[b] EXCEPT !.crossed = TRUE]
                 ELSE asker[b]]
  /\ UNCHANGED <<written, server, port, faults>>
Done(a) ==
  /\ asker[a].at \in {"told", "unanswered"}
  /\ asker' = [asker EXCEPT ![a] = Still]
  /\ UNCHANGED <<request, written, server, port, faults>>

Next ==
  \/ \E l \in Launches : \/ Launch(l) \/ Clear(l) \/ Bind(l) \/ Watch(l)
                         \/ Leave(l) \/ Unlink(l) \/ Kill(l)
  \/ \E a \in Askers : Ask(a) \/ Told(a) \/ TimeOut(a) \/ Done(a)

Spec == Init /\ [][Next]_vars
----------------------------------------------------------------------------
(* Correctness *)

\* "Une demande d'arrêt laissée par une exécution précédente arrêterait le serveur aussitôt
\* démarré" (run_server.py:240-241): no launch obeys a request written before it cleared
\* the file, whoever asks, launches and dies meanwhile, unless the file could not be removed.
OldRequestsDoNotStop ==
  \A l \in Launches : server[l].obeys # None /\ ~server[l].kept =>
    server[l].obeys > server[l].older

\* Who is told that SIGMA is stopped while nobody else took the file away (another launch,
\* another asker) is told the truth: the server that ran when they asked has left.
ToldIsStopped ==
  \A a \in Askers : asker[a].at = "told" /\ ~asker[a].crossed /\ asker[a].whom # Nobody =>
    asker[a].left

\* "puis le fichier est retiré pour signaler que l'arrêt est effectif" (run_server.py:160-161)
GoneIsStopped ==
  \A a \in Askers : asker[a].at = "told" /\ asker[a].whom # Nobody => asker[a].left
===================================================================================
