-------------------------------- MODULE ServiceHost -------------------------------
(* The server as a Windows service (app/services/windows_service.py): the main thread  *)
(* of the service starts a worker and waits for it, the control manager's thread calls *)
(* the handler, and both fill the same SERVICE_STATUS before they report it.           *)
EXTENDS Naturals

Threads == {"main", "handler"}
States == {"none", "start pending", "running", "stop pending", "stopped"}
Report == [state : States, exit : {0, 1}]
Quiet == [at |-> "rest", says |-> [state |-> "none", exit |-> 0]]

VARIABLES
  status,   \* the structure
  told,     \* what the control manager was told last
  thread,   \* per thread: where it is in _set_status, with what to say
  main,     \* what _main has come to
  worker,   \* the worker: "none", "works", "raised" or "returned"
  error,    \* _worker_error is set
  asked     \* history: the manager has sent a stop

vars == <<status, told, thread, main, worker, error, asked>>

TypeOK ==
  /\ status \in Report /\ told \in Report
  /\ thread \in [Threads -> [at : {"rest", "state", "exit", "report"}, says : Report]]
  /\ main \in {"begin", "starting", "started", "joined", "ended"}
  /\ worker \in {"none", "works", "raised", "returned"}
  /\ error \in BOOLEAN /\ asked \in BOOLEAN

Init ==
  /\ status = Quiet.says /\ told = Quiet.says
  /\ thread = [t \in Threads |-> Quiet]
  /\ main = "begin" /\ worker = "none" /\ error = FALSE /\ asked = FALSE
----------------------------------------------------------------------------
(* _set_status: the fields, one after the other, then the call *)

Says(t, state, exit) ==
  /\ thread[t] = Quiet
  /\ thread' = [thread EXCEPT ![t] = [at |-> "state", says |-> [state |-> state, exit |-> exit]]]
SetState(t) ==
  /\ thread[t].at = "state"
  /\ status' = [status EXCEPT !.state = thread[t].says.state]
  /\ thread' = [thread EXCEPT ![t].at = "exit"]
  /\ UNCHANGED <<told, main, worker, error, asked>>
SetExit(t) ==
  /\ thread[t].at = "exit"
  /\ status' = [status EXCEPT !.exit = thread[t].says.exit]
  /\ thread' = [thread EXCEPT ![t].at = "report"]
  /\ UNCHANGED <<told, main, worker, error, asked>>
SetServiceStatus(t) ==
  /\ thread[t].at = "report"
  /\ told' = status
  /\ thread' = [thread EXCEPT ![t] = Quiet]
  /\ UNCHANGED <<status, main, worker, error, asked>>
----------------------------------------------------------------------------
(* _main, the worker and the handler *)

Begin ==
  /\ main = "begin" /\ main' = "starting"
  /\ Says("main", "start pending", 0)
  /\ UNCHANGED <<status, told, worker, error, asked>>
StartWorker ==
  /\ main = "starting" /\ main' = "started"
  /\ worker' = "works"
  /\ Says("main", "running", 0)
  /\ UNCHANGED <<status, told, error, asked>>
Join ==
  /\ main = "started" /\ main' = "joined"
  /\ worker \in {"raised", "returned"}
  /\ Says("main", "stopped", IF error THEN 1 ELSE 0)
  /\ UNCHANGED <<status, told, worker, error, asked>>
Return ==
  /\ main = "joined" /\ main' = "ended" /\ thread["main"] = Quiet
  /\ UNCHANGED <<status, told, thread, worker, error, asked>>

\* guarded_worker: uvicorn returns when it is asked to, or when the application does not
\* start; anything else that ends it is kept.
WorkerReturns ==
  /\ worker = "works" /\ worker' = "returned"
  /\ UNCHANGED <<status, told, thread, main, error, asked>>
WorkerRaises_Unrecorded ==
  /\ worker = "works" /\ worker' = "raised"
  /\ UNCHANGED <<status, told, thread, main, error, asked>>
WorkerRaises ==
  /\ worker = "works" /\ worker' = "raised"
  /\ error' = TRUE
  /\ UNCHANGED <<status, told, thread, main, asked>>

\* The manager sends a stop to a service that it was told runs; the worker's event, set
\* next, makes uvicorn return.
Control ==
  /\ told.state = "running" /\ asked' = TRUE
  /\ Says("handler", "stop pending", 0)
  /\ UNCHANGED <<status, told, main, worker, error>>

Next ==
  \/ Begin \/ StartWorker \/ Join \/ Return \/ WorkerReturns \/ WorkerRaises \/ Control
  \/ \E t \in Threads : SetState(t) \/ SetExit(t) \/ SetServiceStatus(t)

Spec == Init /\ [][Next]_vars
----------------------------------------------------------------------------
(* Correctness *)

\* "A worker crash must result in a non-zero service exit code so SCM can apply the
\* configured recovery actions" (windows_service.py:96-97): unless the manager asked for a
\* stop, the last it hears of a worker that raised is "stopped", 1; and whatever the two
\* threads write over, it hears "stopped" of no worker that still works.
CrashIsReported ==
  /\ main = "ended" /\ worker = "raised" /\ ~asked => told = [state |-> "stopped", exit |-> 1]
  /\ told.state = "stopped" => worker \in {"raised", "returned"}
===================================================================================
