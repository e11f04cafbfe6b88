------------------------------ MODULE BrowserQueue ------------------------------
(* The web pages' offline queue (static/assets/sigma-offline.js) and the calls that *)
(* fill and empty it (api, refresh, logout, boot in static/assets/sigma.js).        *)
(*                                                                                  *)
(* A write that fails for want of network is kept in an IndexedDB store that all    *)
(* tabs of the browser share, and sent again by a tab when its page is opened or the *)
(* network comes and goes: nothing else starts it again after a failure.             *)
(* A page may be left between any two steps.  What the code does with a body is     *)
(* kept: it is stored parsed, replayed unserialised, and so refused (api, flush).   *)
EXTENDS Integers, Sequences, SequencesExt, FiniteSets

CONSTANTS
  Tabs,
  Writes,        \* what the user asks for, each once
  Bare,          \* the writes without a body
  Refused,       \* the writes that the server refuses (4xx) whenever they come
  MaxFaults      \* bound: lost connections and answers, ended sessions, left pages

VARIABLES
  online,        \* navigator.onLine
  cookie,        \* the server takes the refresh cookie
  token,         \* token[t]: "none", "good" or "stale" (sessionStorage of the tab)
  queue,         \* the store "queue", by increasing id
  page,          \* page[t]: the write that the page of tab t is sending
  flow,          \* flow[t]: the run of flush in tab t
  woken,         \* woken[t]: updateNetwork is to run in tab t
  told,          \* history: what the page told the user of each write
  done,          \* history: done[r], how often the server performed r
  ended,         \* history: the queued writes that got a final answer, in order
  faults

shown == <<told, done, ended>>
vars == <<online, cookie, token, queue, page, flow, woken, shown, faults>>

BrowserConstants ==
  /\ IsFiniteSet(Tabs) /\ IsFiniteSet(Writes)
  /\ Bare \subseteq Writes /\ Refused \subseteq Writes
  /\ MaxFaults \in Nat

Quiet == [at |-> "idle", left |-> <<>>]
Stages == {"idle", "send", "refresh", "again", "answered"}

TypeOK ==
  /\ online \in BOOLEAN /\ cookie \in BOOLEAN
  /\ token \in [Tabs -> {"none", "good", "stale"}]
  /\ IsInjective(queue) /\ ToSet(queue) \subseteq Writes
  /\ \A t \in Tabs :
       /\ page[t].at \in Stages /\ flow[t].at \in Stages
       /\ Len(page[t].left) <= 1 /\ ToSet(flow[t].left) \subseteq Writes
       /\ page[t].at = "idle" <=> page[t].left = <<>>
       /\ flow[t].at = "idle" <=> flow[t].left = <<>>
  /\ woken \in [Tabs -> BOOLEAN]
  /\ told \in [Writes -> {"nothing", "done", "refused", "error", "queued"}]
  /\ done \in [Writes -> Nat]
  /\ IsInjective(ended) /\ ToSet(ended) \subseteq Writes

Init ==
  /\ online = TRUE /\ cookie = TRUE
  /\ token = [t \in Tabs |-> "good"]
  /\ queue = <<>>
  /\ page = [t \in Tabs |-> Quiet]
  /\ flow = [t \in Tabs |-> Quiet]
  /\ woken = [t \in Tabs |-> TRUE]
  /\ told = [r \in Writes |-> "nothing"]
  /\ done = [r \in Writes |-> 0]
  /\ ended = <<>>
  /\ faults = 0

----------------------------------------------------------------------------------
(* The surroundings                                                               *)

Fault == faults < MaxFaults /\ faults' = faults + 1

\* The events "online" and "offline" of the browser call updateNetwork in every page.
AllWoken == woken' = [t \in Tabs |-> token[t] # "none"]

Disconnect ==
  /\ online /\ online' = FALSE
  /\ Fault /\ AllWoken
  /\ UNCHANGED <<cookie, token, queue, page, flow, shown>>

Connect ==
  /\ ~online /\ online' = TRUE
  /\ AllWoken
  /\ UNCHANGED <<cookie, token, queue, page, flow, shown, faults>>

\* The access token of a tab expires.
Expire(t) ==
  /\ token[t] = "good" /\ Fault
  /\ token' = [token EXCEPT ![t] = "stale"]
  /\ UNCHANGED <<online, cookie, queue, page, flow, shown, woken>>

\* The tab is left or reloaded; the write that was under way is lost to the user.
Abandoned(t) == [r \in Writes |-> IF r \in ToSet(page[t].left) THEN "error" ELSE told[r]]
Leave(t) ==
  /\ page' = [page EXCEPT ![t] = Quiet]
  /\ flow' = [flow EXCEPT ![t] = Quiet]
  /\ woken' = [woken EXCEPT ![t] = FALSE]
  /\ told' = Abandoned(t)
ClosePage(t) ==
  /\ page[t].at # "idle" \/ flow[t].at # "idle"
  /\ Leave(t) /\ Fault
  /\ UNCHANGED <<online, cookie, token, queue, done, ended>>

\* The user signs out: the server forgets all sessions of the account.
SignOut(t) ==
  /\ online /\ token[t] = "good"
  /\ cookie' = FALSE
  /\ token' = [u \in Tabs |-> IF u = t THEN "none"
                              ELSE IF token[u] = "good" THEN "stale" ELSE token[u]]
  /\ Leave(t) /\ Fault
  /\ UNCHANGED <<online, queue, done, ended>>

\* showMain, the end of boot: updateNetwork is set to run.
ShowMain(t) == woken' = [woken EXCEPT ![t] = TRUE]

\* The user opens a page: every page of the dashboard boots.
OpenPage(t) ==
  /\ token[t] # "none" /\ ~woken[t]
  /\ page[t].at = "idle" /\ flow[t].at = "idle"        \* else ClosePage comes first
  /\ ShowMain(t)
  /\ UNCHANGED <<online, cookie, token, queue, page, flow, shown, faults>>

\* login
SignIn(t) ==
  /\ online /\ token[t] = "none"
  /\ cookie' = TRUE
  /\ token' = [token EXCEPT ![t] = "good"]
  /\ ShowMain(t)
  /\ UNCHANGED <<online, queue, page, flow, shown, faults>>

\* boot without a token: continueAfterAuth restores the session by the cookie.
Restore(t) ==
  /\ online /\ cookie /\ token[t] = "none"
  /\ token' = [token EXCEPT ![t] = "good"]
  /\ ShowMain(t)
  /\ UNCHANGED <<online, cookie, queue, page, flow, shown, faults>>

----------------------------------------------------------------------------------
(* api: a write of the page                                                       *)

Goes(act, t, stage) == [act EXCEPT ![t].at = stage]

\* queueMutation; a write whose body is a form is refused instead, and left out here.
Queued(r) ==
  /\ queue' = Append(queue, r)
  /\ told' = [told EXCEPT ![r] = "queued"]
Ends(t) == page' = [page EXCEPT ![t] = Quiet]

Ask(t, r) ==
  /\ page[t].at = "idle" /\ told[r] = "nothing" /\ token[t] # "none"
  /\ \A u \in Tabs : r \notin ToSet(page[u].left)
  /\ page' = [page EXCEPT ![t] = [at |-> "send", left |-> <<r>>]]
  /\ UNCHANGED <<online, cookie, token, queue, flow, shown, faults, woken>>

Performed(r, taken) == IF taken THEN [done EXCEPT ![r] = @ + 1] ELSE done
Sending(act, t) == act[t].at \in {"send", "again"}

\* The server performs it, or refuses it, and the page shows the answer.
AskAnswered(t) ==
  LET r == Head(page[t].left) IN
  /\ Sending(page, t) /\ online /\ token[t] = "good"
  /\ told' = [told EXCEPT ![r] = IF r \in Refused THEN "refused" ELSE "done"]
  /\ done' = Performed(r, r \notin Refused)
  /\ Ends(t)
  /\ UNCHANGED <<online, cookie, token, queue, flow, ended, faults, woken>>

\* fetch fails: before the server had the write, or after it performed it.
AskFails(t) ==
  LET r == Head(page[t].left) IN
  /\ Sending(page, t)
  /\ \/ ~online /\ faults' = faults /\ done' = done
     \/ /\ online /\ token[t] = "good" /\ Fault
        /\ done' = Performed(r, r \notin Refused)
  /\ Queued(r)
  /\ Ends(t)
  /\ UNCHANGED <<online, cookie, token, flow, ended, woken>>

Unauthorized(act, t) == online /\ token[t] # "good"

AskUnauthorized(t) ==
  /\ page[t].at = "send" /\ Unauthorized(page, t)
  /\ page' = Goes(page, t, "refresh")
  /\ UNCHANGED <<online, cookie, token, queue, flow, shown, faults, woken>>

\* refresh: one request for the whole tab (_refreshPromise).
Refresh(t) ==
  /\ page[t].at = "refresh" \/ flow[t].at = "refresh"
  /\ online /\ cookie
  /\ token' = [token EXCEPT ![t] = "good"]
  /\ page' = IF page[t].at = "refresh" THEN Goes(page, t, "again") ELSE page
  /\ flow' = IF flow[t].at = "refresh" THEN Goes(flow, t, "again") ELSE flow
  /\ UNCHANGED <<online, cookie, queue, shown, faults, woken>>

\* refresh fails, or the second answer is 401 again: logout sends the tab to the login
\* page.  A write of the page is still queued if the browser is offline by then.
SessionEnds(t) ==
  /\ \/ (page[t].at = "refresh" \/ flow[t].at = "refresh") /\ (~online \/ ~cookie)
     \/ (page[t].at = "again" \/ flow[t].at = "again") /\ Unauthorized(page, t)
  /\ token' = [token EXCEPT ![t] = "none"]
  /\ page' = [page EXCEPT ![t] = Quiet]
  /\ flow' = [flow EXCEPT ![t] = Quiet]
  /\ woken' = [woken EXCEPT ![t] = FALSE]
  /\ \/ told' = Abandoned(t) /\ queue' = queue
     \/ ~online /\ page[t].at = "refresh" /\ Queued(Head(page[t].left))
  /\ UNCHANGED <<online, cookie, done, ended, faults>>

\* queueGradeBatch, called offline: the store "entities" takes its keys from the values,
\* so that put with a key throws (DataError), before anything is queued.
SaveGrades(t, r) ==
  /\ ~online /\ token[t] # "none" /\ told[r] = "nothing"
  /\ page[t].at = "idle" /\ \A u \in Tabs : r \notin ToSet(page[u].left)
  /\ told' = [told EXCEPT ![r] = "error"]
  /\ UNCHANGED <<online, cookie, token, queue, page, flow, done, ended, faults, woken>>

----------------------------------------------------------------------------------
(* flush, which updateNetwork starts                                              *)

\* updateNetwork: a run takes what the store holds, if the tab is online.
StartFlush(t) ==
  /\ woken[t] /\ flow[t].at = "idle"
  /\ woken' = [woken EXCEPT ![t] = FALSE]
  /\ flow' = IF online /\ queue # <<>>
             THEN [flow EXCEPT ![t] = [at |-> "send", left |-> queue]] ELSE flow
  /\ UNCHANGED <<online, cookie, token, queue, page, shown, faults>>

Answered(r) == IF r \in ToSet(ended) THEN ended ELSE Append(ended, r)

\* The body, an object, is sent as "[object Object]"; the server refuses it (422).
Performs(r) == r \in Bare /\ r \notin Refused

ReplayAnswered(t) ==
  LET r == Head(flow[t].left) IN
  /\ Sending(flow, t) /\ online /\ token[t] = "good"
  /\ done' = Performed(r, Performs(r))                 \* else 4xx: _offlinePermanent
  /\ ended' = Answered(r)
  /\ flow' = Goes(flow, t, "answered")
  /\ UNCHANGED <<online, cookie, token, queue, page, told, faults, woken>>

\* delQueue, a transaction of its own
Gone_First(r) == Tail(queue)
Gone_Performed(r) == IF Performs(r) THEN RemoveFirst(queue, r) ELSE queue
Gone(r) == RemoveFirst(queue, r)
Next_Item(t) ==
  flow' = [flow EXCEPT ![t] = IF Len(@.left) = 1 THEN Quiet
                              ELSE [at |-> "send", left |-> Tail(@.left)]]
DeleteAnswered(t) ==
  /\ flow[t].at = "answered"
  /\ queue' = IF queue = <<>> THEN queue ELSE Gone(Head(flow[t].left))
  /\ Next_Item(t)
  /\ UNCHANGED <<online, cookie, token, page, shown, faults, woken>>

\* A network error or a 5xx: the item stays, and so does all that follows.
Stopped_Skips(t) ==
  IF Len(flow[t].left) = 1 THEN Quiet ELSE [at |-> "send", left |-> Tail(flow[t].left)]
Stopped(t) == Quiet
ReplayFails(t) ==
  LET r == Head(flow[t].left) IN
  /\ Sending(flow, t)
  /\ \/ ~online /\ faults' = faults /\ done' = done
     \/ /\ online /\ token[t] = "good" /\ Fault
        /\ \/ done' = Performed(r, Performs(r))
           \/ done' = done                              \* 5xx
  /\ flow' = [flow EXCEPT ![t] = Stopped(t)]
  /\ UNCHANGED <<online, cookie, token, queue, page, told, ended, woken>>

ReplayUnauthorized(t) ==
  /\ flow[t].at = "send" /\ Unauthorized(flow, t)
  /\ flow' = Goes(flow, t, "refresh")
  /\ UNCHANGED <<online, cookie, token, queue, page, shown, faults, woken>>

----------------------------------------------------------------------------------
Replay(t) == StartFlush(t) \/ ReplayAnswered(t) \/ DeleteAnswered(t) \/ ReplayFails(t)
             \/ ReplayUnauthorized(t)
Call(t) == AskAnswered(t) \/ AskFails(t) \/ AskUnauthorized(t)
Session(t) == Refresh(t) \/ SessionEnds(t)

Next ==
  \/ Disconnect \/ Connect
  \/ \E t \in Tabs : \/ Expire(t) \/ ClosePage(t) \/ SignOut(t) \/ SignIn(t) \/ Restore(t)
                     \/ OpenPage(t)
                     \/ \E r \in Writes : Ask(t, r) \/ SaveGrades(t, r)
                     \/ Call(t) \/ Session(t) \/ Replay(t)

\* The browser runs what it has begun, and the network comes back in the end.  Nothing
\* in the code opens a page, signs in again or tries a stopped run again.
Fairness ==
  /\ WF_vars(Connect)
  /\ \A t \in Tabs : WF_vars(Replay(t)) /\ WF_vars(Session(t))

Spec == Init /\ [][Next]_vars /\ Fairness

----------------------------------------------------------------------------------
(* Properties                                                                     *)

\* What the page called queued is in the store until the server has given a final
\* answer to it, whatever tab sends it and wherever a page is left.
KeptUntilAnswered ==
  \A r \in Writes : told[r] = "queued" => r \in ToSet(queue) \cup ToSet(ended)

\* Several tabs replay the same store at once, and stop at different items: still no
\* write gets its answer before one that was queued earlier.
EarlierFirst ==
  \A i \in 1..Len(queue), r \in ToSet(ended) :
    r = queue[i] => \A j \in 1..(i - 1) : queue[j] \in ToSet(ended)

\* A queued write that the server would take is performed, with or without a body.
ReplayPerforms ==
  \A r \in Writes \ Refused : told[r] = "queued" /\ done[r] = 0 => r \in ToSet(queue)

\* As long as pages are opened again and again, whatever is queued leaves the store: a
\* stopped run, a page that is left, an expired session or a lost answer delay it (boot,
\* updateNetwork, flush).  A page that stays open after a run has stopped promises nothing.
QueueDrains ==
  []<><<\E t \in Tabs : OpenPage(t)>>_vars =>
    \A r \in Writes : r \in ToSet(queue) ~> r \notin ToSet(queue)
================================================================================
