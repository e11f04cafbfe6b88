--------------------------------- MODULE FirstRun ---------------------------------
(* The first start of an installation: run_server.py --setup writes .env and           *)
(* first-run-credentials.txt, seed.py creates the administrator with the password      *)
(* found there and takes it out of .env, and the administrator changes it.  Any of     *)
(* these can be cut short; a file being written is then left empty.                    *)
EXTENDS Naturals

CONSTANTS
  Frozen,      \* the Windows build: standard output is a log file
  MaxSecrets,  \* bound: passwords and keys drawn
  MaxCrashes,  \* bound: interruptions
  MaxRefusals  \* bound: files the system refuses to write

FirstRunConstants ==
  /\ Frozen \in BOOLEAN
  /\ MaxSecrets \in Nat /\ MaxCrashes \in Nat /\ MaxRefusals \in Nat

None == 0
Secrets == 0 .. MaxSecrets

VARIABLES
  env,       \* .env: there or not, SECRET_KEY, SIGMA_INITIAL_ADMIN_PASSWORD
  report,    \* the password in first-run-credentials.txt
  shown,     \* the password printed on a terminal
  admin,     \* the committed account: its password, None before; must_change_password
  process,   \* what runs, at which step, with the password it has in hand
  drawn,     \* secrets drawn so far
  crashes, refusals,
  cut,       \* an interruption fell while the account's password was in no file
  emptied    \* an interruption fell inside a rewriting of .env

vars == <<env, report, shown, admin, process, drawn, crashes, refusals, cut, emptied>>

Idle == [at |-> "down", password |-> None, generated |-> FALSE]
Steps == {"down", "env", "report", "account", "scrub", "tell", "serving",
          "changeScrub", "changeUnlink", "changeCommit"}

TypeOK ==
  /\ env \in [there : BOOLEAN, key : Secrets, password : Secrets]
  /\ report \in Secrets /\ shown \in Secrets
  /\ admin \in [password : Secrets, must : BOOLEAN]
  /\ process \in [at : Steps, password : Secrets, generated : BOOLEAN]
  /\ drawn \in Secrets
  /\ crashes \in 0 .. MaxCrashes /\ refusals \in 0 .. MaxRefusals
  /\ cut \in BOOLEAN /\ emptied \in BOOLEAN

Init ==
  /\ env = [there |-> FALSE, key |-> None, password |-> None]
  /\ report = None /\ shown = None
  /\ admin = [password |-> None, must |-> TRUE]
  /\ process = Idle
  /\ drawn = 0 /\ crashes = 0 /\ refusals = 0
  /\ cut = FALSE /\ emptied = FALSE

Draw(n) == drawn + n <= MaxSecrets /\ drawn' = drawn + n
At(step) == process.at = step
Goto(step) == process' = [process EXCEPT !.at = step]
Refuse == refusals < MaxRefusals /\ refusals' = refusals + 1
----------------------------------------------------------------------------
(* setup_windows_installation: an existing .env is kept *)

\* A second installation writes .env again.
KeepsExisting_Never == FALSE
KeepsExisting == env.there

Setup ==
  /\ At("down") /\ ~KeepsExisting
  /\ Goto("env")
  /\ UNCHANGED <<env, report, shown, admin, drawn, crashes, refusals, cut, emptied>>
WriteEnv ==
  /\ At("env") /\ Draw(2)
  /\ env' = [there |-> TRUE, key |-> drawn + 1, password |-> drawn + 2]
  /\ process' = [process EXCEPT !.at = "report", !.password = drawn + 2]
  /\ UNCHANGED <<report, shown, admin, crashes, refusals, cut, emptied>>
\* The report, and the same text on the console.
WriteReport ==
  /\ At("report")
  /\ report' = process.password
  /\ shown' = IF Frozen THEN shown ELSE process.password
  /\ process' = Idle
  /\ UNCHANGED <<env, admin, drawn, crashes, refusals, cut, emptied>>
----------------------------------------------------------------------------
(* A start: the settings are read from .env, then seed.run() *)

\* The password of the settings, or one drawn now.
Bootstrap == [process EXCEPT !.at = "account", !.password = env.password]

\* The Windows build starts after --setup: the installer runs it before it creates the
\* service, and run_console runs it itself when there is no .env.
StartServer ==
  /\ At("down") /\ (Frozen => env.there)
  /\ process' = Bootstrap
  /\ UNCHANGED <<env, report, shown, admin, drawn, crashes, refusals, cut, emptied>>
CreateAdmin ==
  /\ At("account")
  /\ IF admin.password # None
     THEN /\ process' = [process EXCEPT !.at = "scrub"]
          /\ UNCHANGED <<admin, drawn>>
     ELSE \E fresh \in BOOLEAN :
            /\ fresh = (process.password = None)
            /\ IF fresh THEN Draw(1) ELSE UNCHANGED drawn
            /\ LET p == IF fresh THEN drawn + 1 ELSE process.password
               IN /\ admin' = [password |-> p, must |-> TRUE]
                  /\ process' = [at |-> "scrub", password |-> p, generated |-> fresh]
  /\ UNCHANGED <<env, report, shown, crashes, refusals, cut, emptied>>
\* An error of the database ends the seeding with a warning; the server serves.
SeedFails ==
  /\ At("account") /\ Refuse
  /\ process' = [Idle EXCEPT !.at = "serving"]
  /\ UNCHANGED <<env, report, shown, admin, drawn, crashes, cut, emptied>>
\* _scrub_windows_initial_password; a locked file is left for the next start.
Scrub ==
  /\ At("scrub") /\ Goto("tell")
  /\ \/ /\ env' = IF process.password # None THEN [env EXCEPT !.password = None] ELSE env
        /\ UNCHANGED refusals
     \/ Refuse /\ UNCHANGED env
  /\ UNCHANGED <<report, shown, admin, drawn, crashes, cut, emptied>>
\* A generated password goes to the report; to a terminal only if that fails.
Tell ==
  /\ At("tell")
  /\ process' = [Idle EXCEPT !.at = "serving"]
  /\ IF process.generated
     THEN \/ report' = process.password /\ UNCHANGED <<shown, refusals>>
          \/ /\ Refuse /\ UNCHANGED report
             /\ shown' = IF Frozen THEN shown ELSE process.password
     ELSE UNCHANGED <<report, shown, refusals>>
  /\ UNCHANGED <<env, admin, drawn, crashes, cut, emptied>>
Stop ==
  /\ At("serving") /\ process' = Idle
  /\ UNCHANGED <<env, report, shown, admin, drawn, crashes, refusals, cut, emptied>>
----------------------------------------------------------------------------
(* change_password by the administrator, who must have read the first one *)

Readable(p) == p # None /\ p \in {report, shown, env.password}

ChangePassword ==
  /\ At("serving") /\ admin.must /\ Readable(admin.password) /\ Draw(1)
  /\ process' = [process EXCEPT !.at = "changeScrub", !.password = drawn + 1]
  /\ UNCHANGED <<env, report, shown, admin, crashes, refusals, cut, emptied>>
ChangeScrub ==
  /\ At("changeScrub") /\ Goto("changeUnlink")
  /\ \/ env' = [env EXCEPT !.password = None] /\ UNCHANGED refusals
     \/ Refuse /\ UNCHANGED env
  /\ UNCHANGED <<report, shown, admin, drawn, crashes, cut, emptied>>
ChangeUnlink ==
  /\ At("changeUnlink") /\ Goto("changeCommit")
  /\ \/ report' = None /\ UNCHANGED refusals
     \/ Refuse /\ UNCHANGED report
  /\ UNCHANGED <<env, shown, admin, drawn, crashes, cut, emptied>>
\* The account last: when its commit does not come, the old password is still the one.
ChangeCommit ==
  /\ At("changeCommit")
  /\ admin' = [password |-> process.password, must |-> FALSE]
  /\ process' = [Idle EXCEPT !.at = "serving"]
  /\ UNCHANGED <<env, report, shown, drawn, crashes, refusals, cut, emptied>>
----------------------------------------------------------------------------
(* The process ends anywhere; write_text has emptied the file it was writing *)

Crash ==
  /\ ~At("down") /\ crashes < MaxCrashes
  /\ crashes' = crashes + 1 /\ process' = Idle
  /\ cut' = \/ cut \/ At("report") \/ At("changeCommit")
            \/ process.generated /\ (At("scrub") \/ At("tell"))
  /\ \/ UNCHANGED <<env, report, emptied>>
     \/ /\ \/ At("env")
           \/ At("scrub") /\ env.password # None /\ process.password # None
           \/ At("changeScrub") /\ env.password # None
        /\ env' = [there |-> TRUE, key |-> None, password |-> None]
        /\ emptied' = TRUE /\ UNCHANGED report
     \/ /\ At("report") \/ (At("tell") /\ process.generated)
        /\ report' = None /\ UNCHANGED <<env, emptied>>
  /\ UNCHANGED <<shown, admin, drawn, refusals>>

Next ==
  \/ Setup \/ WriteEnv \/ WriteReport
  \/ StartServer \/ CreateAdmin \/ SeedFails \/ Scrub \/ Tell \/ Stop
  \/ ChangePassword \/ ChangeScrub \/ ChangeUnlink \/ ChangeCommit
  \/ Crash

Spec == Init /\ [][Next]_vars
----------------------------------------------------------------------------
(* Correctness *)

\* Until the administrator has changed it, the password of the account is the one in
\* first-run-credentials.txt, if there is one; and there is one to be read once the server
\* serves, unless the system refused a write, or the installation or a first start was cut
\* short between writing a password and reporting it, or a change of the password between
\* the removal of the report and its commit.
CredentialsOpen ==
  admin.password # None /\ admin.must =>
    /\ Frozen /\ report # None => report = admin.password
    /\ At("serving") /\ ~cut /\ refusals = 0 => Readable(admin.password)

\* The key that signs the sessions and ciphers the stored tokens never changes once
\* written, unless a rewriting of .env was cut short.
KeyKept == [][env.key # None /\ ~emptied' => env'.key = env.key]_vars
===================================================================================
