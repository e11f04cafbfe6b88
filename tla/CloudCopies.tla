-------------------------------- MODULE CloudCopies -------------------------------
(* A backup asked for by an administrator (api/system.py), then its copies at the      *)
(* providers of services/cloud_backup_providers.py, while destinations come and go     *)
(* (api/backup_cloud.py) and other backups prune the old archives.                     *)
EXTENDS Naturals, FiniteSets, FiniteSetsExt

CONSTANTS
  Requests,      \* POST /system/backup calls
  Destinations,  \* destinations there may be
  Keep,          \* MAX_BACKUPS_TO_KEEP
  MaxArchives,   \* bound: backups made
  MaxKeys        \* bound: values of SECRET_KEY

CloudCopiesConstants ==
  Keep \in Nat \ {0} /\ MaxArchives \in Nat /\ MaxKeys \in Nat \ {0}

Numbers == 1 .. MaxArchives
None == 0

VARIABLES
  made,      \* archives made, numbered in time
  kept,      \* those on the disk
  rows,      \* the committed rows of the destinations there are
  gone,      \* destinations deleted
  key,       \* the SECRET_KEY of the process
  copies,    \* what the providers hold
  work       \* per request: its step, archive, rows as read, results

vars == <<made, kept, rows, gone, key, copies, work>>

\* The token is ciphered with a key; the row tells when (with which archive) it was last
\* synchronised and whether the last attempt failed.
Row == [cipher : 1 .. MaxKeys, synced : 0 .. MaxArchives, error : BOOLEAN]
Idle == [at |-> "idle"]
Busy(step) == {r \in Requests : work[r].at = step}

TypeOK ==
  /\ made \in 0 .. MaxArchives /\ kept \subseteq 1 .. made
  /\ rows \in UNION {[D -> Row] : D \in SUBSET Destinations}
  /\ gone \subseteq Destinations /\ gone \intersect DOMAIN rows = {}
  /\ key \in 1 .. MaxKeys
  /\ copies \subseteq Destinations \X Numbers
  /\ \A r \in Requests : work[r].at \in {"idle", "read", "upload", "done", "error"}

Init ==
  /\ made = 0 /\ kept = {} /\ gone = {} /\ key = 1 /\ copies = {}
  /\ rows = [d \in {} |-> 0]
  /\ work = [r \in Requests |-> Idle]

\* prune_backups keeps the newest.
Pruned(archives) ==
  {a \in archives : Cardinality({b \in archives : b >= a}) <= Keep}

\* create_backup, then the query of the active destinations: none, and all is answered.
Backup(r) ==
  /\ work[r].at = "idle" /\ made < MaxArchives
  /\ made' = made + 1
  /\ kept' = Pruned(kept \union {made + 1})
  /\ work' = [work EXCEPT ![r] =
                IF DOMAIN rows = {} THEN [at |-> "done", archive |-> made + 1, results |-> {}]
                ELSE [at |-> "read", archive |-> made + 1, rows |-> rows]]
  /\ UNCHANGED <<rows, gone, key, copies>>
\* read_bytes: another backup may have pruned the archive in between.
Read(r) ==
  /\ work[r].at = "read"
  /\ work' = [work EXCEPT ![r] =
                IF @.archive \in kept
                THEN [at |-> "upload", archive |-> @.archive, rows |-> @.rows,
                      left |-> DOMAIN @.rows, new |-> [d \in {} |-> 0], results |-> {}]
                ELSE [at |-> "error", archive |-> @.archive]]
  /\ UNCHANGED <<made, kept, rows, gone, key, copies>>

\* The row is dated before the outcome is known.
Outcome_DatedFirst(row, archive, ok) == [row EXCEPT !.synced = archive, !.error = ~ok]
\* What an attempt leaves on the row: last_synced_at and no error, or the error alone.
Outcome(row, archive, ok) ==
  IF ok THEN [row EXCEPT !.synced = archive, !.error = FALSE]
  ELSE [row EXCEPT !.error = TRUE]
\* One destination: the token does not decipher, or the provider answers, refuses, or
\* takes the copy and its answer is lost (the upload raises).
Upload(r, d) ==
  /\ work[r].at = "upload" /\ d \in work[r].left
  /\ \E stored, ok \in BOOLEAN :
       /\ ok => stored
       /\ stored => work[r].rows[d].cipher = key
       /\ copies' = IF stored THEN copies \union {<<d, work[r].archive>>} ELSE copies
       /\ work' = [work EXCEPT
            ![r].left = @ \ {d},
            ![r].new = [e \in DOMAIN @ \union {d} |->
                          IF e = d THEN Outcome(work[r].rows[d], work[r].archive, ok) ELSE @[e]],
            ![r].results = @ \union {[to |-> d, ok |-> ok]}]
  /\ UNCHANGED <<made, kept, rows, gone, key>>

\* The session writes the columns that have changed since they were read (two errors of
\* the same text are one).
Changed(w) == {d \in DOMAIN w.new : w.new[d] # w.rows[d]}
Written(w, d) ==
  [rows[d] EXCEPT !.synced = IF w.new[d].synced # w.rows[d].synced THEN w.new[d].synced ELSE @,
                  !.error  = IF w.new[d].error # w.rows[d].error THEN w.new[d].error ELSE @]
\* A row to write that is no longer there raises, and nothing is written.
Commit(r) ==
  /\ work[r].at = "upload" /\ work[r].left = {}
  /\ IF Changed(work[r]) \subseteq DOMAIN rows
     THEN /\ rows' = [d \in DOMAIN rows |->
                        IF d \in Changed(work[r]) THEN Written(work[r], d) ELSE rows[d]]
          /\ work' = [work EXCEPT ![r] =
                        [at |-> "done", archive |-> @.archive, results |-> @.results]]
     ELSE /\ work' = [work EXCEPT ![r] = [at |-> "error", archive |-> @.archive]]
          /\ UNCHANGED rows
  /\ UNCHANGED <<made, kept, gone, key, copies>>
Forget(r) ==
  /\ work[r].at \in {"done", "error"}
  /\ work' = [work EXCEPT ![r] = Idle]
  /\ UNCHANGED <<made, kept, rows, gone, key, copies>>

Add(d) ==
  /\ d \notin DOMAIN rows /\ d \notin gone
  /\ rows' = [e \in DOMAIN rows \union {d} |->
                IF e = d THEN [cipher |-> key, synced |-> None, error |-> FALSE] ELSE rows[e]]
  /\ UNCHANGED <<made, kept, gone, key, copies, work>>
Delete(d) ==
  /\ d \in DOMAIN rows
  /\ rows' = [e \in DOMAIN rows \ {d} |-> rows[e]]
  /\ gone' = gone \union {d}
  /\ UNCHANGED <<made, kept, key, copies, work>>
\* The server restarts with another SECRET_KEY; its requests are lost.
NewKey ==
  /\ key < MaxKeys /\ key' = key + 1
  /\ work' = [r \in Requests |-> Idle]
  /\ UNCHANGED <<made, kept, rows, gone, copies>>

Next ==
  \/ \E r \in Requests : Backup(r) \/ Read(r) \/ Commit(r) \/ Forget(r)
  \/ \E r \in Requests, d \in Destinations : Upload(r, d)
  \/ \E d \in Destinations : Add(d) \/ Delete(d)
  \/ NewKey

Spec == Init /\ [][Next]_vars
----------------------------------------------------------------------------
(* Correctness *)

\* A destination is told synchronised, on its row or in an answer, only with an archive
\* its provider holds, however attempts cross and fail.
SyncedIsCopied ==
  /\ \A d \in DOMAIN rows : rows[d].synced # None => <<d, rows[d].synced>> \in copies
  /\ \A r \in Busy("done") : \A x \in work[r].results :
       x.ok => <<x.to, work[r].archive>> \in copies

\* "L'envoi cloud est une couche supplémentaire optionnelle : son échec ne doit jamais
\* transformer une sauvegarde locale réussie en réponse d'erreur" (api/system.py:57-60).
NeverAnError == Busy("error") = {}
===================================================================================
