----------------------------------- MODULE Media ----------------------------------
(* The photographs of students and the logo and stamp of the school: the file is       *)
(* written in place, its row afterwards (services/media.py, api/students.py,           *)
(* api/organization.py), while create_backup reads every file twice, for its digest    *)
(* and for the archive (services/backup.py).                                           *)
EXTENDS Naturals, FiniteSets

CONSTANTS
  Owners,       \* students, and the logo and the stamp of the school
  Students,     \* the owners whose picture can be removed
  Requests,     \* requests and backups at work
  MaxPictures,  \* bound: pictures received
  MaxBackups,   \* bound: backups tried
  MaxFaults     \* bound: failed writes and crashes

MediaConstants ==
  /\ Students \subseteq Owners
  /\ MaxPictures \in Nat /\ MaxBackups \in Nat /\ MaxFaults \in Nat

Absent == 0
Torn == MaxPictures + 1          \* part of a picture, or parts of two
Contents == 0 .. Torn

VARIABLES
  file,      \* what the disk holds for each owner
  row,       \* the owner's path is set
  work,      \* what each request is doing
  pictures, backups, faults,
  archives,  \* the archives published: what the manifest declares, what they hold
  broken     \* owners of whom a removal was cut short, or crossed an upload

vars == <<file, row, work, pictures, backups, faults, archives, broken>>

Idle == [at |-> "idle"]
On(o, steps) == {r \in Requests : work[r].at \in steps /\ work[r].owner = o}
Writing == {"writing", "over"}
Saving == Writing \union {"saved"}
Removing == {"unlinked"}

TypeOK ==
  /\ file \in [Owners -> Contents] /\ row \in [Owners -> BOOLEAN]
  /\ \A r \in Requests :
       work[r].at \in {"idle", "digest", "copy"} \union Saving \union Removing
  /\ pictures \in 0 .. MaxPictures /\ backups \in 0 .. MaxBackups
  /\ faults \in 0 .. MaxFaults
  /\ \A a \in archives : /\ a.declared \in [DOMAIN a.declared -> Contents]
                         /\ DOMAIN a.held = DOMAIN a.declared
  /\ broken \subseteq Students

Init ==
  /\ file = [o \in Owners |-> Absent] /\ row = [o \in Owners |-> FALSE]
  /\ work = [r \in Requests |-> Idle]
  /\ pictures = 0 /\ backups = 0 /\ faults = 0
  /\ archives = {} /\ broken = {}

Step(r, next) == work' = [work EXCEPT ![r] = next]
Fault == faults < MaxFaults /\ faults' = faults + 1
----------------------------------------------------------------------------
(* save_student_photo, save_school_asset; then the row *)

\* The row names the file before it is written.
Receive_RowFirst(r, o) ==
  /\ work[r].at = "idle" /\ pictures < MaxPictures
  /\ pictures' = pictures + 1
  /\ row' = [row EXCEPT ![o] = TRUE]
  /\ Step(r, [at |-> "writing", owner |-> o, picture |-> pictures + 1])
  /\ UNCHANGED <<file, backups, faults, archives, broken>>
\* The picture has been read and normalised; image.save opens the file, which empties it.
\* A second writer of the same file makes both of them writers over one another.
Receive(r, o) ==
  /\ work[r].at = "idle" /\ pictures < MaxPictures
  /\ pictures' = pictures + 1
  /\ file' = [file EXCEPT ![o] = Torn]
  /\ work' = [s \in Requests |->
                IF s = r THEN [at |-> IF On(o, Writing) = {} THEN "writing" ELSE "over",
                               owner |-> o, picture |-> pictures + 1]
                ELSE IF s \in On(o, Writing) THEN [work[s] EXCEPT !.at = "over"] ELSE work[s]]
  /\ broken' = IF On(o, Removing) # {} THEN broken \union {o} ELSE broken
  /\ UNCHANGED <<row, backups, faults, archives>>
\* A removal in the meantime has taken the name away (the handle writes to no file);
\* otherwise the picture is there, whole unless another one was written over it.
Save(r) ==
  /\ work[r].at \in Writing
  /\ \E c \in IF file[work[r].owner] = Absent THEN {Absent}
              ELSE IF work[r].at = "over" THEN {work[r].picture, Torn}
              ELSE {work[r].picture} :
       file' = [file EXCEPT ![work[r].owner] = c]
  /\ Step(r, [work[r] EXCEPT !.at = "saved"])
  /\ UNCHANGED <<row, pictures, backups, faults, archives, broken>>
\* The disk refuses the rest: 422, the file as it is, the row as it was.
SaveFails(r) ==
  /\ work[r].at \in Writing /\ Fault /\ Step(r, Idle)
  /\ UNCHANGED <<file, row, pictures, backups, archives, broken>>
CommitPath(r) ==
  /\ work[r].at = "saved" /\ Step(r, Idle)
  /\ row' = [row EXCEPT ![work[r].owner] = TRUE]
  /\ UNCHANGED <<file, pictures, backups, faults, archives, broken>>
----------------------------------------------------------------------------
(* remove_student_photo: the file, then the row *)

Unlink(r, o) ==
  /\ work[r].at = "idle" /\ (row[o] \/ file[o] # Absent)
  /\ file' = [file EXCEPT ![o] = Absent]
  /\ Step(r, [at |-> "unlinked", owner |-> o])
  /\ broken' = IF On(o, Saving) # {} THEN broken \union {o} ELSE broken
  /\ UNCHANGED <<row, pictures, backups, faults, archives>>
CommitRemoval(r) ==
  /\ work[r].at = "unlinked" /\ Step(r, Idle)
  /\ row' = [row EXCEPT ![work[r].owner] = FALSE]
  /\ UNCHANGED <<file, pictures, backups, faults, archives, broken>>

\* The server stops; what was not committed is not.
Crash ==
  /\ Fault
  /\ work' = [r \in Requests |-> Idle]
  /\ broken' = broken \union {o \in Students : On(o, Removing) # {}}
  /\ UNCHANGED <<file, row, pictures, backups, archives>>
----------------------------------------------------------------------------
(* create_backup: the files there are, their digests; their bytes; validate_backup *)

\* What a reading yields: two readings of a file that is being written may differ.
Present == {o \in Owners : file[o] # Absent}
Digest(r) ==
  /\ work[r].at = "idle" /\ backups < MaxBackups /\ Present # {}
  /\ backups' = backups + 1
  /\ Step(r, [at |-> "digest", owner |-> "none", declared |-> [o \in Present |-> file[o]],
              steady |-> {o \in Present : On(o, Writing) = {}}])
  /\ UNCHANGED <<file, row, pictures, faults, archives, broken>>
\* A file that has gone raises; the temporary archive is removed.
Copy(r) ==
  /\ work[r].at = "digest"
  /\ LET w == work[r] IN
     IF \A o \in DOMAIN w.declared : file[o] # Absent
     THEN \E same \in SUBSET (DOMAIN w.declared \ w.steady) :
            Step(r, [at |-> "copy", owner |-> "none", declared |-> w.declared,
                     held |-> [o \in DOMAIN w.declared |-> file[o]],
                     same |-> same \union w.steady])
     ELSE Step(r, Idle)
  /\ UNCHANGED <<file, row, pictures, backups, faults, archives, broken>>
\* The archive is published as it was written.
Validates_Never(w) == TRUE
\* validate_backup compares the bytes in the archive with the declared digests.
Validates(w) == \A o \in DOMAIN w.declared : w.held[o] = w.declared[o] /\ o \in w.same
Publish(r) ==
  /\ work[r].at = "copy" /\ Step(r, Idle)
  /\ archives' = IF Validates(work[r])
                 THEN archives \union {[declared |-> work[r].declared, held |-> work[r].held]}
                 ELSE archives
  /\ UNCHANGED <<file, row, pictures, backups, faults, broken>>

Next ==
  \/ \E r \in Requests, o \in Owners : Receive(r, o)
  \/ \E r \in Requests, o \in Students : Unlink(r, o)
  \/ \E r \in Requests : \/ Save(r) \/ SaveFails(r) \/ CommitPath(r) \/ CommitRemoval(r)
                         \/ Digest(r) \/ Copy(r) \/ Publish(r)
  \/ Crash

Spec == Init /\ [][Next]_vars
----------------------------------------------------------------------------
(* Correctness *)

\* A row that names a picture has its file, however uploads, their failures and crashes
\* fall, unless a removal was cut short before its commit or crossed an upload: the file
\* is written before the row names it.
RowHasItsFile ==
  \A o \in Owners : row[o] /\ o \notin broken /\ On(o, Removing) = {} => file[o] # Absent

\* Whatever is uploaded and removed while a backup reads the pictures twice, an archive that
\* is published holds what its manifest declares, and can be restored.
PublishedIsWhole == \A a \in archives : a.held = a.declared
===================================================================================
