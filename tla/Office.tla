--------------------------------- MODULE Office ---------------------------------
(* What a school's server keeps: the register of its students, classes and cards     *)
(* (Registry); beside it the sessions and rights of its accounts, the limits of its  *)
(* callers, its assistant's documents, its audit log and its incidents.  They share  *)
(* nothing here; a behaviour is one of one of them.                                  *)
(*                                                                                   *)
(* Theorems about them follow, for any requests, schools, rows, bounds and limits.   *)
EXTENDS Registry, FiniteSetTheorems, WellFoundedInduction, TLAPS

CONSTANTS
  Parts,                                                       \* those that may run
  MAX_LOGIN_ATTEMPTS, MaxPasswords, MaxTokens, MaxLogins,      \* Sessions'
  Callers, Allowed, Window, MaxCallers, MaxSeconds,            \* Limiter's
  Users, Super, Posts, Permissions, Profiles, ProfilePermissions, Direction,
  MODIFY_PERMISSIONS, MODIFY_USERS, MODIFY_SETTINGS, MaxGrants,
  Beginnings,           \* Authority's; the links and holders that a school may begin with
  Texts, Titles, MaxIndexings,                                 \* Knowledge's
  Writers, Actions, Checked, MaxLines,                         \* AuditChain's
  Codes, MaxActions, PerMinute, Cooldown, Month, MaxTicks, MaxIncidents, MaxReports,
  MaxStarts                                                    \* Incidents'

VARIABLES part
VARIABLES account, token, mailed, sessions, chosen, resets, served, stale, doubled,
logins, login
VARIABLES limShared, limClock, limEvents, limSeen, limWork, limPassed, limLate, limUnjust
VARIABLES links, holders, delegated, introduced, grants, granting
VARIABLES document, ingested, crossed, requests, indexing
VARIABLES auditLines, auditNextId, auditWriter, auditCrossed, auditTouched,
auditAltered, auditRemoved
VARIABLES incClock, incRows, incRecent, incWork, incBorn, incStarts

Login == INSTANCE Sessions WITH
  MaxCalls <- MaxLogins, asked <- resets, uses <- served, calls <- logins, work <- login
Attempts == INSTANCE Limiter WITH
  Keys <- Callers, Limit <- Allowed, MaxKeys <- MaxCallers, MaxTime <- MaxSeconds,
  shared <- limShared, clock <- limClock, events <- limEvents, lastSeen <- limSeen,
  work <- limWork, passed <- limPassed, late <- limLate, unjust <- limUnjust
Rights == INSTANCE Authority WITH MaxCalls <- MaxGrants, calls <- grants, work <- granting
Library == INSTANCE Knowledge WITH
  MaxCalls <- MaxIndexings, calls <- requests, work <- indexing
Audit == INSTANCE AuditChain WITH
  lines <- auditLines, nextId <- auditNextId, writer <- auditWriter,
  crossed <- auditCrossed, touched <- auditTouched, altered <- auditAltered,
  removed <- auditRemoved
Outages == INSTANCE Incidents WITH
  NoCode <- NoRow, MaxTime <- MaxTicks, clock <- incClock, incident <- incRows,
  recent <- incRecent, work <- incWork, born <- incBorn, starts <- incStarts

ASSUME OfficeAssumption ==
  /\ Login!SessionsConstants /\ Attempts!LimiterConstants /\ Rights!AuthorityConstants
  /\ Library!KnowledgeConstants /\ NoRow \notin Library!Documents
  /\ Audit!AuditConstants /\ Outages!IncidentConstants

register == vars
accounts ==
  <<account, token, mailed, sessions, chosen, resets, served, stale, doubled, logins, login>>
attempts ==
  <<limShared, limClock, limEvents, limSeen, limWork, limPassed, limLate, limUnjust>>
rights == <<links, holders, delegated, introduced, grants, granting>>
index == <<document, ingested, crossed, requests, indexing>>
chain ==
  <<auditLines, auditNextId, auditWriter, auditCrossed, auditTouched, auditAltered,
  auditRemoved>>
outages == <<incClock, incRows, incRecent, incWork, incBorn, incStarts>>
people == <<register, accounts, attempts, rights>>
written == <<index, chain, outages>>

\* Without posts, or after calls of the centre: what a post may do was given to the school.
RightsInit ==
  /\ \E b \in Beginnings : /\ links = b.links /\ holders = b.holders
                           /\ introduced = {<<l[2], l[3]>> : l \in b.links}
  /\ delegated = {} /\ grants = 0 /\ granting = [r \in Requests |-> Rights!Idle]

OfficeInit ==
  /\ Init /\ Login!Init /\ Attempts!Init /\ RightsInit /\ Library!Init /\ Audit!Init
  /\ Outages!Init
  /\ part \in Parts
  /\ part # "rights" => links = {}
  /\ part # "attempts" => ~limShared
  /\ part # "audit" => auditLines[1] = Audit!NoLine
  /\ part # "sessions" => ~account.must /\ ~account.hash.legacy
OfficeNext ==
  /\ part' = part
  /\ \/ /\ UNCHANGED written
        /\ \/ part = "register" /\ Next /\ UNCHANGED <<accounts, attempts, rights>>
           \/ part = "sessions" /\ Login!Next /\ UNCHANGED <<register, attempts, rights>>
           \/ part = "attempts" /\ Attempts!Next /\ UNCHANGED <<register, accounts, rights>>
           \/ part = "rights" /\ Rights!Next /\ UNCHANGED <<register, accounts, attempts>>
     \/ /\ UNCHANGED people
        /\ \/ part = "library" /\ Library!Next /\ UNCHANGED <<chain, outages>>
           \/ part = "audit" /\ Audit!Next /\ UNCHANGED <<index, outages>>
           \/ part = "incidents" /\ Outages!Next /\ UNCHANGED <<index, chain>>
OfficeSpec == OfficeInit /\ [][OfficeNext]_<<people, written, part>>

---------------------------------------------------------------------------------
(* Properties                                                                    *)

\* A new password ends the sessions of the old one, and one reset token is live at a time
\* (Sessions' properties, where requests do not cross); attempts are refused beyond their
\* limit and not below it, in a table that does not grow (Limiter).
SessionsHold ==
  /\ part = "sessions" => Login!NewPasswordOnly /\ Login!OneResetToken
  /\ part = "attempts" =>
       Attempts!WindowHolds /\ Attempts!RefusedForCause /\ Attempts!TableBounded

\* No session that has ended is good again (Sessions).
EndedForGood == Login!EndedForGood

\* No delegation, post or profile lets anyone do what nobody with the right to it gave, and
\* among the versions of a document only those that crossed are served together (the
\* properties of Authority and Knowledge).
NothingWidens ==
  /\ part = "rights" => Rights!NothingWidens
  /\ part = "library" => Library!AloneButForNew

\* The chain of audit lines is found valid when nobody touched it, and invalid where
\* somebody did, but for what writers at work together make of it (AuditChain); incidents
\* are not opened without end for an alert that stays, and their time is counted once in
\* the months that they lasted, each rounded to minutes (Incidents).
AuditTells ==
  /\ part = "audit" => Audit!UntouchedIsValid /\ Audit!TouchingShows
  /\ part = "incidents" =>
       Outages!Deduplicated /\ Outages!BreakerHolds /\ Outages!MonthsAddUp

---------------------------------------------------------------------------------
(* The inductive invariant                                                       *)

\* What a session may hold, by the operation; "school" is there once the row of the
\* school is locked.
Conditions == {"active", "gone"}
Creating == [op : {"create"}, student : Students, mat : Nat, classes : SUBSET Classes]
Typing == [op : {"insert"}, student : Students, mat : Nat \ {0}, classes : SUBSET Classes]
Numbering == [op : {"insert"}, student : Students, mat : Nat \ {0},
              classes : SUBSET Classes, school : Schools]
Moving == [op : {"status"}, of : Students, old : Conditions, new : Conditions,
           leaves : SUBSET Classes]
Enrolling == [op : {"enrol"}, of : Students, leaves : SUBSET Classes, to : Classes]
Arranging == [op : {"class"}, class : Classes, old : Rooms \cup {NoRow}, new : Rooms]
Closing == [op : {"level"}, level : Levels, new : BOOLEAN]
Choosing == [op : {"issue"}, todo : SUBSET Students, cards : Seq(Badges), bulk : BOOLEAN]
Issuing == [op : {"issue"}, todo : SUBSET Students, cards : Seq(Badges), bulk : BOOLEAN,
            school : Schools, number : Nat]
Striking == [op : {"card"}, card : Cards, old : Badges, new : Badges]
Sessions ==
  Creating \cup Typing \cup Numbering \cup Moving \cup Enrolling \cup Arranging
    \cup Closing \cup Choosing \cup Issuing \cup Striking \cup {Idle}

Typed ==
  /\ TypeOK
  /\ overlapped \in BOOLEAN
  /\ work \in [Requests -> Sessions]

\* The rows that a session writes exist: no row is ever removed.
Stands(w) ==
  /\ w.op \in {"status", "enrol"} => student[w.of] # NoRow
  /\ w.op = "create" => w.classes \subseteq Exist(class)
  /\ w.op = "class" => w.old = NoRow \/ class[w.class] # NoRow
  /\ w.op = "card" => card[w.card] # NoRow
Refers == \A r \in Requests : Stands(work[r])

\* A request that is to make a student active, or to put one in a class, counted fewer
\* than the limit when the others were not there yet.
Claims(w, h) ==
  \/ w.op \in {"create", "insert"} /\ Home[w.student] = h
  \/ w.op = "status" /\ w.old # "active" /\ w.new = "active" /\ Home[w.of] = h
Claimants(h) == {r \in Requests : Claims(work[r], h)}
QuotaClaimed ==
  \A h \in Schools :
    Cardinality(ActiveStudents(h)) + Cardinality(Claimants(h)) <= Limit[uses] + Excess

Enters(w, c) ==
  \/ w.op = "insert" /\ c \in w.classes
  \/ w.op = "enrol" /\ w.to = c
Entrants(c) == {r \in Requests : Enters(work[r], c)}
Widest == \A c \in Exist(class) : class[c].capacity <= widest[c]
RoomsClaimed ==
  "offline" \notin uses =>
    \A c \in Classes : Cardinality(In(c)) + Cardinality(Entrants(c)) <= widest[c] + Excess

\* Without crossing, one request is under way, and what it read of the classes of its
\* student is so.
Alone ==
  ~overlapped =>
    \A r, q \in Requests : ~Ready(r, "none") /\ ~Ready(q, "none") => r = q
AtMostOne(C) == \A c, d \in C : c = d
JoinsOne(w) == w.op \in {"create", "insert"} => AtMostOne(w.classes)
InOneClass ==
  /\ \A r \in Requests : JoinsOne(work[r])
  /\ ~overlapped =>
       /\ \A s \in Students : AtMostOne(ClassesOf(s))
       /\ \A r \in Requests :
            Ready(r, "enrol") => ClassesOf(work[r].of) \subseteq work[r].leaves

\* One request holds the row of a school; generated numbers are not beyond the sequence,
\* and the one that is to be inserted is.
OneHolder == \A r, q \in Requests, h \in Schools : Advanced(r, h) /\ Advanced(q, h) => r = q
Generated ==
  \A s \in Exist(student) : student[s].typed \/ student[s].mat <= seq[Home[s]]
Ahead(w) ==
  w.op = "insert" /\ "school" \in DOMAIN w =>
    w.school = Home[w.student] /\ w.mat > seq[w.school]
Numbered == OneHolder /\ Generated /\ \A r \in Requests : Ahead(work[r])

IInv ==
  /\ Typed /\ Refers /\ QuotaClaimed /\ Widest /\ RoomsClaimed
  /\ Alone /\ InOneClass /\ Numbered

LEMMA Kinds ==
  ASSUME NEW w \in Sessions
  PROVE  /\ w.op \in {"none", "create", "insert", "status", "enrol", "class", "level",
                      "issue", "card"}
         /\ w.op = "create" => w \in Creating
         /\ w.op = "insert" => w \in Typing \cup Numbering
         /\ w.op = "status" => w \in Moving
         /\ w.op = "enrol" => w \in Enrolling
         /\ w.op = "class" => w \in Arranging
         /\ w.op = "level" => w \in Closing
         /\ w.op = "issue" => w \in Choosing \cup Issuing
         /\ w.op = "card" => w \in Striking
         /\ w.op = "none" => w = Idle
         /\ "school" \in DOMAIN w => w \in Numbering \cup Issuing
BY DEF Sessions, Creating, Typing, Numbering, Moving, Enrolling, Arranging, Closing,
       Choosing, Issuing, Striking, Idle

---------------------------------------------------------------------------------
(* Counting, and the next number                                                 *)

LEMMA LeastOfNat ==
  ASSUME NEW S, S \subseteq Nat, S # {}
  PROVE  \E n \in S : \A m \in S : n <= m
<1> DEFINE Less == OpToRel(<, Nat)
<1>1. PICK n \in S : \A m \in S : ~(<<m, n>> \in Less)
  BY NatLessThanWellFounded, WFMin
<1>2. \A m, k \in Nat : m < k => <<m, k>> \in Less
  BY Zenon DEF OpToRel
<1> HIDE DEF Less
<1>3. ASSUME NEW m \in S PROVE n <= m
  <2>1. ~(m < n)
    BY <1>1, <1>2
  <2> QED
    BY <2>1
<1> QED
  BY <1>3

\* next_matricule stops: there are more numbers after the sequence than students.
LEMMA NextNumberIs ==
  ASSUME Typed, NEW h \in Schools
  PROVE  NextNumber(h) \in Nat \ {0} /\ NextNumber(h) > seq[h]
<1> DEFINE taken == Of(Exist(student), h)
           I == seq[h] + 1 .. seq[h] + 1 + Cardinality(Students)
<1>1. seq[h] \in Nat /\ Cardinality(Students) \in Nat /\ taken \in SUBSET Students
  BY FS_CardinalityType, RegistryAssumption DEF Typed, TypeOK, Of, Exist
<1>2. IsFiniteSet(taken) /\ Cardinality(taken) <= Cardinality(Students)
  BY <1>1, FS_Subset, RegistryAssumption
<1>3. IsFiniteSet(Matricules(h)) /\ Cardinality(Matricules(h)) <= Cardinality(taken)
  <2>1. [s \in taken |-> student[s].mat] \in Surjection(taken, Matricules(h))
    BY DEF Matricules, Surjection
  <2> QED
    BY <1>2, <2>1, FS_Surjection
<1>4. I \ Matricules(h) # {}
  <2>1. IsFiniteSet(I) /\ Cardinality(I) = Cardinality(Students) + 1
    <3>1. \A a, n \in Nat : IsFiniteSet(a .. a + n) /\ Cardinality(a .. a + n) = n + 1
      BY FS_Interval
    <3> QED
      BY <1>1, <3>1
  <2> HIDE DEF I, taken
  <2>2. Cardinality(Matricules(h)) \in Nat /\ Cardinality(taken) \in Nat
    BY <1>2, <1>3, FS_CardinalityType
  <2>3. ~(I \in SUBSET Matricules(h))
    BY <1>1, <1>2, <1>3, <2>1, <2>2, FS_Subset
  <2> QED
    BY <2>3
<1>5. I \ Matricules(h) \subseteq Nat
  BY <1>1
<1>6. PICK n \in I \ Matricules(h) : \A m \in I \ Matricules(h) : n <= m
  BY <1>4, <1>5, LeastOfNat
<1>7. \A m \in seq[h] + 1 .. n - 1 : m \in Matricules(h)
  BY <1>1, <1>6
<1>8. NextNumber(h) \in I
  BY <1>6, <1>7 DEF NextNumber
<1> QED
  BY <1>1, <1>8

\* The three ways in which what is there and what is claimed change: both get less, a
\* claim is made after a count, a claim becomes one that is there.
LEMMA Fewer ==
  ASSUME NEW A, NEW B, IsFiniteSet(A), NEW C \in SUBSET Requests, NEW D \in SUBSET Requests,
         B \subseteq A, D \subseteq C
  PROVE  /\ Cardinality(B) + Cardinality(D) <= Cardinality(A) + Cardinality(C)
         /\ Cardinality(A) + Cardinality(C) \in Nat /\ Cardinality(B) + Cardinality(D) \in Nat
<1>1. Cardinality(A) \in Nat /\ Cardinality(B) \in Nat /\ Cardinality(B) <= Cardinality(A)
  BY FS_Subset, FS_CardinalityType
<1>2. Cardinality(C) \in Nat /\ Cardinality(D) \in Nat /\ Cardinality(D) <= Cardinality(C)
  BY FS_Subset, FS_CardinalityType, RegistryAssumption
<1> QED
  BY <1>1, <1>2

LEMMA Claimed ==
  ASSUME NEW A, NEW B, IsFiniteSet(A), NEW D \in SUBSET Requests, NEW max \in Nat,
         B \subseteq A, Cardinality(A) < max
  PROVE  Cardinality(B) + Cardinality(D) <= max + Excess
<1>1. /\ IsFiniteSet(Requests) /\ {} \in SUBSET A
      /\ D \subseteq Requests /\ Requests \in SUBSET Requests
  BY RegistryAssumption
<1>2. Cardinality(B) + Cardinality(D) <= Cardinality(A) + Cardinality(Requests)
  BY <1>1, Fewer
<1>3. /\ Cardinality(A) \in Nat /\ Cardinality(Requests) \in Nat
      /\ Cardinality(B) \in Nat /\ Cardinality(D) \in Nat
  BY <1>1, FS_Subset, FS_CardinalityType
<1> QED
  BY <1>2, <1>3 DEF Excess

LEMMA Moved ==
  ASSUME NEW A, NEW B, IsFiniteSet(A), NEW C \in SUBSET Requests, NEW D \in SUBSET Requests,
         \E x : B \subseteq A \cup {x}, \E r \in C : D \subseteq C \ {r}
  PROVE  /\ Cardinality(B) + Cardinality(D) <= Cardinality(A) + Cardinality(C)
         /\ Cardinality(A) + Cardinality(C) \in Nat /\ Cardinality(B) + Cardinality(D) \in Nat
<1> PICK x : B \subseteq A \cup {x}
  OBVIOUS
<1> PICK r \in C : D \subseteq C \ {r}
  OBVIOUS
<1>1. /\ IsFiniteSet(A \cup {x}) /\ IsFiniteSet(C)
      /\ Cardinality(A \cup {x}) = IF x \in A THEN Cardinality(A) ELSE Cardinality(A) + 1
      /\ Cardinality(C \ {r}) = Cardinality(C) - 1
  <2>1. IsFiniteSet(C)
    BY FS_Subset, RegistryAssumption
  <2> QED
    BY <2>1, FS_AddElement, FS_RemoveElement
<1>2. Cardinality(B) + Cardinality(D) <= Cardinality(A \cup {x}) + Cardinality(C \ {r})
  BY <1>1, Fewer
<1>3. /\ Cardinality(A) \in Nat /\ Cardinality(C) \in Nat
      /\ Cardinality(B) \in Nat /\ Cardinality(D) \in Nat
  <2>1. IsFiniteSet(B) /\ IsFiniteSet(D)
    BY <1>1, FS_Subset
  <2> QED
    BY <1>1, <2>1, FS_CardinalityType
<1> QED
  BY <1>1, <1>2, <1>3

---------------------------------------------------------------------------------
(* What a step does to the sessions                                              *)

\* What holds of a session when it begins: the counts and the rows were just read.
Entitled(x) ==
  /\ x \in Sessions
  /\ Stands(x) /\ JoinsOne(x)
  /\ "school" \notin DOMAIN x
  /\ \A h \in Schools : Claims(x, h) => HasQuota(h)
  /\ \A c \in Classes :
       Enters(x, c) => "offline" \in uses \/ (c \in Exist(class) /\ HasRoom(c))
  /\ x.op = "enrol" =>
       \/ ClassesOf(x.of) = {}
       \/ x.leaves \subseteq ClassesOf(x.of) /\ x.leaves # {}

LEMMA ReadIs ==
  ASSUME Typed, NEW r \in Requests, Read(r)
  PROVE  \E x : Entitled(x) /\ Begin(r, x)
<1> USE RegistryAssumption DEF Typed, TypeOK
<1> DEFINE Is(x) == Entitled(x) /\ Begin(r, x)
<1>1. ASSUME NEW mat \in Given \cup {0}, NEW C \in {{}} \cup {{c} : c \in Exist(class)},
             CreateRead(r, mat, C)
      PROVE  \E x : Is(x)
  <2>1. PICK s \in Fresh(student, "student") :
              /\ HasQuota(Home[s])
              /\ Begin(r, [op |-> "create", student |-> s, mat |-> mat, classes |-> C])
    BY <1>1 DEF CreateRead
  <2>2. s \in Students /\ C \subseteq Exist(class) /\ C \subseteq Classes /\ AtMostOne(C)
    BY DEF Fresh, Exist, AtMostOne
  <2> DEFINE x == [op |-> "create", student |-> s, mat |-> mat, classes |-> C]
  <2>3. x \in Sessions
    BY <2>2 DEF Sessions, Creating
  <2>4. Entitled(x)
    BY <2>1, <2>2, <2>3 DEF Entitled, Stands, JoinsOne, Claims, Enters
  <2> QED
    BY <2>1, <2>4
<1>2. ASSUME NEW mat \in Given, SyncCreateRead(r, mat) PROVE \E x : Is(x)
  <2>1. PICK s \in Fresh(student, "student") :
              /\ HasQuota(Home[s])
              /\ Begin(r, [op |-> "insert", student |-> s, mat |-> mat, classes |-> {}])
    BY <1>2 DEF SyncCreateRead
  <2> DEFINE x == [op |-> "insert", student |-> s, mat |-> mat, classes |-> {}]
  <2>2. s \in Students
    BY DEF Fresh, Exist
  <2>3. x \in Sessions
    BY <2>2 DEF Sessions, Typing
  <2>4. Entitled(x)
    BY <2>1, <2>2, <2>3 DEF Entitled, Stands, JoinsOne, AtMostOne, Claims, Enters
  <2> QED
    BY <2>1, <2>4
<1>3. ASSUME NEW s \in Students, WithdrawRead(r, s) PROVE \E x : Is(x)
  <2> DEFINE x == StatusSession(s, "gone", ClassesOf(s))
  <2>1. s \in Exist(student) /\ Begin(r, x)
    BY <1>3 DEF WithdrawRead
  <2>2. x \in Sessions
    BY <2>1 DEF StatusSession, Sessions, Moving, Conditions, Exist, Members, ClassesOf
  <2>3. Entitled(x)
    BY <2>1, <2>2 DEF Entitled, Stands, JoinsOne, Claims, Enters, StatusSession, Exist
  <2> QED
    BY <2>1, <2>3
<1>4. ASSUME NEW s \in Students, NEW to \in {"active", "gone"},
             StatusRead(r, s, to) \/ SyncStatusRead(r, s, to)
      PROVE  \E x : Is(x)
  <2>1. PICK C \in SUBSET Classes :
             /\ s \in Exist(student)
             /\ to = "active" /\ student[s].status # "active" => HasQuota(Home[s])
             /\ Begin(r, StatusSession(s, to, C))
    BY <1>4 DEF StatusRead, SyncStatusRead, ClassesOf
  <2> DEFINE x == StatusSession(s, to, C)
  <2>2. x \in Sessions
    BY <2>1 DEF StatusSession, Sessions, Moving, Conditions, Exist, Members
  <2>3. Entitled(x)
    BY <2>1, <2>2 DEF Entitled, Stands, JoinsOne, Claims, Enters, StatusSession, Exist
  <2> QED
    BY <2>1, <2>3
<1>5. ASSUME NEW s \in Students, NEW c \in Classes,
             EnrolRead(r, s, c) \/ SyncEnrolRead(r, s, c) \/ TransferRead(r, s, c)
      PROVE  \E x : Is(x)
  <2>1. PICK L \in SUBSET Classes :
             /\ s \in Exist(student) /\ c \in Exist(class)
             /\ "offline" \in uses \/ HasRoom(c)
             /\ ClassesOf(s) = {} \/ (L \subseteq ClassesOf(s) /\ L # {})
             /\ Begin(r, [op |-> "enrol", of |-> s, leaves |-> L, to |-> c])
    <3>1. CASE EnrolRead(r, s, c) \/ SyncEnrolRead(r, s, c)
      <4>1. /\ s \in Exist(student) /\ c \in Exist(class) /\ ClassesOf(s) = {}
            /\ "offline" \in uses \/ HasRoom(c)
            /\ Begin(r, [op |-> "enrol", of |-> s, leaves |-> {}, to |-> c])
        BY <3>1 DEF EnrolRead, SyncEnrolRead, MayEnrol
      <4> WITNESS {} \in SUBSET Classes
      <4> QED
        BY <4>1
    <3>2. CASE TransferRead(r, s, c)
      <4>1. PICK from \in ClassesOf(s) :
                  Begin(r, [op |-> "enrol", of |-> s, leaves |-> {from}, to |-> c])
        BY <3>2 DEF TransferRead
      <4>2. {from} \in SUBSET Classes /\ {from} \subseteq ClassesOf(s)
        BY DEF ClassesOf
      <4> QED
        BY <3>2, <4>1, <4>2 DEF TransferRead
    <3> QED
      BY <1>5, <3>1, <3>2
  <2> DEFINE x == [op |-> "enrol", of |-> s, leaves |-> L, to |-> c]
  <2>2. x \in Sessions
    BY DEF Sessions, Enrolling
  <2>3. Entitled(x)
    BY <2>1, <2>2 DEF Entitled, Stands, JoinsOne, Claims, Enters, Exist
  <2> QED
    BY <2>1, <2>3
<1>6. ASSUME NEW c \in Classes, NEW old \in Rooms \cup {NoRow}, NEW new \in Rooms,
             old = NoRow \/ c \in Exist(class), Begin(r, ClassSession(c, old, new))
      PROVE  \E x : Is(x)
  <2> DEFINE x == ClassSession(c, old, new)
  <2>1. x \in Sessions
    BY DEF ClassSession, Sessions, Arranging
  <2>2. Entitled(x)
    BY <1>6, <2>1 DEF Entitled, Stands, JoinsOne, Claims, Enters, ClassSession, Exist
  <2> QED
    BY <1>6, <2>2
<1>7. ASSUME NEW l \in Levels, NEW cap \in Capacities, MakeClassRead(r, l, cap)
      PROVE  \E x : Is(x)
  BY <1>6, <1>7 DEF MakeClassRead, Fresh, Exist, Rooms
<1>8. ASSUME NEW c \in Classes, NEW l \in Levels, NEW cap \in Capacities,
             UpdateClassRead(r, c, l, cap)
      PROVE  \E x : Is(x)
  <2>1. c \in Exist(class) /\ class[c] \in Rooms
    BY <1>8 DEF UpdateClassRead, Exist
  <2>2. [class[c] EXCEPT !.level = l, !.capacity = cap] \in Rooms
    BY <2>1 DEF Rooms
  <2> QED
    BY <1>6, <1>8, <2>1, <2>2 DEF UpdateClassRead
<1>14. ASSUME NEW c \in Classes, CloseClassRead(r, c) \/ ReopenClassRead(r, c)
       PROVE  \E x : Is(x)
  <2>1. c \in Exist(class) /\ class[c] \in Rooms
    BY <1>14 DEF CloseClassRead, ReopenClassRead, Exist
  <2>2. \A b \in BOOLEAN : [class[c] EXCEPT !.open = b] \in Rooms
    BY <2>1 DEF Rooms
  <2> QED
    BY <1>6, <1>14, <2>1, <2>2 DEF CloseClassRead, ReopenClassRead
<1>9. ASSUME NEW l \in Levels, CloseLevelRead(r, l) \/ ReopenLevelRead(r, l)
      PROVE  \E x : Is(x)
  <2>1. PICK new \in BOOLEAN : Begin(r, [op |-> "level", level |-> l, new |-> new])
    BY <1>9 DEF CloseLevelRead, ReopenLevelRead
  <2> DEFINE x == [op |-> "level", level |-> l, new |-> new]
  <2>2. x \in Sessions
    BY DEF Sessions, Closing
  <2>3. Entitled(x)
    BY <2>2 DEF Entitled, Stands, JoinsOne, Claims, Enters
  <2> QED
    BY <2>1, <2>3
<1>10. ASSUME NEW S \in SUBSET Students, NEW bulk \in BOOLEAN,
              Begin(r, [op |-> "issue", todo |-> S, cards |-> <<>>, bulk |-> bulk])
       PROVE  \E x : Is(x)
  <2> DEFINE x == [op |-> "issue", todo |-> S, cards |-> <<>>, bulk |-> bulk]
  <2>1. x \in Sessions
    BY DEF Sessions, Choosing
  <2>2. Entitled(x)
    BY <2>1 DEF Entitled, Stands, JoinsOne, Claims, Enters
  <2> QED
    BY <1>10, <2>2
<1>11. ASSUME NEW s \in Students, IssueRead(r, s) PROVE \E x : Is(x)
  BY <1>10, <1>11 DEF IssueRead
<1>12. ASSUME NEW c \in Classes, NEW h \in Schools, BulkRead(r, c, h) PROVE \E x : Is(x)
  BY <1>10, <1>12 DEF BulkRead, In
<1>13. ASSUME NEW k \in Exist(card), NEW to \in Live \cup Dead,
              Begin(r, CardSession(k, to))
       PROVE  \E x : Is(x)
  <2>1. k \in Cards /\ card[k] \in Badges /\ (to \in Live) \in BOOLEAN
    BY DEF Exist
  <2>2. \A b \in BOOLEAN : [card[k] EXCEPT !.status = to, !.live = b] \in Badges
    BY <2>1 DEF Badges
  <2>3. CardSession(k, to) \in Striking
    BY <2>1, <2>2 DEF CardSession, Striking
  <2>4. CardSession(k, to) \in Sessions
    BY <2>3 DEF Sessions
  <2>5. Entitled(CardSession(k, to))
    BY <2>4 DEF Entitled, Stands, JoinsOne, Claims, Enters, CardSession, Exist
  <2> QED
    BY <1>13, <2>5
<1>15. ASSUME NEW k \in Cards, RevokeRead(r, k) PROVE \E x : Is(x)
  BY <1>13, <1>15 DEF RevokeRead, Dead
<1>16. ASSUME NEW k \in Cards, NEW to \in Live \cup Dead, LifecycleRead(r, k, to)
       PROVE  \E x : Is(x)
  BY <1>13, <1>16 DEF LifecycleRead
<1> HIDE DEF Is
<1>17. \E x : Is(x)
  BY <1>1, <1>2, <1>3, <1>4, <1>5, <1>7, <1>8, <1>9, <1>11, <1>12, <1>14, <1>15, <1>16
     DEF Read
<1> QED
  BY <1>17 DEF Is

\* create_student goes on from its check to its number, for the same student and class.
LEMMA NumberIs ==
  ASSUME Typed, Refers, NEW r \in Requests, CreateNumber(r)
  PROVE  \E x \in Typing \cup Numbering :
           /\ Continue(r, x)
           /\ x.student = work[r].student /\ x.classes = work[r].classes
           /\ \A c \in x.classes : c \in Exist(class) /\ HasRoom(c)
           /\ "school" \in DOMAIN x =>
                RowFree(x.school) /\ x.school = Home[x.student] /\ x.mat > seq[x.school]
<1> DEFINE w == work[r]
           h == Home[w.student]
<1>1. w \in Creating
  BY Kinds DEF Typed, CreateNumber, Ready
<1>2. h \in Schools
  BY <1>1, RegistryAssumption DEF Creating
<1>3. \A c \in w.classes : c \in Exist(class) /\ HasRoom(c)
  BY <1>1 DEF CreateNumber, Refers, Stands, Creating
<1>4. CASE w.mat = 0
  <2> DEFINE x == [op |-> "insert", student |-> w.student, mat |-> NextNumber(h),
                   classes |-> w.classes, school |-> h]
  <2>1. x \in Numbering /\ x.mat > seq[h]
    BY <1>1, <1>2, NextNumberIs DEF Numbering, Creating
  <2>2. RowFree(h) /\ Continue(r, x)
    BY <1>4 DEF CreateNumber
  <2> QED
    BY <1>3, <2>1, <2>2
<1>5. CASE w.mat # 0
  <2> DEFINE x == [w EXCEPT !.op = "insert"]
  <2>1. x \in Typing /\ x.student = w.student /\ x.classes = w.classes
    BY <1>1, <1>5 DEF Typing, Creating
  <2>2. "school" \notin DOMAIN x
    BY <2>1 DEF Typing
  <2>3. Continue(r, x)
    BY <1>5 DEF CreateNumber
  <2> QED
    BY <1>3, <2>1, <2>2, <2>3
<1> QED
  BY <1>4, <1>5

LEMMA IssueIs ==
  ASSUME Typed, NEW r \in Requests, NEW s \in Students, IssueOne(r, s)
  PROVE  \E x \in Choosing \cup Issuing :
           /\ Continue(r, x)
           /\ "school" \in DOMAIN x => Advanced(r, x.school) \/ RowFree(x.school)
<1> DEFINE w == work[r]
           h == Home[s]
<1>1. w \in Choosing \cup Issuing /\ h \in Schools
  BY Kinds, RegistryAssumption DEF Typed, IssueOne, Ready
<1>2. CASE w.bulk /\ HasLiveCard(s)
  <2> DEFINE x == [w EXCEPT !.todo = @ \ {s}]
  <2>1. x \in Choosing \cup Issuing /\ DOMAIN x = DOMAIN w
    BY <1>1 DEF Choosing, Issuing
  <2>2. "school" \in DOMAIN x => x.school = w.school
    BY <1>1 DEF Choosing, Issuing
  <2>3. Continue(r, x)
    BY <1>2 DEF IssueOne
  <2> QED
    BY <2>1, <2>2, <2>3 DEF Advanced
<1>3. CASE ~(w.bulk /\ HasLiveCard(s))
  <2> DEFINE new == [holder |-> s, number |-> Number(r, h), live |-> TRUE, status |-> "active"]
             x == [op |-> "issue", todo |-> w.todo \ {s}, bulk |-> w.bulk, school |-> h,
                   number |-> Number(r, h), cards |-> Append(w.cards, new)]
  <2>1. Number(r, h) \in Nat
    <3>1. Advanced(r, h) => w \in Issuing
      BY <1>1 DEF Advanced, Choosing
    <3>2. badge[h] \in Nat
      BY <1>1 DEF Typed, TypeOK
    <3> QED
      BY <3>1, <3>2 DEF Number, Issuing
  <2>2. new \in Badges
    BY <2>1 DEF Badges, Live
  <2>3. x \in Issuing
    <3>1. w.cards \in Seq(Badges) /\ w.todo \in SUBSET Students /\ w.bulk \in BOOLEAN
      BY <1>1 DEF Choosing, Issuing
    <3>2. Append(w.cards, new) \in Seq(Badges)
      BY <2>2, <3>1
    <3> QED
      BY <1>1, <2>1, <3>1, <3>2 DEF Issuing
  <2>4. Continue(r, x) /\ (Advanced(r, h) \/ RowFree(h))
    BY <1>3 DEF IssueOne
  <2> QED
    BY <2>3, <2>4
<1> QED
  BY <1>2, <1>3

---------------------------------------------------------------------------------
(* Types, and the rows that sessions write                                       *)

LEMMA MergedIs ==
  ASSUME NEW R \in {Rooms, Badges}, NEW row \in R, NEW old \in R, NEW new \in R
  PROVE  Merged(row, old, new) \in R
<1>1. CASE R = Rooms
  BY <1>1 DEF Merged, Rooms
<1>2. CASE R = Badges
  BY <1>2 DEF Merged, Badges
<1> QED
  BY <1>1, <1>2

LEMMA TypedStep == ASSUME Typed, Refers, [Next]_vars PROVE Typed'
<1> USE RegistryAssumption
<1>1. ASSUME UNCHANGED vars PROVE Typed'
  BY <1>1 DEF vars, rows, Typed, TypeOK
<1>2. ASSUME NEW r \in Requests, NEW x \in Sessions, Begin(r, x) PROVE Typed'
  BY <1>2 DEF Begin, rows, Typed, TypeOK
<1>3. ASSUME NEW r \in Requests, NEW x \in Sessions, Continue(r, x) PROVE Typed'
  BY <1>3 DEF Continue, rows, Typed, TypeOK
<1>4. ASSUME NEW r \in Requests, CreateCommit(r) PROVE Typed'
  <2> DEFINE w == work[r]
             row == [status |-> "active", mat |-> w.mat,
                     typed |-> ~Advanced(r, Home[w.student])]
  <2>1. w \in Typing \cup Numbering
    BY <1>4, Kinds DEF Typed, CreateCommit, Ready
  <2>2. row \in Members /\ w.student \in Students /\ w.mat \in Nat
    BY <2>1 DEF Members, Typing, Numbering
  <2>3. student' = [student EXCEPT ![w.student] = row]
    BY <1>4 DEF CreateCommit
  <2>4. student' \in [Students -> Members \cup {NoRow}]
    BY <2>2, <2>3 DEF Typed, TypeOK
  <2>5. place' \in [Students -> [Classes -> {"none", "in", "left"}]]
    BY <1>4, <2>2 DEF CreateCommit, Typed, TypeOK
  <2>6. seq' \in [Schools -> Nat]
    BY <1>4, <2>2 DEF CreateCommit, Typed, TypeOK
  <2>7. \A s \in Students : student'[s] = NoRow => \A c \in Classes : place'[s][c] = "none"
    BY <1>4, <2>2, <2>3 DEF CreateCommit, Typed, TypeOK
  <2> QED
    BY <1>4, <2>4, <2>5, <2>6, <2>7 DEF CreateCommit, End, Sessions, Typed, TypeOK
<1>5. ASSUME NEW r \in Requests, StatusCommit(r) PROVE Typed'
  <2> DEFINE w == work[r]
  <2>1. w \in Moving /\ student[w.of] # NoRow
    BY <1>5, Kinds DEF Typed, StatusCommit, Ready, Refers, Stands
  <2>2. student[w.of] \in Members
    BY <2>1 DEF Typed, TypeOK, Moving
  <2>3. \A c \in Conditions : [student[w.of] EXCEPT !.status = c] \in Members
    BY <2>2 DEF Members, Conditions
  <2> DEFINE row == [student[w.of] EXCEPT !.status =
                       IF w.new # w.old THEN w.new ELSE student[w.of].status]
  <2>4. w.of \in Students /\ row \in Members
    BY <2>1, <2>2, <2>3 DEF Moving, Members, Conditions
  <2>5. student' = [student EXCEPT ![w.of] = row]
    BY <1>5 DEF StatusCommit
  <2>6. student' \in [Students -> Members \cup {NoRow}]
    <3> HIDE DEF row
    <3> QED
      BY <2>4, <2>5 DEF Typed, TypeOK
  <2>7. place' \in [Students -> [Classes -> {"none", "in", "left"}]]
    <3> DEFINE p == [c \in Classes |-> IF c \in w.leaves THEN "left" ELSE place[w.of][c]]
    <3>1. p \in [Classes -> {"none", "in", "left"}]
      BY <2>1 DEF Typed, TypeOK, Moving
    <3>2. place' = [place EXCEPT ![w.of] = p]
      BY <1>5 DEF StatusCommit
    <3> QED
      BY <3>1, <3>2 DEF Typed, TypeOK
  <2>8. \A s \in Students : student'[s] = NoRow => \A c \in Classes : place'[s][c] = "none"
    <3> HIDE DEF row
    <3>1. student'[w.of] # NoRow
      BY <2>4, <2>5, RegistryAssumption DEF Typed, TypeOK
    <3>2. \A s \in Students : s # w.of => student'[s] = student[s] /\ place'[s] = place[s]
      BY <1>5, <2>5 DEF StatusCommit, Typed, TypeOK
    <3>3. \A s \in Students : student[s] = NoRow => \A c \in Classes : place[s][c] = "none"
      BY DEF Typed, TypeOK
    <3> QED
      BY <3>1, <3>2, <3>3
  <2> QED
    BY <1>5, <2>6, <2>7, <2>8 DEF StatusCommit, End, Sessions, Typed, TypeOK
<1>6. ASSUME NEW r \in Requests, EnrolCommit(r) PROVE Typed'
  <2> DEFINE w == work[r]
  <2>1. w \in Enrolling /\ student[w.of] # NoRow
    BY <1>6, Kinds DEF Typed, EnrolCommit, Ready, Refers, Stands
  <2>2. place' \in [Students -> [Classes -> {"none", "in", "left"}]]
    <3> DEFINE p == [c \in Classes |-> IF c = w.to THEN "in"
                                        ELSE IF c \in w.leaves THEN "left" ELSE place[w.of][c]]
    <3>1. p \in [Classes -> {"none", "in", "left"}]
      BY <2>1 DEF Typed, TypeOK, Enrolling
    <3>2. place' = [place EXCEPT ![w.of] = p]
      BY <1>6 DEF EnrolCommit
    <3> QED
      BY <3>1, <3>2 DEF Typed, TypeOK
  <2>3. \A s \in Students : s # w.of => place'[s] = place[s]
    BY <1>6, <2>1 DEF EnrolCommit, Typed, TypeOK
  <2> QED
    BY <1>6, <2>1, <2>2, <2>3 DEF EnrolCommit, End, Sessions, Typed, TypeOK
<1>7. ASSUME NEW r \in Requests, ClassCommit(r) PROVE Typed'
  <2> DEFINE w == work[r]
             row == IF w.old = NoRow THEN w.new ELSE Merged(class[w.class], w.old, w.new)
  <2>1. w \in Arranging /\ (w.old = NoRow \/ class[w.class] # NoRow)
    BY <1>7, Kinds DEF Typed, ClassCommit, Ready, Refers, Stands
  <2>2. row \in Rooms
    BY <2>1, MergedIs DEF Typed, TypeOK, Arranging
  <2>3. class' = [class EXCEPT ![w.class] = row]
    BY <1>7 DEF ClassCommit
  <2>4. row.capacity \in Nat
    BY <2>2 DEF Rooms
  <2>5. widest' \in [Classes -> Nat]
    BY <1>7, <2>4 DEF ClassCommit, Typed, TypeOK
  <2> QED
    BY <1>7, <2>2, <2>3, <2>5 DEF ClassCommit, End, Sessions, Typed, TypeOK
<1>8. ASSUME NEW r \in Requests, LevelCommit(r) PROVE Typed'
  <2>1. work[r] \in Closing
    BY <1>8, Kinds DEF Typed, LevelCommit, Ready
  <2> QED
    BY <1>8, <2>1 DEF LevelCommit, End, Sessions, Closing, Typed, TypeOK
<1>9. ASSUME NEW r \in Requests, IssueCommit(r) PROVE Typed'
  <2> DEFINE w == work[r]
  <2>1. w \in Choosing \cup Issuing
    BY <1>9, Kinds DEF Typed, IssueCommit, Ready
  <2>2. w.cards \in Seq(Badges)
    BY <2>1 DEF Choosing, Issuing
  <2>3. \A i \in DOMAIN w.cards : w.cards[i] \in Badges
    BY <2>2
  <2>4. card' \in [Cards -> Badges \cup {NoRow}]
    <3>1. PICK new \in [DOMAIN w.cards -> Cards \ Exist(card)] :
                 card' = [k \in Cards |-> IF \E i \in DOMAIN new : new[i] = k
                                     THEN w.cards[CHOOSE i \in DOMAIN new : new[i] = k]
                                     ELSE card[k]]
      BY <1>9 DEF IssueCommit
    <3>2. ASSUME NEW k \in Cards PROVE card'[k] \in Badges \cup {NoRow}
      <4>1. CASE \E i \in DOMAIN new : new[i] = k
        BY <2>3, <3>1, <4>1
      <4>2. CASE ~\E i \in DOMAIN new : new[i] = k
        BY <3>1, <4>2 DEF Typed, TypeOK
      <4> QED
        BY <4>1, <4>2
    <3> QED
      BY <3>1, <3>2
  <2>5. badge' \in [Schools -> Nat]
    <3>1. \A h : Advanced(r, h) => w.number \in Nat
      BY <2>1 DEF Advanced, Choosing, Issuing
    <3> QED
      BY <1>9, <3>1 DEF IssueCommit, Typed, TypeOK
  <2> QED
    BY <1>9, <2>4, <2>5 DEF IssueCommit, End, Sessions, Typed, TypeOK
<1>10. ASSUME NEW r \in Requests, MoveCardCommit(r) PROVE Typed'
  <2> DEFINE w == work[r]
  <2>1. w \in Striking /\ card[w.card] # NoRow
    BY <1>10, Kinds DEF Typed, MoveCardCommit, Ready, Refers, Stands
  <2>2. Merged(card[w.card], w.old, w.new) \in Badges
    BY <2>1, MergedIs DEF Typed, TypeOK, Striking
  <2>3. card' \in [Cards -> Badges \cup {NoRow}]
    BY <1>10, <2>1, <2>2 DEF MoveCardCommit, Typed, TypeOK
  <2> QED
    BY <1>10, <2>3 DEF MoveCardCommit, End, Sessions, Typed, TypeOK
<1>11. ASSUME NEW r \in Requests, Abort(r) PROVE Typed'
  BY <1>11 DEF Abort, End, rows, Sessions, Typed, TypeOK
<1>12. ASSUME NEW r \in Requests, CreateNumber(r) PROVE Typed'
  BY <1>3, <1>12, NumberIs DEF Sessions
<1>13. ASSUME NEW r \in Requests, NEW s \in Students, IssueOne(r, s) PROVE Typed'
  BY <1>3, <1>13, IssueIs DEF Sessions
<1>14. ASSUME NEW r \in Requests, Read(r) PROVE Typed'
  BY <1>2, <1>14, ReadIs DEF Entitled
<1> QED
  BY <1>1, <1>4, <1>5, <1>6, <1>7, <1>8, <1>9, <1>10, <1>11, <1>12, <1>13, <1>14
     DEF Next, Write

\* A step is of one request, whose session begins, goes on or ends.
LEMMA SessionIs ==
  ASSUME Typed, Refers, NEW r \in Requests, Read(r) \/ Write(r) \/ Abort(r)
  PROVE  /\ \A q \in Requests : q # r => work'[q] = work[q]
         /\ \/ work'[r] = Idle
            \/ Entitled(work'[r]) /\ Begin(r, work'[r])
            \/ CreateNumber(r) /\ Continue(r, work'[r]) /\ work'[r] \in Typing \cup Numbering
            \/ (\E s \in Students : IssueOne(r, s)) /\ Continue(r, work'[r])
               /\ work'[r] \in Choosing \cup Issuing
<1> USE DEF Typed
<1>1. CASE Read(r)
  <2>1. PICK x : Entitled(x) /\ Begin(r, x)
    BY <1>1, ReadIs
  <2>2. work' = [work EXCEPT ![r] = x]
    BY <2>1 DEF Begin
  <2> QED
    BY <2>1, <2>2
<1>2. CASE CreateNumber(r)
  <2>1. PICK x \in Typing \cup Numbering : Continue(r, x)
    BY <1>2, NumberIs
  <2>2. work' = [work EXCEPT ![r] = x]
    BY <2>1 DEF Continue
  <2> QED
    BY <1>2, <2>1, <2>2
<1>3. ASSUME NEW s \in Students, IssueOne(r, s)
      PROVE  /\ \A q \in Requests : q # r => work'[q] = work[q]
             /\ Continue(r, work'[r]) /\ work'[r] \in Choosing \cup Issuing
  <2>1. PICK x \in Choosing \cup Issuing : Continue(r, x)
    BY <1>3, IssueIs
  <2>2. work' = [work EXCEPT ![r] = x]
    BY <2>1 DEF Continue
  <2> QED
    BY <2>1, <2>2
<1>4. CASE End(r)
  BY <1>4 DEF End
<1>5. CASE Write(r) /\ ~CreateNumber(r) /\ ~\E s \in Students : IssueOne(r, s)
  BY <1>4, <1>5 DEF Write, CreateCommit, StatusCommit, EnrolCommit, ClassCommit, LevelCommit,
                    IssueCommit, MoveCardCommit
<1>6. CASE Abort(r)
  BY <1>4, <1>6 DEF Abort
<1> QED
  BY <1>1, <1>2, <1>3, <1>5, <1>6

\* No row is removed.
LEMMA RowsStay ==
  ASSUME Typed, Refers, [Next]_vars
  PROVE  /\ Exist(student) \subseteq Exist(student)'
         /\ Exist(class) \subseteq Exist(class)'
         /\ Exist(card) \subseteq Exist(card)'
<1> USE RegistryAssumption DEF Typed, TypeOK, Exist
<1>1. Typed'
  BY TypedStep
<1>2. ASSUME NEW r \in Requests, CreateCommit(r) \/ StatusCommit(r)
      PROVE  Exist(student) \subseteq Exist(student)' /\ UNCHANGED <<class, card>>
  <2>1. CASE CreateCommit(r)
    <3>1. PICK row \in Members : student' = [student EXCEPT ![work[r].student] = row]
      <4>1. work[r] \in Typing \cup Numbering
        BY <2>1, Kinds DEF CreateCommit, Ready
      <4> QED
        <5> DEFINE row == [status |-> "active", mat |-> work[r].mat,
                           typed |-> ~Advanced(r, Home[work[r].student])]
        <5>1. row \in Members
          BY <4>1 DEF Members, Typing, Numbering
        <5>2. student' = [student EXCEPT ![work[r].student] = row]
          BY <2>1 DEF CreateCommit
        <5> QED
          BY <5>1, <5>2
    <3> QED
      BY <2>1, <3>1 DEF CreateCommit
  <2>2. CASE StatusCommit(r)
    <3>1. work[r] \in Moving /\ student[work[r].of] \in Members
      BY <2>2, Kinds DEF StatusCommit, Ready, Refers, Stands, Moving
    <3>2. \A c \in Conditions : [student[work[r].of] EXCEPT !.status = c] \in Members
      BY <3>1 DEF Members, Conditions
    <3>3. PICK row \in Members : student' = [student EXCEPT ![work[r].of] = row]
      BY <2>2, <3>1, <3>2 DEF StatusCommit, Moving, Members, Conditions
    <3> QED
      BY <2>2, <3>3 DEF StatusCommit
  <2> QED
    BY <1>2, <2>1, <2>2
<1>3. ASSUME NEW r \in Requests, ClassCommit(r)
      PROVE  Exist(class) \subseteq Exist(class)' /\ UNCHANGED <<student, card>>
  <2>1. work[r] \in Arranging /\ (work[r].old = NoRow \/ class[work[r].class] \in Rooms)
    BY <1>3, Kinds DEF ClassCommit, Ready, Refers, Stands, Arranging
  <2>2. PICK row \in Rooms : class' = [class EXCEPT ![work[r].class] = row]
    BY <1>3, <2>1, MergedIs DEF ClassCommit, Arranging
  <2> QED
    BY <1>3, <2>2 DEF ClassCommit
<1>4. ASSUME NEW r \in Requests, IssueCommit(r)
      PROVE  Exist(card) \subseteq Exist(card)' /\ UNCHANGED <<student, class>>
  BY <1>4 DEF IssueCommit
<1>5. ASSUME NEW r \in Requests, MoveCardCommit(r)
      PROVE  Exist(card) \subseteq Exist(card)' /\ UNCHANGED <<student, class>>
  <2>1. work[r] \in Striking /\ card[work[r].card] \in Badges
    BY <1>5, Kinds DEF MoveCardCommit, Ready, Refers, Stands, Striking
  <2>2. PICK row \in Badges : card' = [card EXCEPT ![work[r].card] = row]
    BY <1>5, <2>1, MergedIs DEF MoveCardCommit, Striking
  <2> QED
    BY <1>5, <2>2 DEF MoveCardCommit
<1>6. ASSUME NEW r \in Requests,
             \/ Abort(r) \/ EnrolCommit(r) \/ LevelCommit(r) \/ (\E x : Continue(r, x))
             \/ (\E x : Begin(r, x))
      PROVE  UNCHANGED <<student, class, card>>
  BY <1>6 DEF Abort, EnrolCommit, LevelCommit, Continue, Begin, rows
<1>7. ASSUME UNCHANGED vars PROVE UNCHANGED <<student, class, card>>
  BY <1>7 DEF vars, rows
<1>8. ASSUME NEW r \in Requests,
             Read(r) \/ CreateNumber(r) \/ \E s \in Students : IssueOne(r, s)
      PROVE  (\E x : Continue(r, x)) \/ (\E x : Begin(r, x))
  BY <1>8, ReadIs, NumberIs, IssueIs
<1> QED
  BY <1>2, <1>3, <1>4, <1>5, <1>6, <1>7, <1>8 DEF Next, Write

LEMMA RefersStep == ASSUME Typed, Refers, [Next]_vars PROVE Refers'
<1>1. /\ \A s \in Students : student[s] # NoRow => student'[s] # NoRow
      /\ \A c \in Classes : class[c] # NoRow => class'[c] # NoRow
      /\ \A k \in Cards : card[k] # NoRow => card'[k] # NoRow
  BY RowsStay, TypedStep DEF Exist, Typed, TypeOK
<1>2. ASSUME UNCHANGED vars PROVE Refers'
  BY <1>2 DEF vars, rows, Refers, Stands, Exist
<1>3. ASSUME NEW r \in Requests, Read(r) \/ Write(r) \/ Abort(r) PROVE Refers'
  <2>1. ASSUME NEW q \in Requests, q # r PROVE Stands(work[q])'
    <3>1. work'[q] = work[q] /\ Stands(work[q]) /\ work[q] \in Sessions
      BY <1>3, <2>1, SessionIs DEF Refers, Typed
    <3>2. /\ work[q].op = "status" => work[q].of \in Students
          /\ work[q].op = "enrol" => work[q].of \in Students
          /\ work[q].op = "class" => work[q].class \in Classes
          /\ work[q].op = "card" => work[q].card \in Cards
      BY <3>1, Kinds DEF Moving, Enrolling, Arranging, Striking
    <3>3. work[q].op = "create" => work[q].classes \subseteq Exist(class)'
      BY <3>1, RowsStay DEF Stands
    <3> QED
      BY <1>1, <3>1, <3>2, <3>3 DEF Stands
  <2>2. Stands(work[r])'
    <3>1. CASE work'[r] = Idle
      BY <3>1 DEF Stands, Idle
    <3>2. CASE Entitled(work'[r]) /\ Begin(r, work'[r])
      BY <3>2 DEF Entitled, Begin, rows, Stands, Exist
    <3>3. CASE work'[r] \in Typing \cup Numbering \cup Choosing \cup Issuing
      BY <3>3 DEF Stands, Typing, Numbering, Choosing, Issuing
    <3> QED
      BY <1>3, <3>1, <3>2, <3>3, SessionIs
  <2> QED
    BY <2>1, <2>2 DEF Refers
<1> QED
  BY <1>2, <1>3 DEF Next

---------------------------------------------------------------------------------
(* The quota and the rooms                                                       *)

LEMMA Balance ==
  ASSUME NEW A, NEW B, IsFiniteSet(A), NEW C \in SUBSET Requests, NEW D \in SUBSET Requests,
         NEW max \in Nat, Cardinality(A) + Cardinality(C) <= max + Excess,
         \/ B \subseteq A /\ D \subseteq C
         \/ B \subseteq A /\ Cardinality(A) < max
         \/ (\E x : B \subseteq A \cup {x}) /\ (\E r \in C : D \subseteq C \ {r})
  PROVE  Cardinality(B) + Cardinality(D) <= max + Excess
<1>1. Excess \in Nat
  BY FS_CardinalityType, FS_EmptySet, RegistryAssumption DEF Excess
<1>2. IsFiniteSet(B) /\ IsFiniteSet(D)
  <2>1. \A x : IsFiniteSet(A \cup {x})
    BY FS_AddElement
  <2>2. (\E x : B \subseteq A \cup {x}) \/ B \subseteq A
    OBVIOUS
  <2> QED
    BY <2>1, <2>2, FS_Subset, RegistryAssumption
<1>3. Cardinality(B) \in Nat /\ Cardinality(D) \in Nat
  BY <1>2, FS_CardinalityType
<1>4. CASE B \subseteq A /\ D \subseteq C
  <2>1. /\ Cardinality(B) + Cardinality(D) <= Cardinality(A) + Cardinality(C)
        /\ Cardinality(A) + Cardinality(C) \in Nat /\ Cardinality(B) + Cardinality(D) \in Nat
    BY <1>4, Fewer
  <2> QED
    BY <1>1, <1>3, <2>1
<1>5. CASE B \subseteq A /\ Cardinality(A) < max
  BY <1>1, <1>3, <1>5, Claimed
<1>6. CASE (\E x : B \subseteq A \cup {x}) /\ (\E r \in C : D \subseteq C \ {r})
  <2>1. /\ Cardinality(B) + Cardinality(D) <= Cardinality(A) + Cardinality(C)
        /\ Cardinality(A) + Cardinality(C) \in Nat /\ Cardinality(B) + Cardinality(D) \in Nat
    BY <1>6, Moved
  <2> QED
    BY <1>1, <1>3, <2>1
<1> QED
  BY <1>1, <1>3, <1>4, <1>5, <1>6

LEMMA UsesStay == ASSUME Typed, Refers, [Next]_vars PROVE uses' = uses
<1>1. ASSUME NEW r, (\E x : Begin(r, x)) \/ (\E x : Continue(r, x)) \/ End(r)
      PROVE  uses' = uses
  BY <1>1 DEF Begin, Continue, End
<1>2. ASSUME NEW r \in Requests,
             Read(r) \/ CreateNumber(r) \/ \E s \in Students : IssueOne(r, s)
      PROVE  uses' = uses
  BY <1>1, <1>2, ReadIs, NumberIs, IssueIs
<1>3. ASSUME NEW r \in Requests, Write(r), ~CreateNumber(r),
             ~\E s \in Students : IssueOne(r, s)
      PROVE  uses' = uses
  BY <1>1, <1>3 DEF Write, CreateCommit, StatusCommit, EnrolCommit, ClassCommit, LevelCommit,
                    IssueCommit, MoveCardCommit
<1>4. ASSUME NEW r \in Requests, Abort(r) PROVE uses' = uses
  BY <1>1, <1>4 DEF Abort
<1> QED
  BY <1>2, <1>3, <1>4 DEF Next, vars

LEMMA QuotaStep == ASSUME Typed, Refers, QuotaClaimed, [Next]_vars PROVE QuotaClaimed'
<1> SUFFICES ASSUME NEW h \in Schools
             PROVE  Cardinality(ActiveStudents(h)') + Cardinality(Claimants(h)')
                      <= Limit[uses] + Excess
  <2>1. uses' = uses
    BY UsesStay
  <2> QED
    BY <2>1 DEF QuotaClaimed, Excess
<1> DEFINE A == ActiveStudents(h)
           B == ActiveStudents(h)'
           C == Claimants(h)
           D == Claimants(h)'
<1>1. /\ IsFiniteSet(A) /\ C \in SUBSET Requests /\ D \in SUBSET Requests
      /\ Limit[uses] \in Nat
      /\ Cardinality(A) + Cardinality(C) <= Limit[uses] + Excess
  <2>1. A \in SUBSET Students
    BY DEF ActiveStudents, Of, Exist, Typed, TypeOK
  <2> QED
    BY <2>1, FS_Subset, RegistryAssumption
       DEF Claimants, QuotaClaimed, Typed, TypeOK
<1>2. ASSUME UNCHANGED vars PROVE B = A /\ D = C
  BY <1>2 DEF vars, rows, ActiveStudents, Of, Exist, Claimants
<1>3. ASSUME NEW r \in Requests, student' = student,
             \A q \in Requests : q # r => work'[q] = work[q],
             Claims(work'[r], h) => Claims(work[r], h)
      PROVE  B \subseteq A /\ D \subseteq C
  BY <1>3 DEF ActiveStudents, Of, Exist, Claimants
<1>4. ASSUME NEW r \in Requests, NEW s,
             \A q \in Requests : q # r => work'[q] = work[q], work'[r] = Idle,
             B \subseteq A \cup {s}, B \subseteq A \/ Claims(work[r], h)
      PROVE  (B \subseteq A /\ D \subseteq C) \/ (r \in C /\ D \subseteq C \ {r})
  BY <1>4 DEF Claimants, Claims, Idle
<1>5. ASSUME NEW r \in Requests, Entitled(work'[r]), Begin(r, work'[r])
      PROVE  (B \subseteq A /\ D \subseteq C)
          \/ (B \subseteq A /\ Cardinality(A) < Limit[uses])
  <2>1. student' = student /\ \A q \in Requests : q # r => work'[q] = work[q]
    BY <1>5 DEF Begin, rows, Typed
  <2>2. B \subseteq A
    BY <2>1 DEF ActiveStudents, Of, Exist
  <2>3. CASE Claims(work'[r], h)
    BY <1>5, <2>2, <2>3 DEF Entitled, HasQuota
  <2>4. CASE ~Claims(work'[r], h)
    BY <1>3, <2>1, <2>4
  <2> QED
    BY <2>3, <2>4
<1>6. ASSUME NEW r \in Requests, CreateCommit(r)
      PROVE  \E s : B \subseteq A \cup {s} /\ (B \subseteq A \/ Claims(work[r], h))
  <2>1. work[r] \in Typing \cup Numbering /\ work[r].op = "insert"
    BY <1>6, Kinds DEF Typed, CreateCommit, Ready
  <2>2. \A s \in Students : s # work[r].student => student'[s] = student[s]
    BY <1>6 DEF CreateCommit, Typed, TypeOK
  <2>3. B \subseteq A \cup {work[r].student}
    BY <2>2, TypedStep DEF ActiveStudents, Of, Exist, Typed, TypeOK
  <2>4. Home[work[r].student] # h => B \subseteq A
    BY <2>3 DEF ActiveStudents, Of
  <2> QED
    BY <2>1, <2>3, <2>4 DEF Claims
<1>7. ASSUME NEW r \in Requests, StatusCommit(r)
      PROVE  \E s : B \subseteq A \cup {s} /\ (B \subseteq A \/ Claims(work[r], h))
  <2> DEFINE w == work[r]
  <2>1. w \in Moving /\ w.op = "status" /\ w.of \in Students /\ student[w.of] \in Members
    BY <1>7, Kinds DEF Typed, TypeOK, StatusCommit, Ready, Moving, Refers, Stands
  <2>2. \A s \in Students : s # w.of => student'[s] = student[s]
    BY <1>7 DEF StatusCommit, Typed, TypeOK
  <2>3. B \subseteq A \cup {w.of}
    BY <2>2, TypedStep DEF ActiveStudents, Of, Exist, Typed, TypeOK
  <2>4. Home[w.of] # h => B \subseteq A
    BY <2>3 DEF ActiveStudents, Of
  <2>5. student'[w.of].status = IF w.new # w.old THEN w.new ELSE student[w.of].status
    BY <1>7, <2>1 DEF StatusCommit, Typed, TypeOK, Members
  <2>6. w.new # "active" \/ w.old = "active" => B \subseteq A
    <3>1. w.of \in B /\ (w.new # "active" \/ w.old = "active") => w.of \in A
      <4>1. student[w.of] # NoRow
        BY <1>7 DEF Refers, Stands, StatusCommit, Ready
      <4> QED
        BY <2>1, <2>5, <4>1 DEF ActiveStudents, Of, Exist, Typed, TypeOK, Moving, Conditions
    <3> QED
      BY <2>3, <3>1
  <2> QED
    BY <2>1, <2>3, <2>4, <2>6 DEF Claims
<1>8. ASSUME NEW r \in Requests, Read(r) \/ Write(r) \/ Abort(r)
      PROVE  \/ B \subseteq A /\ D \subseteq C
             \/ B \subseteq A /\ Cardinality(A) < Limit[uses]
             \/ (\E s : B \subseteq A \cup {s}) /\ r \in C /\ D \subseteq C \ {r}
  <2>1. \A q \in Requests : q # r => work'[q] = work[q]
    BY <1>8, SessionIs
  <2>2. CASE CreateCommit(r) \/ StatusCommit(r)
    <3>1. work'[r] = Idle
      BY <2>2 DEF CreateCommit, StatusCommit, End, Typed
    <3> QED
      BY <1>4, <1>6, <1>7, <2>1, <2>2, <3>1
  <2>3. CASE Entitled(work'[r]) /\ Begin(r, work'[r])
    BY <1>5, <2>3
  <2>4. CASE CreateNumber(r)
    <3>1. PICK x \in Typing \cup Numbering : Continue(r, x) /\ x.student = work[r].student
      BY <2>4, NumberIs
    <3>2. student' = student /\ work'[r] = x /\ work[r].op = "create"
      BY <2>4, <3>1 DEF Continue, rows, Typed, CreateNumber, Ready
    <3>3. Claims(x, h) => Claims(work[r], h)
      BY <3>1, <3>2 DEF Claims, Typing, Numbering
    <3> QED
      BY <1>3, <2>1, <3>2, <3>3
  <2>5. CASE (\E s \in Students : IssueOne(r, s)) /\ Continue(r, work'[r])
             /\ work'[r] \in Choosing \cup Issuing
    <3>1. student' = student /\ ~Claims(work'[r], h)
      BY <2>5 DEF Continue, rows, Claims, Choosing, Issuing
    <3> QED
      BY <1>3, <2>1, <3>1
  <2>6. CASE work'[r] = Idle /\ ~CreateCommit(r) /\ ~StatusCommit(r)
    <3>1. ~Claims(work'[r], h)
      BY <2>6 DEF Claims, Idle
    <3>2. (\E x : Begin(r, x)) \/ (\E x : Continue(r, x)) => student' = student
      BY DEF Begin, Continue, rows
    <3>3. student' = student
      BY <1>8, <2>6, <3>2, ReadIs, NumberIs, IssueIs
         DEF Write, EnrolCommit, ClassCommit, LevelCommit, IssueCommit, MoveCardCommit,
             Abort, rows
    <3> QED
      BY <1>3, <2>1, <3>1, <3>3
  <2> QED
    BY <1>8, <2>2, <2>3, <2>4, <2>5, <2>6, SessionIs
<1>9. \/ B \subseteq A /\ D \subseteq C
      \/ B \subseteq A /\ Cardinality(A) < Limit[uses]
      \/ (\E s : B \subseteq A \cup {s}) /\ (\E r \in C : D \subseteq C \ {r})
  BY <1>2, <1>8 DEF Next
<1> HIDE DEF A, B, C, D
<1>10. Cardinality(B) + Cardinality(D) <= Limit[uses] + Excess
  BY <1>1, <1>9, Balance
<1> QED
  BY <1>10 DEF B, D

LEMMA WidestStep ==
  ASSUME Typed, Refers, Widest, [Next]_vars
  PROVE  Widest' /\ \A c \in Classes : widest'[c] >= widest[c]
<1>1. ASSUME NEW r \in Requests, ClassCommit(r)
      PROVE  Widest' /\ \A c \in Classes : widest'[c] >= widest[c]
  <2> DEFINE w == work[r]
             row == IF w.old = NoRow THEN w.new ELSE Merged(class[w.class], w.old, w.new)
  <2>1. w \in Arranging /\ (w.old = NoRow \/ class[w.class] # NoRow)
    BY <1>1, Kinds DEF Typed, ClassCommit, Ready, Refers, Stands
  <2>2. row \in Rooms
    BY <2>1, MergedIs DEF Typed, TypeOK, Arranging
  <2>3. w.class \in Classes /\ row.capacity \in Nat
    BY <2>1, <2>2, RegistryAssumption DEF Rooms, Arranging
  <2>4. /\ class' = [class EXCEPT ![w.class] = row]
        /\ widest' = [widest EXCEPT ![w.class] = IF row.capacity > @ THEN row.capacity ELSE @]
    BY <1>1 DEF ClassCommit
  <2> HIDE DEF row
  <2>5. \A c \in Classes \ {w.class} : class'[c] = class[c] /\ widest'[c] = widest[c]
    BY <2>3, <2>4 DEF Typed, TypeOK
  <2>6. class'[w.class] = row /\ widest[w.class] \in Nat
        /\ widest'[w.class] = IF row.capacity > widest[w.class] THEN row.capacity
                              ELSE widest[w.class]
    BY <2>3, <2>4 DEF Typed, TypeOK
  <2>7. \A c \in Classes : widest[c] \in Nat
    BY DEF Typed, TypeOK
  <2>8. \A c \in Exist(class)' : class'[c].capacity <= widest'[c]
    BY <2>3, <2>4, <2>5, <2>6 DEF Widest, Exist, Typed, TypeOK
  <2>9. \A c \in Classes : widest'[c] >= widest[c]
    BY <2>3, <2>5, <2>6, <2>7
  <2> QED
    BY <2>8, <2>9 DEF Widest
<1>2. ASSUME UNCHANGED <<class, widest>>
      PROVE  Widest' /\ \A c \in Classes : widest'[c] >= widest[c]
  BY <1>2 DEF Widest, Exist, Typed, TypeOK
<1>3. ASSUME NEW r \in Requests, Read(r) \/ Write(r) \/ Abort(r), ~ClassCommit(r)
      PROVE  UNCHANGED <<class, widest>>
  <2>1. (\E x : Begin(r, x)) \/ (\E x : Continue(r, x)) => UNCHANGED <<class, widest>>
    BY DEF Begin, Continue, rows
  <2> QED
    BY <1>3, <2>1, ReadIs, NumberIs, IssueIs
       DEF Write, CreateCommit, StatusCommit, EnrolCommit, LevelCommit, IssueCommit,
           MoveCardCommit, Abort, rows
<1> QED
  BY <1>1, <1>2, <1>3 DEF Next, vars, rows

LEMMA RoomsStep ==
  ASSUME Typed, Refers, Widest, RoomsClaimed, [Next]_vars PROVE RoomsClaimed'
<1> SUFFICES ASSUME "offline" \notin uses, NEW c \in Classes
             PROVE  Cardinality(In(c)') + Cardinality(Entrants(c)') <= widest'[c] + Excess
  BY UsesStay DEF RoomsClaimed, Excess
<1> DEFINE A == In(c)
           B == In(c)'
           C == Entrants(c)
           D == Entrants(c)'
           max == widest[c]
<1>1. /\ IsFiniteSet(A) /\ C \in SUBSET Requests /\ D \in SUBSET Requests
      /\ max \in Nat /\ widest'[c] \in Nat /\ max <= widest'[c]
      /\ Cardinality(A) + Cardinality(C) <= max + Excess
  <2>1. A \in SUBSET Students
    BY DEF In
  <2>2. widest'[c] \in Nat /\ max \in Nat
    BY TypedStep DEF Typed, TypeOK
  <2> QED
    BY <2>1, <2>2, FS_Subset, WidestStep, RegistryAssumption DEF Entrants, RoomsClaimed
<1>2. ASSUME UNCHANGED vars PROVE B \subseteq A /\ D \subseteq C
  BY <1>2 DEF vars, rows, In, Entrants
<1>3. ASSUME NEW r \in Requests, \A s \in Students : place'[s][c] = "in" => place[s][c] = "in",
             \A q \in Requests : q # r => work'[q] = work[q],
             Enters(work'[r], c) => Enters(work[r], c)
      PROVE  B \subseteq A /\ D \subseteq C
  BY <1>3 DEF In, Entrants
<1>4. ASSUME c \in Exist(class), HasRoom(c) PROVE Cardinality(A) < max
  <2>1. class[c].capacity \in Nat /\ class[c].capacity <= max
    BY <1>4, RegistryAssumption DEF Exist, Widest, Typed, TypeOK, Rooms
  <2>2. Cardinality(A) \in Nat
    BY <1>1, FS_CardinalityType
  <2> QED
    BY <1>1, <1>4, <2>1, <2>2 DEF HasRoom
<1>5. ASSUME NEW r \in Requests, Entitled(work'[r]), Begin(r, work'[r])
      PROVE  (B \subseteq A /\ D \subseteq C) \/ (B \subseteq A /\ Cardinality(A) < max)
  <2>1. place' = place /\ \A q \in Requests : q # r => work'[q] = work[q]
    BY <1>5 DEF Begin, rows, Typed
  <2>2. B \subseteq A
    BY <2>1 DEF In
  <2>3. CASE Enters(work'[r], c)
    BY <1>4, <1>5, <2>2, <2>3 DEF Entitled
  <2>4. CASE ~Enters(work'[r], c)
    BY <1>3, <2>1, <2>4
  <2> QED
    BY <2>3, <2>4
<1>6. ASSUME NEW r \in Requests, CreateNumber(r)
      PROVE  (B \subseteq A /\ D \subseteq C) \/ (B \subseteq A /\ Cardinality(A) < max)
  <2>1. PICK x \in Typing \cup Numbering :
              Continue(r, x) /\ \A d \in x.classes : d \in Exist(class) /\ HasRoom(d)
    BY <1>6, NumberIs
  <2>2. place' = place /\ work'[r] = x /\ \A q \in Requests : q # r => work'[q] = work[q]
    BY <2>1 DEF Continue, rows, Typed
  <2>3. B \subseteq A
    BY <2>2 DEF In
  <2>4. CASE Enters(x, c)
    BY <1>4, <2>1, <2>3, <2>4 DEF Enters, Typing, Numbering
  <2>5. CASE ~Enters(x, c)
    BY <1>3, <2>2, <2>5
  <2> QED
    BY <2>4, <2>5
<1>7. ASSUME NEW r \in Requests, work'[r] = Idle,
             \A q \in Requests : q # r => work'[q] = work[q],
             NEW s \in Students, \A t \in Students : t # s => place'[t] = place[t],
             place'[s][c] = "in" => place[s][c] = "in" \/ Enters(work[r], c)
      PROVE  \/ B \subseteq A /\ D \subseteq C
             \/ (\E t : B \subseteq A \cup {t}) /\ r \in C /\ D \subseteq C \ {r}
  <2>1. B \subseteq A \cup {s}
    BY <1>7 DEF In
  <2>2. D \subseteq C \ {r}
    BY <1>7 DEF Entrants, Enters, Idle
  <2>3. CASE Enters(work[r], c)
    BY <2>1, <2>2, <2>3 DEF Entrants
  <2>4. CASE ~Enters(work[r], c)
    BY <1>7, <2>2, <2>4 DEF In
  <2> QED
    BY <2>3, <2>4
<1>8. ASSUME NEW r \in Requests, CreateCommit(r) \/ StatusCommit(r) \/ EnrolCommit(r)
      PROVE  /\ work'[r] = Idle
             /\ \E s \in Students :
                  /\ \A t \in Students : t # s => place'[t] = place[t]
                  /\ place'[s][c] = "in" => place[s][c] = "in" \/ Enters(work[r], c)
  <2> DEFINE w == work[r]
  <2>1. work'[r] = Idle
    BY <1>8 DEF CreateCommit, StatusCommit, EnrolCommit, End, Typed
  <2>2. CASE CreateCommit(r)
    <3>1. w \in Typing \cup Numbering
      BY <2>2, Kinds DEF Typed, CreateCommit, Ready
    <3>2. w.student \in Students /\ w.op = "insert"
      BY <3>1 DEF Typing, Numbering
    <3>3. \A t \in Students : t # w.student => place'[t] = place[t]
      BY <2>2 DEF CreateCommit, Typed, TypeOK
    <3>4. place'[w.student][c] = IF c \in w.classes THEN "in" ELSE "none"
      BY <2>2, <3>2 DEF CreateCommit, Typed, TypeOK
    <3> QED
      BY <2>1, <3>2, <3>3, <3>4 DEF Enters
  <2>3. CASE StatusCommit(r)
    <3>1. w.of \in Students
      BY <2>3, Kinds DEF Typed, StatusCommit, Ready, Moving
    <3>2. \A t \in Students : t # w.of => place'[t] = place[t]
      BY <2>3 DEF StatusCommit, Typed, TypeOK
    <3>3. place'[w.of][c] = IF c \in w.leaves THEN "left" ELSE place[w.of][c]
      BY <2>3, <3>1 DEF StatusCommit, Typed, TypeOK
    <3> QED
      BY <2>1, <3>1, <3>2, <3>3
  <2>4. CASE EnrolCommit(r)
    <3>1. w.of \in Students /\ w.op = "enrol"
      BY <2>4, Kinds DEF Typed, EnrolCommit, Ready, Enrolling
    <3>2. \A t \in Students : t # w.of => place'[t] = place[t]
      BY <2>4 DEF EnrolCommit, Typed, TypeOK
    <3>3. place'[w.of][c] = IF c = w.to THEN "in"
                            ELSE IF c \in w.leaves THEN "left" ELSE place[w.of][c]
      BY <2>4, <3>1 DEF EnrolCommit, Typed, TypeOK
    <3> QED
      BY <2>1, <3>1, <3>2, <3>3 DEF Enters
  <2> QED
    BY <1>8, <2>2, <2>3, <2>4
<1>9. ASSUME NEW r \in Requests, Read(r) \/ Write(r) \/ Abort(r)
      PROVE  \/ B \subseteq A /\ D \subseteq C
             \/ B \subseteq A /\ Cardinality(A) < max
             \/ (\E s : B \subseteq A \cup {s}) /\ r \in C /\ D \subseteq C \ {r}
  <2>1. \A q \in Requests : q # r => work'[q] = work[q]
    BY <1>9, SessionIs
  <2>2. CASE CreateCommit(r) \/ StatusCommit(r) \/ EnrolCommit(r)
    <3>1. PICK s \in Students :
               /\ \A t \in Students : t # s => place'[t] = place[t]
               /\ place'[s][c] = "in" => place[s][c] = "in" \/ Enters(work[r], c)
      BY <1>8, <2>2
    <3>2. work'[r] = Idle
      BY <1>8, <2>2
    <3> QED
      BY <1>7, <2>1, <3>1, <3>2
  <2>3. CASE Entitled(work'[r]) /\ Begin(r, work'[r])
    BY <1>5, <2>3
  <2>4. CASE CreateNumber(r)
    BY <1>6, <2>4
  <2>5. CASE (\E s \in Students : IssueOne(r, s)) /\ Continue(r, work'[r])
             /\ work'[r] \in Choosing \cup Issuing
    <3>1. place' = place /\ ~Enters(work'[r], c)
      BY <2>5 DEF Continue, rows, Enters, Choosing, Issuing
    <3> QED
      BY <1>3, <2>1, <3>1
  <2>6. CASE work'[r] = Idle /\ ~CreateCommit(r) /\ ~StatusCommit(r) /\ ~EnrolCommit(r)
    <3>1. ~Enters(work'[r], c)
      BY <2>6 DEF Enters, Idle
    <3>2. (\E x : Begin(r, x)) \/ (\E x : Continue(r, x)) => place' = place
      BY DEF Begin, Continue, rows
    <3>3. place' = place
      BY <1>9, <2>6, <3>2, ReadIs, NumberIs, IssueIs
         DEF Write, ClassCommit, LevelCommit, IssueCommit, MoveCardCommit, Abort, rows
    <3> QED
      BY <1>3, <2>1, <3>1, <3>3
  <2> QED
    BY <1>9, <2>2, <2>3, <2>4, <2>5, <2>6, SessionIs
<1>10. \/ B \subseteq A /\ D \subseteq C
       \/ B \subseteq A /\ Cardinality(A) < max
       \/ (\E s : B \subseteq A \cup {s}) /\ (\E r \in C : D \subseteq C \ {r})
  BY <1>2, <1>9 DEF Next
<1>11. Cardinality(B) \in Nat /\ Cardinality(D) \in Nat /\ Excess \in Nat
  <2>1. B \in SUBSET Students /\ IsFiniteSet(Students) /\ IsFiniteSet(Requests)
    BY RegistryAssumption DEF In
  <2> QED
    BY <1>1, <2>1, FS_Subset, FS_CardinalityType, FS_EmptySet, RegistryAssumption DEF Excess
<1> HIDE DEF A, B, C, D, max
<1>12. Cardinality(B) + Cardinality(D) <= max + Excess
  BY <1>1, <1>10, Balance
<1>13. Cardinality(B) + Cardinality(D) <= widest'[c] + Excess
  BY <1>1, <1>11, <1>12
<1> QED
  BY <1>13 DEF B, D

---------------------------------------------------------------------------------
(* One class, and the numbers                                                    *)

\* A session begins on what was read, or is of a request that was under way.
LEMMA StepIs ==
  ASSUME Typed, Refers, NEW r \in Requests, Read(r) \/ Write(r) \/ Abort(r)
  PROVE  \/ Begin(r, work'[r]) /\ Entitled(work'[r])
         \/ overlapped' = overlapped /\ ~Ready(r, "none") /\ ~Begin(r, work'[r])
<1>1. CASE Read(r)
  <2>1. ASSUME NEW x, Begin(r, x) PROVE x = work'[r]
    BY <2>1 DEF Begin, Typed
  <2> QED
    BY <1>1, <2>1, ReadIs
<1>2. CASE CreateNumber(r) \/ \E s \in Students : IssueOne(r, s)
  <2>1. \A x : Continue(r, x) => overlapped' = overlapped
    BY DEF Continue
  <2> QED
    BY <1>2, <2>1, NumberIs, IssueIs DEF CreateNumber, IssueOne, Ready, Begin
<1>3. CASE Write(r) /\ ~CreateNumber(r) /\ ~\E s \in Students : IssueOne(r, s)
  BY <1>3 DEF Write, CreateCommit, StatusCommit, EnrolCommit, ClassCommit, LevelCommit,
              IssueCommit, MoveCardCommit, End, Ready, Begin
<1>4. CASE Abort(r)
  BY <1>4 DEF Abort, End, Begin
<1> QED
  BY <1>1, <1>2, <1>3, <1>4

LEMMA AloneStep == ASSUME Typed, Refers, Alone, [Next]_vars PROVE Alone'
<1>1. ASSUME UNCHANGED vars PROVE Alone'
  BY <1>1 DEF vars, Alone, Ready
<1>2. ASSUME NEW r \in Requests, Read(r) \/ Write(r) \/ Abort(r) PROVE Alone'
  <2>1. \A q \in Requests : q # r => work'[q] = work[q]
    BY <1>2, SessionIs
  <2>2. CASE Begin(r, work'[r])
    BY <2>1, <2>2 DEF Begin, Alone, Ready
  <2>3. CASE overlapped' = overlapped /\ ~Ready(r, "none")
    BY <2>1, <2>3 DEF Alone, Ready
  <2> QED
    BY <1>2, <2>2, <2>3, StepIs
<1> QED
  BY <1>1, <1>2 DEF Next

LEMMA PlaceStays ==
  ASSUME Typed, Refers, NEW r \in Requests, Read(r) \/ Write(r) \/ Abort(r),
         ~CreateCommit(r), ~StatusCommit(r), ~EnrolCommit(r)
  PROVE  place' = place
<1>1. (\E x : Begin(r, x)) \/ (\E x : Continue(r, x)) => place' = place
  BY DEF Begin, Continue, rows
<1> QED
  BY <1>1, ReadIs, NumberIs, IssueIs
     DEF Write, ClassCommit, LevelCommit, IssueCommit, MoveCardCommit, Abort, rows

LEMMA InOneClassStep ==
  ASSUME Typed, Refers, Alone, InOneClass, [Next]_vars PROVE InOneClass'
<1>1. ASSUME UNCHANGED vars PROVE InOneClass'
  BY <1>1 DEF vars, rows, InOneClass, ClassesOf, Ready
<1>2. ASSUME NEW r \in Requests, Read(r) \/ Write(r) \/ Abort(r) PROVE InOneClass'
  <2>1. \A q \in Requests : q # r => work'[q] = work[q]
    BY <1>2, SessionIs
  <2>2. JoinsOne(work'[r])
    <3>1. CASE CreateNumber(r)
      <4>1. PICK x \in Typing \cup Numbering : Continue(r, x) /\ x.classes = work[r].classes
        BY <3>1, NumberIs
      <4>2. work'[r] = x /\ work[r].op = "create"
        BY <3>1, <4>1 DEF Continue, CreateNumber, Ready, Typed
      <4> QED
        BY <4>1, <4>2 DEF InOneClass, JoinsOne
    <3>2. CASE ~CreateNumber(r)
      BY <1>2, <3>2, SessionIs DEF Entitled, JoinsOne, Idle, Choosing, Issuing
    <3> QED
      BY <3>1, <3>2
  <2>3. Begin(r, work'[r]) \/ (overlapped' = overlapped /\ ~Ready(r, "none"))
    BY <1>2, StepIs
  <2>4. ASSUME ~overlapped', NEW s \in Students PROVE AtMostOne(ClassesOf(s)')
    <3>1. ~overlapped /\ AtMostOne(ClassesOf(s))
      <4>1. ~overlapped
        BY <2>3, <2>4 DEF Begin
      <4> QED
        BY <4>1 DEF InOneClass
    <3>2. CASE CreateCommit(r)
      <4>1. work[r] \in Typing \cup Numbering
        BY <3>2, Kinds DEF Typed, CreateCommit, Ready
      <4>2. work[r].student \in Students /\ AtMostOne(work[r].classes)
        BY <1>2, <4>1 DEF InOneClass, JoinsOne, Typing, Numbering
      <4>3. place'[s] = IF s = work[r].student
                        THEN [c \in Classes |-> IF c \in work[r].classes THEN "in" ELSE "none"]
                        ELSE place[s]
        BY <3>2, <4>2 DEF CreateCommit, Typed, TypeOK
      <4> QED
        BY <3>1, <4>2, <4>3 DEF AtMostOne, ClassesOf
    <3>3. CASE StatusCommit(r)
      <4>1. \A c \in Classes : place'[s][c] = "in" => place[s][c] = "in"
        BY <3>3 DEF StatusCommit, Typed, TypeOK
      <4> QED
        BY <3>1, <4>1 DEF AtMostOne, ClassesOf
    <3>4. CASE EnrolCommit(r)
      <4>1. \A c \in Classes :
              place'[s][c] = IF s # work[r].of THEN place[s][c]
                             ELSE IF c = work[r].to THEN "in"
                             ELSE IF c \in work[r].leaves THEN "left" ELSE place[s][c]
        BY <3>4 DEF EnrolCommit, Typed, TypeOK
      <4>2. ClassesOf(work[r].of) \subseteq work[r].leaves
        BY <3>1, <3>4 DEF EnrolCommit, InOneClass
      <4> QED
        BY <3>1, <4>1, <4>2 DEF AtMostOne, ClassesOf
    <3>5. CASE ~CreateCommit(r) /\ ~StatusCommit(r) /\ ~EnrolCommit(r)
      BY <1>2, <3>1, <3>5, PlaceStays DEF ClassesOf
    <3> QED
      BY <3>2, <3>3, <3>4, <3>5
  <2>5. ASSUME ~overlapped', NEW q \in Requests, work'[q].op = "enrol", NEW c \in Classes,
               place'[work'[q].of][c] = "in"
        PROVE  c \in work'[q].leaves
    <3>1. CASE Begin(r, work'[r])
      <4>1. \A p \in Requests : Ready(p, "none")
        BY <2>5, <3>1 DEF Begin
      <4>2. q = r /\ place' = place /\ ~overlapped
        BY <2>1, <2>5, <3>1, <4>1 DEF Begin, rows, Ready
      <4>3. Entitled(work'[r])
        BY <1>2, <3>1, StepIs
      <4>4. work'[r] \in Enrolling
        BY <2>5, <4>2, <4>3, Kinds DEF Entitled
      <4>5. AtMostOne(ClassesOf(work'[r].of)) /\ c \in ClassesOf(work'[r].of)
        BY <2>5, <4>2, <4>4 DEF InOneClass, Enrolling, ClassesOf
      <4> QED
        BY <2>5, <4>2, <4>3, <4>5 DEF Entitled, AtMostOne
    <3>2. CASE ~Begin(r, work'[r])
      <4>1. ~overlapped /\ ~Ready(r, "none")
        BY <2>3, <2>5, <3>2
      <4>2. work'[r].op # "enrol"
        BY <1>2, <3>2, SessionIs DEF Idle, Typing, Numbering, Choosing, Issuing
      <4>3. q # r => Ready(q, "none") /\ work'[q] = work[q]
        BY <2>1, <4>1 DEF Alone
      <4> QED
        BY <2>5, <4>2, <4>3 DEF Ready
    <3> QED
      BY <3>1, <3>2
  <2>6. \A q \in Requests : JoinsOne(work'[q])
    BY <2>1, <2>2 DEF InOneClass
  <2> QED
    BY <2>4, <2>5, <2>6 DEF InOneClass, JoinsOne, Ready, ClassesOf
<1> QED
  BY <1>1, <1>2 DEF Next

LEMMA NumbersStay ==
  ASSUME Typed, Refers, NEW r \in Requests, Read(r) \/ Write(r) \/ Abort(r),
         ~CreateCommit(r), ~StatusCommit(r)
  PROVE  student' = student /\ seq' = seq
<1>1. (\E x : Begin(r, x)) \/ (\E x : Continue(r, x)) => student' = student /\ seq' = seq
  BY DEF Begin, Continue, rows
<1> QED
  BY <1>1, ReadIs, NumberIs, IssueIs
     DEF Write, EnrolCommit, ClassCommit, LevelCommit, IssueCommit, MoveCardCommit, Abort, rows

LEMMA NumberedStep == ASSUME Typed, Refers, Numbered, [Next]_vars PROVE Numbered'
<1>1. ASSUME UNCHANGED vars PROVE Numbered'
  BY <1>1 DEF vars, rows, Numbered, OneHolder, Generated, Ahead, Advanced, Exist
<1>2. ASSUME NEW r \in Requests, Read(r) \/ Write(r) \/ Abort(r) PROVE Numbered'
  <2>1. \A q \in Requests : q # r => work'[q] = work[q]
    BY <1>2, SessionIs
  <2>2. OneHolder'
    <3>1. ASSUME NEW h \in Schools, Advanced(r, h)' PROVE Advanced(r, h) \/ RowFree(h)
      <4>1. CASE CreateNumber(r)
        <5>1. PICK x \in Typing \cup Numbering :
                    Continue(r, x) /\ ("school" \in DOMAIN x => RowFree(x.school))
          BY <4>1, NumberIs
        <5>2. work'[r] = x
          BY <5>1 DEF Continue, Typed
        <5> QED
          BY <3>1, <5>1, <5>2 DEF Advanced
      <4>2. ASSUME NEW s \in Students, IssueOne(r, s)
            PROVE  Advanced(r, h) \/ RowFree(h)
        <5>1. PICK x \in Choosing \cup Issuing :
                    /\ Continue(r, x)
                    /\ "school" \in DOMAIN x => Advanced(r, x.school) \/ RowFree(x.school)
          BY <4>2, IssueIs
        <5>2. work'[r] = x
          BY <5>1 DEF Continue, Typed
        <5> QED
          BY <3>1, <5>1, <5>2 DEF Advanced
      <4>3. CASE ~CreateNumber(r) /\ ~\E s \in Students : IssueOne(r, s)
        BY <1>2, <3>1, <4>3, SessionIs DEF Entitled, Advanced, Idle
      <4> QED
        BY <4>1, <4>2, <4>3
    <3>2. ASSUME NEW h \in Schools, NEW q \in Requests, q # r, Advanced(r, h)', Advanced(q, h)'
          PROVE  FALSE
      <4>1. Advanced(q, h)
        BY <2>1, <3>2 DEF Advanced
      <4> QED
        BY <3>1, <3>2, <4>1 DEF Numbered, OneHolder, RowFree
    <3>3. ASSUME NEW h \in Schools, NEW p \in Requests, NEW q \in Requests, p # r, q # r,
                 Advanced(p, h)', Advanced(q, h)'
          PROVE  p = q
      BY <2>1, <3>3 DEF Numbered, OneHolder, Advanced
    <3> QED
      BY <3>2, <3>3 DEF OneHolder
  <2>3. CASE CreateCommit(r)
    <3> DEFINE w == work[r]
               h == Home[w.student]
    <3>1. w \in Typing \cup Numbering /\ w.op = "insert" /\ work'[r] = Idle
      BY <2>3, Kinds DEF Typed, CreateCommit, Ready, End
    <3>2. w.student \in Students /\ h \in Schools /\ w.mat \in Nat
      BY <3>1, RegistryAssumption DEF Typing, Numbering
    <3>3. /\ student'[w.student].mat = w.mat
          /\ student'[w.student].typed = ~Advanced(r, h)
          /\ \A s \in Students : s # w.student => student'[s] = student[s]
      BY <2>3, <3>2 DEF CreateCommit, Typed, TypeOK
    <3>4. CASE Advanced(r, h)
      <4>1. w.mat > seq[h] /\ seq' = [seq EXCEPT ![h] = w.mat]
        BY <2>3, <3>1, <3>4 DEF CreateCommit, Numbered, Ahead, Advanced
      <4>2. seq'[h] = w.mat /\ seq[h] \in Nat
            /\ \A g \in Schools : g # h => seq'[g] = seq[g] /\ seq[g] \in Nat
        BY <3>2, <4>1 DEF Typed, TypeOK
      <4>3. ASSUME NEW s \in Exist(student)', s # w.student
            PROVE  student'[s].typed \/ student'[s].mat <= seq'[Home[s]]
        <5>1. s \in Exist(student) /\ student'[s] = student[s] /\ Home[s] \in Schools
              /\ student[s].mat \in Nat
          BY <3>3, <4>3, TypedStep, RegistryAssumption DEF Exist, Typed, TypeOK, Members
        <5>2. student[s].typed \/ student[s].mat <= seq[Home[s]]
          BY <5>1 DEF Numbered, Generated
        <5> QED
          BY <3>2, <4>1, <4>2, <5>1, <5>2
      <4>4. Generated'
        BY <3>2, <3>3, <4>2, <4>3 DEF Generated
      <4>5. ASSUME NEW q \in Requests, q # r PROVE Ahead(work[q])'
        <5>1. CASE work[q].op = "insert" /\ "school" \in DOMAIN work[q]
          <6>1. Ahead(work[q]) /\ work[q].school \in Schools
            BY <5>1, Kinds DEF Numbered, Typed, Numbering, Issuing
          <6>2. work[q].school # h
            BY <3>2, <3>4, <4>5, <5>1 DEF Numbered, OneHolder, Advanced
          <6> QED
            BY <2>1, <4>2, <4>5, <6>1, <6>2 DEF Ahead
        <5>2. CASE ~(work[q].op = "insert" /\ "school" \in DOMAIN work[q])
          BY <2>1, <4>5, <5>2 DEF Ahead
        <5> QED
          BY <5>1, <5>2
      <4>6. Ahead(work[r])'
        BY <3>1 DEF Ahead, Idle
      <4> QED
        BY <2>2, <4>4, <4>5, <4>6 DEF Numbered
    <3>5. CASE ~Advanced(r, h)
      <4>1. seq' = seq
        BY <2>3, <3>5 DEF CreateCommit
      <4>2. ASSUME NEW s \in Exist(student)'
            PROVE  student'[s].typed \/ student'[s].mat <= seq'[Home[s]]
        <5>1. CASE s = w.student
          BY <3>3, <3>5, <5>1
        <5>2. CASE s # w.student
          BY <3>3, <4>1, <4>2, <5>2, TypedStep DEF Numbered, Generated, Exist, Typed, TypeOK
        <5> QED
          BY <5>1, <5>2
      <4>3. \A q \in Requests : Ahead(work[q])'
        BY <2>1, <3>1, <4>1 DEF Numbered, Ahead, Idle
      <4> QED
        BY <2>2, <4>2, <4>3 DEF Numbered, Generated
    <3> QED
      BY <3>4, <3>5
  <2>4. CASE StatusCommit(r)
    <3>1. work'[r] = Idle /\ seq' = seq
      BY <2>4 DEF StatusCommit, End, Typed
    <3>2. ASSUME NEW s \in Exist(student)'
          PROVE  s \in Exist(student) /\ student'[s].typed = student[s].typed
                 /\ student'[s].mat = student[s].mat
      <4>1. work[r].of \in Students /\ student[work[r].of] \in Members
        BY <2>4, Kinds DEF Typed, TypeOK, StatusCommit, Ready, Refers, Stands, Moving
      <4>2. s \in Students /\ (s # work[r].of => student'[s] = student[s])
        BY <2>4, <3>2, TypedStep DEF StatusCommit, Exist, Typed, TypeOK
      <4>3. student[work[r].of] # NoRow
        BY <4>1, RegistryAssumption
      <4>4. student'[work[r].of].typed = student[work[r].of].typed
            /\ student'[work[r].of].mat = student[work[r].of].mat
        BY <2>4, <4>1 DEF StatusCommit, Typed, TypeOK, Members
      <4> QED
        BY <3>2, <4>1, <4>2, <4>3, <4>4 DEF Exist, Typed, TypeOK
    <3>3. Generated'
      BY <3>1, <3>2 DEF Numbered, Generated
    <3>4. \A q \in Requests : Ahead(work[q])'
      BY <2>1, <3>1 DEF Numbered, Ahead, Idle
    <3> QED
      BY <2>2, <3>3, <3>4 DEF Numbered
  <2>5. CASE ~CreateCommit(r) /\ ~StatusCommit(r)
    <3>1. student' = student /\ seq' = seq
      BY <1>2, <2>5, NumbersStay
    <3>2. Ahead(work'[r])
      <4>1. CASE CreateNumber(r)
        <5>1. PICK x \in Typing \cup Numbering :
                    /\ Continue(r, x)
                    /\ "school" \in DOMAIN x =>
                         x.school = Home[x.student] /\ x.mat > seq[x.school]
          BY <4>1, NumberIs
        <5>2. work'[r] = x
          BY <5>1 DEF Continue, Typed
        <5> QED
          BY <5>1, <5>2 DEF Ahead
      <4>2. CASE ~CreateNumber(r)
        BY <1>2, <4>2, SessionIs DEF Entitled, Ahead, Idle, Choosing, Issuing
      <4> QED
        BY <4>1, <4>2
    <3>3. \A q \in Requests : Ahead(work[q])'
      BY <2>1, <3>1, <3>2 DEF Numbered, Ahead
    <3>4. Generated'
      BY <3>1 DEF Numbered, Generated, Exist
    <3> QED
      BY <2>2, <3>3, <3>4 DEF Numbered
  <2> QED
    BY <2>3, <2>4, <2>5
<1> QED
  BY <1>1, <1>2 DEF Next

---------------------------------------------------------------------------------
(* Theorems                                                                      *)

LEMMA InitHolds == Init => IInv
<1> SUFFICES ASSUME Init PROVE IInv
  OBVIOUS
<1>1. PICK first \in Classes, cap \in Capacities, l \in Levels, pupils \in SUBSET Students :
        /\ "cards" \in uses <=> pupils # {}
        /\ \A h \in Schools : Cardinality(Of(pupils, h)) <= Limit[uses]
        /\ Cardinality(pupils) <= cap
        /\ class = [c \in Classes |-> IF c = first
                      THEN [open |-> TRUE, capacity |-> cap, level |-> l] ELSE NoRow]
        /\ widest = [c \in Classes |-> IF c = first THEN cap ELSE 0]
        /\ place = [s \in Students |-> [c \in Classes |->
                      IF c = first /\ s \in pupils THEN "in" ELSE "none"]]
        /\ \E mat \in [pupils -> 1..Cardinality(pupils)] :
             /\ \A h \in Schools :
                  {mat[s] : s \in Of(pupils, h)} = 1..Cardinality(Of(pupils, h))
             /\ student = [s \in Students |-> IF s \in pupils
                   THEN [status |-> "active", mat |-> mat[s], typed |-> FALSE] ELSE NoRow]
        /\ seq = [h \in Schools |-> Cardinality(Of(pupils, h))]
  BY DEF Init
<1>2. PICK mat \in [pupils -> 1..Cardinality(pupils)] :
             /\ \A h \in Schools :
                  {mat[s] : s \in Of(pupils, h)} = 1..Cardinality(Of(pupils, h))
             /\ student = [s \in Students |-> IF s \in pupils
                   THEN [status |-> "active", mat |-> mat[s], typed |-> FALSE] ELSE NoRow]
  BY <1>1
<1>3. /\ uses \in Services /\ level = [x \in Levels |-> TRUE] /\ card = [k \in Cards |-> NoRow]
      /\ badge = [h \in Schools |-> 0] /\ calls = 0 /\ overlapped = FALSE
      /\ work = [r \in Requests |-> Idle]
  BY DEF Init
<1>4. /\ IsFiniteSet(pupils) /\ Cardinality(pupils) \in Nat /\ cap \in Nat
      /\ \A h \in Schools : /\ IsFiniteSet(Of(pupils, h))
                            /\ Cardinality(Of(pupils, h)) \in Nat
  <2>1. IsFiniteSet(pupils) /\ \A h \in Schools : Of(pupils, h) \in SUBSET pupils
    BY FS_Subset, RegistryAssumption DEF Of
  <2> QED
    BY <2>1, FS_Subset, FS_CardinalityType, RegistryAssumption
<1>5. \A s \in pupils : mat[s] \in Nat \ {0}
  BY <1>2, <1>4
<1>6. Excess \in Nat
  BY FS_CardinalityType, FS_EmptySet, RegistryAssumption DEF Excess
<1>7. Typed
  <2>1. student \in [Students -> Members \cup {NoRow}]
    BY <1>2, <1>5 DEF Members
  <2>2. class \in [Classes -> Rooms \cup {NoRow}] /\ widest \in [Classes -> Nat]
    BY <1>1, <1>4 DEF Rooms
  <2>3. place \in [Students -> [Classes -> {"none", "in", "left"}]]
    BY <1>1
  <2>4. seq \in [Schools -> Nat] /\ 0 \in 0..MaxCalls[uses]
    BY <1>1, <1>3, <1>4, RegistryAssumption
  <2>5. \A s \in Students : student[s] = NoRow => \A c \in Classes : place[s][c] = "none"
    <3>1. \A s \in pupils : student[s] \in Members
      BY <1>2, <1>5 DEF Members
    <3>2. \A s \in Students : student[s] = NoRow => s \notin pupils
      BY <3>1, RegistryAssumption
    <3>3. \A s \in Students \ pupils : \A c \in Classes : place[s][c] = "none"
      BY <1>1
    <3> QED
      BY <3>2, <3>3
  <2>6. work \in [Requests -> Sessions] /\ overlapped \in BOOLEAN
    BY <1>3 DEF Sessions
  <2> QED
    BY <1>3, <2>1, <2>2, <2>3, <2>4, <2>5, <2>6 DEF Typed, TypeOK
<1>8. \A r \in Requests : work[r] = Idle
  BY <1>3
<1>9. Refers /\ Alone
  BY <1>8 DEF Refers, Stands, Alone, Ready, Idle
<1>10. QuotaClaimed
  <2>1. ASSUME NEW h \in Schools PROVE Cardinality(ActiveStudents(h)) <= Limit[uses] + Excess
    <3>1. ActiveStudents(h) \in SUBSET Of(pupils, h)
      BY <1>2 DEF ActiveStudents, Of, Exist
    <3>2. /\ Cardinality(ActiveStudents(h)) <= Cardinality(Of(pupils, h))
          /\ Cardinality(ActiveStudents(h)) \in Nat
      BY <1>4, <3>1, FS_Subset, FS_CardinalityType
    <3>3. Limit[uses] \in Nat /\ Cardinality(Of(pupils, h)) <= Limit[uses]
      BY <1>1, <1>3, RegistryAssumption
    <3> QED
      BY <1>4, <1>6, <3>2, <3>3
  <2>2. \A h \in Schools : Claimants(h) = {} /\ Cardinality(ActiveStudents(h)) \in Nat
    <3>1. \A h \in Schools : ActiveStudents(h) \in SUBSET pupils
      BY <1>2 DEF ActiveStudents, Of, Exist
    <3> QED
      BY <1>4, <1>8, <3>1, FS_Subset, FS_CardinalityType DEF Claimants, Claims, Idle
  <2>3. Limit[uses] \in Nat /\ Cardinality({}) = 0
    BY <1>3, FS_EmptySet, RegistryAssumption
  <2>4. ASSUME NEW h \in Schools
        PROVE  Cardinality(ActiveStudents(h)) + Cardinality(Claimants(h))
                 <= Limit[uses] + Excess
    <3>1. Cardinality(Claimants(h)) = 0
      BY <2>2, <2>3
    <3> QED
      BY <1>6, <2>1, <2>2, <2>3, <3>1
  <2> QED
    BY <2>4 DEF QuotaClaimed
<1>11. Widest
  BY <1>1, <1>4 DEF Widest, Exist
<1>12. RoomsClaimed
  <2>1. ASSUME NEW c \in Classes PROVE Cardinality(In(c)) <= widest[c] + Excess
    <3>1. CASE c = first
      <4>1. In(c) \in SUBSET pupils /\ widest[c] = cap
        BY <1>1, <3>1 DEF In
      <4>2. Cardinality(In(c)) <= Cardinality(pupils) /\ Cardinality(In(c)) \in Nat
        BY <1>4, <4>1, FS_Subset, FS_CardinalityType
      <4> QED
        BY <1>1, <1>4, <1>6, <4>1, <4>2
    <3>2. CASE c # first
      <4>1. In(c) = {} /\ widest[c] = 0
        BY <1>1, <3>2 DEF In
      <4> QED
        BY <1>6, <4>1, FS_EmptySet
    <3> QED
      BY <3>1, <3>2
  <2>2. \A c \in Classes : Entrants(c) = {} /\ Cardinality(In(c)) \in Nat
    <3>1. \A c \in Classes : In(c) \in SUBSET Students
      BY DEF In
    <3> QED
      BY <1>8, <3>1, FS_Subset, FS_CardinalityType, RegistryAssumption
         DEF Entrants, Enters, Idle
  <2>3. ASSUME NEW c \in Classes
        PROVE  Cardinality(In(c)) + Cardinality(Entrants(c)) <= widest[c] + Excess
    <3>1. Cardinality(Entrants(c)) = 0
      BY <2>2, FS_EmptySet
    <3>2. Cardinality(In(c)) \in Nat /\ Cardinality(In(c)) <= widest[c] + Excess
      BY <2>1, <2>2
    <3> QED
      BY <3>1, <3>2
  <2> QED
    BY <2>3 DEF RoomsClaimed
<1>13. InOneClass
  <2>1. \A s \in Students : AtMostOne(ClassesOf(s))
    BY <1>1 DEF AtMostOne, ClassesOf
  <2> QED
    BY <1>8, <2>1 DEF InOneClass, JoinsOne, Ready, Idle
<1>14. Numbered
  <2>1. ASSUME NEW s \in Exist(student) PROVE student[s].mat <= seq[Home[s]]
    <3>1. s \in pupils /\ student[s].mat = mat[s] /\ Home[s] \in Schools
      BY <1>2, <2>1, RegistryAssumption DEF Exist
    <3>2. s \in Of(pupils, Home[s])
      BY <3>1 DEF Of
    <3>3. mat[s] \in 1..Cardinality(Of(pupils, Home[s]))
      BY <1>2, <3>1, <3>2
    <3> QED
      BY <1>1, <1>4, <3>1, <3>3
  <2> QED
    BY <1>8, <2>1 DEF Numbered, OneHolder, Generated, Ahead, Advanced, Idle
<1> QED
  BY <1>7, <1>9, <1>10, <1>11, <1>12, <1>13, <1>14 DEF IInv

---------------------------------------------------------------------------------
(* Counting, as the instances have it                                            *)

LEMMA SameCounts ==
  /\ \A S : Login!Cardinality(S) = Cardinality(S)
  /\ \A S : Attempts!Cardinality(S) = Cardinality(S)
  /\ \A S : Library!Cardinality(S) = Cardinality(S)
  /\ \A S : Outages!Cardinality(S) = Cardinality(S)
BY DEF Login!Cardinality, Attempts!Cardinality, Library!Cardinality, Outages!Cardinality,
   Cardinality

LEMMA CountedSets == IsFiniteSet(Callers) /\ IsFiniteSet(Texts)
BY OfficeAssumption DEF Attempts!LimiterConstants, Attempts!IsFiniteSet,
   Library!KnowledgeConstants, Library!IsFiniteSet, IsFiniteSet

----------------------------------------------------------------------------------
(* Sessions: a password that goes takes its sessions with it                        *)

Doing == {"login", "issue", "logout", "change", "admin", "forgot", "make", "mail", "reset"}
Loads == [op : Doing, row : Login!Accounts,
          given : Login!Passwords \cup Login!Tokens \cup SUBSET Login!Tokens]

\* A request and what it was given
GivenIt(w) ==
  /\ w = Login!Idle \/ w \in Loads
  /\ w.op \in {"login", "issue"} => w.given \in Login!Passwords
  /\ w.op = "make" => w.given \subseteq Login!Tokens
  /\ w.op \in {"mail", "reset"} => w.given \in 1..resets

\* A token that served is neither live nor old again.
TokensOK ==
  \A t \in Login!Tokens :
    /\ token[t] # "none" => t \in 1..resets
    /\ served[t] > 0 => t \in 1..resets /\ token[t] \in {"none", "used"}

Accounts ==
  /\ account \in Login!Accounts
  /\ token \in [Login!Tokens -> {"none", "live", "old", "used"}] /\ mailed \subseteq 1..resets
  /\ sessions \subseteq [version : Nat \ {0}, by : Login!Passwords]
  /\ chosen \in Login!Passwords /\ resets \in 0..MaxTokens /\ served \in [Login!Tokens -> Nat]
  /\ stale \in BOOLEAN /\ doubled \in BOOLEAN
  /\ login = [r \in Requests |-> login[r]]
  /\ \A r \in Requests : GivenIt(login[r])
  /\ TokensOK

\* What a request loaded is not newer than the account, and a reset whose token has
\* served meanwhile loaded an older one.
Behind(w) ==
  w # Login!Idle =>
    /\ w.row.version <= account.version
    /\ w.op = "reset" /\ served[w.given] > 0 => w.row.version < account.version

Loyal ==
  ~stale =>
    /\ \A s \in sessions : s.version <= account.version
    /\ \A s \in sessions : s.version = account.version => s.by = account.hash.of
    /\ \A r \in Requests : Behind(login[r])
    /\ \A t \in Login!Tokens : served[t] <= 1

\* Who is to make a token has seen all that can still be used.
OneMaker ==
  ~doubled =>
    /\ Cardinality(Login!Unused) <= 1
    /\ \A q, r \in Requests : login[q].op = "make" /\ login[r].op = "make" => q = r
    /\ \A r \in Requests : login[r].op = "make" => Login!Unused \subseteq login[r].given

LoginInv == Accounts /\ Loyal /\ OneMaker

LEMMA IdleDoes == Login!Idle.op = "none" /\ Login!Idle \notin Loads
<1>1. Login!Idle.op = "none"
  BY DEF Login!Idle
<1>2. \A w \in Loads : w.op \in Doing
  BY DEF Loads
<1> QED
  BY <1>1, <1>2 DEF Doing

LEMMA GoesOn ==
  ASSUME NEW w \in Loads, NEW o \in Doing
  PROVE  LET v == [w EXCEPT !.op = o] IN
         v \in Loads /\ v.op = o /\ v.row = w.row /\ v.given = w.given
BY DEF Loads

LEMMA AccountFields ==
  ASSUME NEW a \in Login!Accounts
  PROVE  /\ DOMAIN a = {"hash", "version", "must", "fails", "locked"}
         /\ a.hash \in Login!Hashes /\ a.version \in Nat /\ a.version \in Int /\ a.version > 0
         /\ a.hash.of \in Login!Passwords /\ a.hash.legacy \in BOOLEAN
         /\ a.must \in BOOLEAN /\ a.locked \in BOOLEAN
         /\ a.fails \in 0..MAX_LOGIN_ATTEMPTS - 1
<1>1. a.hash \in Login!Hashes /\ a.version \in Nat \ {0} /\ a.must \in BOOLEAN
          /\ a.locked \in BOOLEAN
      /\ a.fails \in 0..MAX_LOGIN_ATTEMPTS - 1
      /\ DOMAIN a = {"hash", "version", "must", "fails", "locked"}
  BY DEF Login!Accounts
<1>2. a.hash.of \in Login!Passwords /\ a.hash.legacy \in BOOLEAN
  BY <1>1 DEF Login!Hashes
<1> QED
  BY <1>1, <1>2

\* What a commit makes of the account
LEMMA SavedAccount ==
  ASSUME account \in Login!Accounts, NEW r \in Requests, NEW row \in Login!Accounts,
      login[r].row = row,
         NEW new \in Login!Accounts, stale \in BOOLEAN, Login!Save(r, new)
  PROVE  /\ account' \in Login!Accounts /\ stale' \in BOOLEAN
         /\ new.version = row.version => account'.version = account.version
         /\ new.hash = row.hash => account'.hash = account.hash
         /\ new.version # row.version => account'.version = new.version
         /\ new.hash # row.hash => account'.hash = new.hash
         /\ ~stale' => ~stale
         /\ ~stale' /\ (new.version # row.version \/ new.hash # row.hash) =>
              account.version = row.version /\ account.hash = row.hash
<1>1. account' = [c \in DOMAIN account |->
                    IF new[c] # row[c] THEN new[c] ELSE account[c]]
  BY DEF Login!Save
<1>2. account' = [hash |-> IF new.hash # row.hash THEN new.hash ELSE account.hash,
                  version |-> IF new.version # row.version THEN new.version
                      ELSE account.version,
                  must |-> IF new.must # row.must THEN new.must ELSE account.must,
                  fails |-> IF new.fails # row.fails THEN new.fails ELSE account.fails,
                  locked |-> IF new.locked # row.locked THEN new.locked ELSE account.locked]
  BY <1>1, AccountFields
<1>3. /\ account'.hash = (IF new.hash # row.hash THEN new.hash ELSE account.hash)
      /\ account'.version = (IF new.version # row.version THEN new.version
           ELSE account.version)
  BY <1>2
<1>4. account' \in Login!Accounts
  <2>1. /\ (IF new.hash # row.hash THEN new.hash ELSE account.hash) \in Login!Hashes
        /\ (IF new.version # row.version THEN new.version ELSE account.version) \in Nat \ {0}
        /\ (IF new.must # row.must THEN new.must ELSE account.must) \in BOOLEAN
        /\ (IF new.fails # row.fails THEN new.fails ELSE account.fails)
             \in 0..MAX_LOGIN_ATTEMPTS - 1
        /\ (IF new.locked # row.locked THEN new.locked ELSE account.locked) \in BOOLEAN
    <3>1. /\ new.hash \in Login!Hashes /\ account.hash \in Login!Hashes
          /\ new.version \in Nat \ {0} /\ account.version \in Nat \ {0}
          /\ new.fails \in 0..MAX_LOGIN_ATTEMPTS - 1
          /\ account.fails \in 0..MAX_LOGIN_ATTEMPTS - 1
      BY AccountFields
    <3>2. new.must \in BOOLEAN /\ account.must \in BOOLEAN
          /\ new.locked \in BOOLEAN /\ account.locked \in BOOLEAN
      BY AccountFields
    <3> QED
      BY <3>1, <3>2
  <2> QED
    BY <1>2, <2>1 DEF Login!Accounts
<1>5. stale' = (stale \/ (/\ new.hash # row.hash \/ new.version # row.version
                          /\ account.hash # row.hash \/ account.version # row.version))
  BY DEF Login!Save, Login!Outdated
<1> QED
  BY <1>3, <1>4, <1>5

\* The rows that the handlers would have
LEMMA RenewedRow ==
  ASSUME NEW row \in Login!Accounts, NEW must \in BOOLEAN, chosen + 1 \in Login!Passwords
  PROVE  /\ Login!Renewed(row, must) \in Login!Accounts
         /\ Login!Renewed(row, must).version = row.version + 1
         /\ [Login!Renewed(row, must) EXCEPT !.fails = 0, !.locked = FALSE] \in Login!Accounts
         /\ [Login!Renewed(row, must) EXCEPT !.fails = 0, !.locked = FALSE].version
              = row.version + 1
<1>1. PICK h : h = [of |-> chosen + 1, legacy |-> FALSE]
  OBVIOUS
<1>2. h \in Login!Hashes
  BY <1>1 DEF Login!Hashes
<1>3. PICK n : n = Login!Renewed(row, must)
  OBVIOUS
<1>4. n = [row EXCEPT !.hash = h, !.must = must, !.version = @ + 1]
  BY <1>1, <1>3 DEF Login!Renewed
<1>5. row.version + 1 \in Nat \ {0}
  BY AccountFields
<1>6. n \in Login!Accounts
  BY <1>2, <1>4, <1>5 DEF Login!Accounts
<1>7. n.version = row.version + 1
  BY <1>4 DEF Login!Accounts
<1>8. 0 \in 0..MAX_LOGIN_ATTEMPTS - 1
  BY OfficeAssumption DEF Login!SessionsConstants
<1>9. [n EXCEPT !.fails = 0, !.locked = FALSE] \in Login!Accounts
  BY <1>6, <1>8 DEF Login!Accounts
<1>10. [n EXCEPT !.fails = 0, !.locked = FALSE].version = n.version
  BY <1>6 DEF Login!Accounts
<1> QED
  BY <1>3, <1>6, <1>7, <1>9, <1>10

LEMMA LoggedRow ==
  ASSUME NEW row \in Login!Accounts
  PROVE  LET new == [row EXCEPT !.fails = 0, !.locked = FALSE, !.hash.legacy = FALSE] IN
         new \in Login!Accounts /\ new.version = row.version /\ new.hash.of = row.hash.of
<1>1. PICK h : h = [row.hash EXCEPT !.legacy = FALSE]
  OBVIOUS
<1>2. row.hash \in Login!Hashes
  BY AccountFields
<1>3. h \in Login!Hashes /\ h.of = row.hash.of
  BY <1>1, <1>2 DEF Login!Hashes
<1>4. PICK n : n = [row EXCEPT !.fails = 0, !.locked = FALSE, !.hash.legacy = FALSE]
  OBVIOUS
<1>5. n = [row EXCEPT !.fails = 0, !.locked = FALSE, !.hash = h]
  BY <1>1, <1>4
<1>6. 0 \in 0..MAX_LOGIN_ATTEMPTS - 1
  BY OfficeAssumption DEF Login!SessionsConstants
<1>7. n \in Login!Accounts
  BY <1>3, <1>5, <1>6 DEF Login!Accounts
<1>8. n.version = row.version /\ n.hash = h
  BY <1>5 DEF Login!Accounts
<1> QED
  BY <1>3, <1>4, <1>7, <1>8

LEMMA FailedRow ==
  ASSUME NEW row \in Login!Accounts
  PROVE  Login!Failed(row) \in Login!Accounts /\ Login!Failed(row).version = row.version
         /\ Login!Failed(row).hash = row.hash
<1>1. row.fails \in 0..MAX_LOGIN_ATTEMPTS - 1
  BY AccountFields
<1>2. CASE row.fails + 1 >= MAX_LOGIN_ATTEMPTS
  <2>1. Login!Failed(row) = [row EXCEPT !.fails = 0, !.locked = TRUE]
    BY <1>2 DEF Login!Failed
  <2>2. 0 \in 0..MAX_LOGIN_ATTEMPTS - 1
    BY OfficeAssumption DEF Login!SessionsConstants
  <2> QED
    BY <2>1, <2>2 DEF Login!Accounts
<1>3. CASE ~(row.fails + 1 >= MAX_LOGIN_ATTEMPTS)
  <2>1. Login!Failed(row) = [row EXCEPT !.fails = row.fails + 1]
    BY <1>3 DEF Login!Failed
  <2>2. row.fails + 1 \in 0..MAX_LOGIN_ATTEMPTS - 1
    BY <1>1, <1>3, OfficeAssumption DEF Login!SessionsConstants
  <2> QED
    BY <2>1, <2>2 DEF Login!Accounts
<1> QED
  BY <1>2, <1>3

LEMMA LoggedOutRow ==
  ASSUME NEW row \in Login!Accounts
  PROVE  /\ [row EXCEPT !.version = @ + 1] \in Login!Accounts
         /\ [row EXCEPT !.version = @ + 1].version = row.version + 1
         /\ [row EXCEPT !.version = @ + 1].hash = row.hash
<1>1. row.version + 1 \in Nat \ {0}
  BY AccountFields
<1> QED
  BY <1>1 DEF Login!Accounts

LEMMA LoginInit == Login!Init => LoginInv
<1> SUFFICES ASSUME Login!Init PROVE LoginInv
  OBVIOUS
<1>1. account \in Login!Accounts
  <2>1. PICK l \in BOOLEAN, m \in BOOLEAN :
          account = [hash |-> [of |-> 1, legacy |-> l], version |-> 1, must |-> m,
                     fails |-> 0, locked |-> FALSE]
    BY DEF Login!Init
  <2>2. [of |-> 1, legacy |-> l] \in Login!Hashes
    BY OfficeAssumption DEF Login!SessionsConstants, Login!Hashes, Login!Passwords
  <2>3. 0 \in 0..MAX_LOGIN_ATTEMPTS - 1
    BY OfficeAssumption DEF Login!SessionsConstants
  <2> QED
    BY <2>1, <2>2, <2>3 DEF Login!Accounts
<1>2. \A r \in Requests : login[r] = Login!Idle
  BY DEF Login!Init
<1>3. Accounts
  <2>1. \A r \in Requests : GivenIt(login[r])
    BY <1>2, IdleDoes DEF GivenIt
  <2>2. TokensOK
    BY DEF Login!Init, TokensOK
  <2>3. login = [r \in Requests |-> login[r]]
    BY DEF Login!Init
  <2>4. token \in [Login!Tokens -> {"none", "live", "old", "used"}]
            /\ served \in [Login!Tokens -> Nat]
    BY DEF Login!Init
  <2>5. chosen \in Login!Passwords /\ resets \in 0..MaxTokens
    BY OfficeAssumption DEF Login!Init, Login!SessionsConstants, Login!Passwords
  <2>6. mailed = {} /\ sessions = {} /\ stale \in BOOLEAN /\ doubled \in BOOLEAN
    BY DEF Login!Init
  <2> QED
    BY <1>1, <2>1, <2>2, <2>3, <2>4, <2>5, <2>6 DEF Accounts
<1>4. Loyal
  BY <1>2 DEF Login!Init, Loyal, Behind
<1>5. OneMaker
  <2>1. Login!Unused = {}
    BY DEF Login!Init, Login!Unused
  <2> QED
    BY <1>2, <2>1, IdleDoes, FS_EmptySet DEF OneMaker
<1> QED
  BY <1>3, <1>4, <1>5 DEF LoginInv

----------------------------------------------------------------------------------
(* The steps of an account                                                         *)

\* One request's step leaves w in its session.
LEMMA OneSession ==
  ASSUME Accounts, NEW r \in Requests, NEW w, login' = [login EXCEPT ![r] = w]
  PROVE  /\ login' = [q \in Requests |-> login'[q]]
         /\ \A q \in Requests : login'[q] = IF q = r THEN w ELSE login[q]
BY DEF Accounts

\* The tables stay typed; asked grows.
LEMMA RowsKept ==
  ASSUME Accounts, NEW r \in Requests, NEW w, login' = [login EXCEPT ![r] = w],
         resets' \in 0..MaxTokens, resets <= resets', GivenIt(w)',
         account' \in Login!Accounts, chosen' \in Login!Passwords,
             mailed' \subseteq 1..resets',
         sessions' \subseteq [version : Nat \ {0}, by : Login!Passwords],
         token' \in [Login!Tokens -> {"none", "live", "old", "used"}],
             served' \in [Login!Tokens -> Nat],
         stale' \in BOOLEAN, doubled' \in BOOLEAN, TokensOK'
  PROVE  Accounts'
<1>1. /\ login' = [q \in Requests |-> login'[q]]
      /\ \A q \in Requests : login'[q] = IF q = r THEN w ELSE login[q]
  BY OneSession
<1>2. ASSUME NEW q \in Requests PROVE GivenIt(login[q])'
  <2>1. PICK v : v = login'[q]
    OBVIOUS
  <2>2. CASE q = r
    <3>1. v = w
      BY <1>1, <2>1, <2>2
    <3> QED
      BY <2>1, <3>1 DEF GivenIt
  <2>3. CASE q # r
    <3>1. v = login[q] /\ GivenIt(v) /\ resets \in Int /\ resets' \in Int
      BY <1>1, <2>1, <2>3 DEF Accounts
    <3> QED
      BY <2>1, <3>1 DEF GivenIt
  <2> QED
    BY <2>2, <2>3
<1> QED
  BY <1>1, <1>2 DEF Accounts

\* A step of request r that does not go back on the account's version
LEMMA LoyalKept ==
  ASSUME Accounts, Loyal, NEW r \in Requests, NEW w, login' = [login EXCEPT ![r] = w],
         account' \in Login!Accounts, served' = served,
         ~stale' => ~stale,
         ~stale' => account'.version > account.version
                    \/ (account'.version = account.version
                         /\ account'.hash.of = account.hash.of),
         ~stale' => Behind(w)',
         ~stale' => \A s \in sessions' : s \in sessions
                      \/ (s.version = account'.version /\ s.by = account'.hash.of)
  PROVE  Loyal'
<1> SUFFICES ASSUME ~stale' PROVE Loyal'
  BY DEF Loyal
<1>1. \A q \in Requests : login'[q] = IF q = r THEN w ELSE login[q]
  BY OneSession
<1>2. /\ account.version \in Int /\ account'.version \in Int
      /\ account.version <= account'.version
      /\ \A s \in sessions : s.version \in Int
  BY AccountFields DEF Accounts
<1>3. \A s \in sessions' : s.version <= account'.version
  BY <1>2 DEF Loyal
<1>4. \A s \in sessions' : s.version = account'.version => s.by = account'.hash.of
  BY <1>2 DEF Loyal
<1>5. ASSUME NEW q \in Requests PROVE Behind(login[q])'
  <2>1. PICK v : v = login'[q]
    OBVIOUS
  <2>2. CASE q = r
    <3>1. v = w
      BY <1>1, <2>1, <2>2
    <3> QED
      BY <2>1, <3>1 DEF Behind
  <2>3. CASE q # r
    <3>1. v = login[q] /\ Behind(v)
      BY <1>1, <2>1, <2>3 DEF Loyal
    <3>2. v # Login!Idle => v.row.version \in Int
      <4>1. GivenIt(v)
        BY <1>1, <2>1, <2>3 DEF Accounts
      <4>2. v # Login!Idle => v.row \in Login!Accounts
        BY <4>1 DEF GivenIt, Loads
      <4> QED
        BY <4>2, AccountFields
    <3>3. Behind(v)'
      BY <1>2, <3>1, <3>2 DEF Behind, Login!Idle
    <3> QED
      BY <2>1, <3>3 DEF Behind
  <2> QED
    BY <2>2, <2>3
<1>6. \A t \in Login!Tokens : served'[t] <= 1
  BY DEF Loyal
<1> QED
  BY <1>3, <1>4, <1>5, <1>6 DEF Loyal

\* A step after which nothing more can be used, and nobody else is to make a token
LEMMA MakersKept ==
  ASSUME Accounts, OneMaker, NEW r \in Requests, NEW w, login' = [login EXCEPT ![r] = w],
         doubled' = doubled, Login!Unused' \subseteq Login!Unused, w.op # "make"
  PROVE  OneMaker'
<1>1. \A q \in Requests : login'[q] = IF q = r THEN w ELSE login[q]
  BY OneSession
<1> SUFFICES ASSUME ~doubled' PROVE OneMaker'
  BY DEF OneMaker
<1>2. Cardinality(Login!Unused') <= 1
  <2>1. IsFiniteSet(Login!Tokens) /\ Login!Unused \subseteq Login!Tokens
    BY FS_Interval, OfficeAssumption DEF Login!Tokens, Login!SessionsConstants, Login!Unused
  <2>2. IsFiniteSet(Login!Unused) /\ Cardinality(Login!Unused) \in Nat
            /\ Cardinality(Login!Unused') \in Nat
        /\ Cardinality(Login!Unused') <= Cardinality(Login!Unused)
    BY <2>1, FS_Subset, FS_CardinalityType
  <2> QED
    BY <2>2 DEF OneMaker
<1> QED
  BY <1>1, <1>2 DEF OneMaker

\* What a request has loaded, by what it does
LEMMA AtWork ==
  ASSUME Accounts, NEW r \in Requests, login[r].op \in Doing
  PROVE  login[r] \in Loads /\ login[r] # Login!Idle /\ login[r].row \in Login!Accounts
<1>1. GivenIt(login[r]) /\ login[r].op # "none"
  BY DEF Accounts, Doing
<1> QED
  BY <1>1, IdleDoes DEF GivenIt, Loads

LEMMA BeginKeeps ==
  ASSUME LoginInv, NEW r \in Requests, NEW op \in Doing \ {"issue", "make", "mail"}, NEW given,
         Login!Begin(r, op, given), given \in Login!Passwords \cup Login!Tokens,
         op = "login" => given \in Login!Passwords,
         op = "reset" => given \in 1..resets /\ given \in Login!Tokens /\ token[given] = "live"
  PROVE  LoginInv'
<1>1. PICK w : w = [op |-> op, row |-> account, given |-> given]
  OBVIOUS
<1>2. /\ login' = [login EXCEPT ![r] = w]
      /\ UNCHANGED <<account, token, mailed, sessions, chosen, resets, served, stale, doubled>>
  BY <1>1 DEF Login!Begin
<1>3. w.op = op /\ w.row = account /\ w.given = given
  BY <1>1
<1>4. w \in Loads
  BY <1>1 DEF Loads, LoginInv, Accounts
<1>5. GivenIt(w)'
  BY <1>2, <1>3, <1>4 DEF GivenIt
<1>6. Accounts'
  BY <1>2, <1>5, RowsKept DEF LoginInv, Accounts, TokensOK
<1>7. Behind(w)'
  <2>1. account.version \in Int
    BY AccountFields DEF LoginInv, Accounts
  <2>2. op = "reset" => served[given] = 0
    BY DEF LoginInv, Accounts, TokensOK
  <2> QED
    BY <1>2, <1>3, <2>1, <2>2 DEF Behind
<1>8. Loyal'
  BY <1>2, <1>7, LoyalKept, AccountFields DEF LoginInv, Accounts
<1>9. OneMaker'
  <2>1. Login!Unused' = Login!Unused
    BY <1>2 DEF Login!Unused
  <2> QED
    BY <1>2, <1>3, <2>1, MakersKept DEF LoginInv
<1> QED
  BY <1>6, <1>8, <1>9 DEF LoginInv

\* A request that commits the account and leaves the tokens alone
LEMMA SaveKeeps ==
  ASSUME LoginInv, NEW r \in Requests, login[r].op \in Doing, NEW new \in Login!Accounts,
      Login!Save(r, new),
         NEW w, login' = [login EXCEPT ![r] = w], GivenIt(w),
         w = Login!Idle
             \/ (w.op \notin {"make", "reset"} /\ w # Login!Idle /\ w.row = login[r].row),
         chosen' \in Login!Passwords,
             UNCHANGED <<token, mailed, sessions, resets, served, doubled>>,
         new.version = login[r].row.version + 1
           \/ (new.version = login[r].row.version /\ new.hash.of = login[r].row.hash.of)
  PROVE  LoginInv'
<1>1. login[r].row \in Login!Accounts /\ login[r] # Login!Idle
  BY AtWork DEF LoginInv
<1>2. PICK row \in Login!Accounts : row = login[r].row
  BY <1>1
<1>3. /\ account' \in Login!Accounts /\ stale' \in BOOLEAN
      /\ new.version = row.version => account'.version = account.version
      /\ new.hash = row.hash => account'.hash = account.hash
      /\ new.version # row.version => account'.version = new.version
      /\ new.hash # row.hash => account'.hash = new.hash
      /\ ~stale' => ~stale
      /\ ~stale' /\ (new.version # row.version \/ new.hash # row.hash) =>
           account.version = row.version /\ account.hash = row.hash
  BY <1>2, SavedAccount DEF LoginInv, Accounts
<1>4. row.version \in Int /\ account.version \in Int
  BY <1>2, AccountFields DEF LoginInv, Accounts
<1>5. GivenIt(w)'
  BY DEF GivenIt
<1>6. Accounts'
  BY <1>3, <1>5, RowsKept DEF LoginInv, Accounts, TokensOK
<1>7. ~stale' => account'.version > account.version
                 \/ (account'.version = account.version /\ account'.hash.of = account.hash.of)
  BY <1>2, <1>3, <1>4
<1>8. ~stale' => Behind(w)'
  <2>1. ~stale => row.version <= account.version
    BY <1>1, <1>2 DEF LoginInv, Loyal, Behind
  <2>2. account'.version \in Int
    BY <1>3, AccountFields
  <2>3. ~stale' => row.version <= account'.version
    BY <1>3, <1>4, <1>7, <2>1, <2>2
  <2> QED
    BY <1>2, <2>3, IdleDoes DEF Behind
<1>9. Loyal'
  BY <1>3, <1>7, <1>8, LoyalKept DEF LoginInv
<1>10. OneMaker'
  <2>1. Login!Unused' = Login!Unused
    BY DEF Login!Unused
  <2>2. w.op # "make"
    BY IdleDoes
  <2> QED
    BY <2>1, <2>2, MakersKept DEF LoginInv
<1> QED
  BY <1>6, <1>9, <1>10 DEF LoginInv

LEMMA EndLoginKeeps ==
  ASSUME LoginInv, NEW r \in Requests, Login!EndLogin(r)
  PROVE  LoginInv'
<1>1. login[r].op = "login"
          /\ UNCHANGED <<token, mailed, sessions, chosen, resets, served, doubled>>
  BY DEF Login!EndLogin
<1>2. PICK row : row = login[r].row
  OBVIOUS
<1>3. login[r].op \in Doing /\ login[r] \in Loads /\ login[r] # Login!Idle
          /\ row \in Login!Accounts
  BY <1>1, <1>2, AtWork DEF Doing, LoginInv
<1>4. chosen' \in Login!Passwords
  BY <1>1 DEF LoginInv, Accounts
<1>5. CASE Login!Save(r, Login!Failed(row)) /\ Login!Ends(r)
  <2>1. login' = [login EXCEPT ![r] = Login!Idle] /\ GivenIt(Login!Idle)
    BY <1>5, IdleDoes DEF Login!Ends, GivenIt
  <2> QED
    BY <1>1, <1>2, <1>3, <1>4, <1>5, <2>1, FailedRow, SaveKeeps
<1>6. CASE /\ login[r].given = row.hash.of /\ Login!Goes(r, "issue")
           /\ Login!Save(r, [row EXCEPT !.fails = 0, !.locked = FALSE, !.hash.legacy = FALSE])
  <2>1. PICK new : new = [row EXCEPT !.fails = 0, !.locked = FALSE, !.hash.legacy = FALSE]
    OBVIOUS
  <2>2. new \in Login!Accounts /\ new.version = row.version /\ new.hash.of = row.hash.of
    BY <1>3, <2>1, LoggedRow
  <2>3. PICK w : w = [login[r] EXCEPT !.op = "issue"]
    OBVIOUS
  <2>4. w \in Loads /\ w.op = "issue" /\ w.row = row /\ w.given = login[r].given
    BY <1>2, <1>3, <2>3, GoesOn DEF Doing
  <2>5. w # Login!Idle /\ GivenIt(w)
    BY <1>3, <1>6, <2>4, IdleDoes, AccountFields DEF GivenIt
  <2>6. login' = [login EXCEPT ![r] = w]
    BY <1>6, <2>3 DEF Login!Goes
  <2>7. Login!Save(r, new)
    BY <1>6, <2>1
  <2>8. w.op \notin {"make", "reset"} /\ w.row = login[r].row
    BY <1>2, <2>4
  <2>9. new.version = login[r].row.version /\ new.hash.of = login[r].row.hash.of
    BY <1>2, <2>2
  <2> QED
    BY <1>1, <1>3, <1>4, <2>2, <2>5, <2>6, <2>7, <2>8, <2>9, SaveKeeps
<1> QED
  BY <1>2, <1>5, <1>6 DEF Login!EndLogin

LEMMA IssueKeeps ==
  ASSUME LoginInv, NEW r \in Requests, Login!Issue(r)
  PROVE  LoginInv'
<1>1. /\ login[r].op = "issue" /\ login' = [login EXCEPT ![r] = Login!Idle]
      /\ sessions' = sessions \cup {[version |-> account.version, by |-> login[r].given]}
      /\ stale' = (stale \/ account.version # login[r].row.version
                         \/ account.hash.of # login[r].given)
      /\ UNCHANGED <<account, token, mailed, chosen, resets, served, doubled>>
  BY DEF Login!Issue, Login!Ends
<1>2. login[r].given \in Login!Passwords
  BY <1>1 DEF LoginInv, Accounts, GivenIt
<1>3. PICK s : s = [version |-> account.version, by |-> login[r].given]
  OBVIOUS
<1>4. account.version \in Nat \ {0}
  BY AccountFields DEF LoginInv, Accounts
<1>5. s.version = account.version /\ s.by = login[r].given
      /\ s \in [version : Nat \ {0}, by : Login!Passwords]
  BY <1>2, <1>3, <1>4
<1>6. GivenIt(Login!Idle)' /\ Behind(Login!Idle)'
  BY IdleDoes DEF GivenIt, Behind
<1>7. stale' \in BOOLEAN /\ (~stale' => ~stale /\ account.hash.of = login[r].given)
  BY <1>1 DEF LoginInv, Accounts
<1>8. Accounts'
  BY <1>1, <1>3, <1>5, <1>6, <1>7, RowsKept DEF LoginInv, Accounts, TokensOK
<1>9. Loyal'
  <2>1. ~stale' => \A z \in sessions' : z \in sessions
                           \/ (z.version = account'.version /\ z.by = account'.hash.of)
    BY <1>1, <1>3, <1>5, <1>7
  <2> QED
    BY <1>1, <1>6, <1>7, <2>1, LoyalKept DEF LoginInv, Accounts
<1>10. OneMaker'
  <2>1. Login!Unused' = Login!Unused
    BY <1>1 DEF Login!Unused
  <2> QED
    BY <1>1, <2>1, IdleDoes, MakersKept DEF LoginInv
<1> QED
  BY <1>8, <1>9, <1>10 DEF LoginInv

LEMMA ChangesKeep ==
  ASSUME LoginInv, NEW r \in Requests,
      Login!EndLogout(r) \/ Login!EndChange(r) \/ Login!EndAdminReset(r)
  PROVE  LoginInv'
<1>1. PICK row : row = login[r].row
  OBVIOUS
<1>2. /\ login[r].op \in Doing /\ login' = [login EXCEPT ![r] = Login!Idle]
      /\ UNCHANGED <<token, mailed, sessions, resets, served, doubled>>
  BY DEF Login!EndLogout, Login!EndChange, Login!EndAdminReset, Login!Ends, Doing
<1>3. row \in Login!Accounts
  BY <1>1, <1>2, AtWork DEF LoginInv
<1>4. GivenIt(Login!Idle)
  BY IdleDoes DEF GivenIt
<1>5. CASE Login!EndLogout(r)
  <2>1. Login!Save(r, [row EXCEPT !.version = @ + 1]) /\ chosen' \in Login!Passwords
    BY <1>1, <1>5 DEF Login!EndLogout, LoginInv, Accounts
  <2> QED
    BY <1>1, <1>2, <1>3, <1>4, <2>1, LoggedOutRow, SaveKeeps
<1>6. ASSUME Login!Choose PROVE chosen' \in Login!Passwords /\ chosen + 1 \in Login!Passwords
  BY <1>6, OfficeAssumption DEF Login!Choose, LoginInv, Accounts, Login!Passwords,
     Login!SessionsConstants
<1>7. CASE Login!EndChange(r)
  <2>1. Login!Save(r, Login!Renewed(row, FALSE)) /\ Login!Choose
    BY <1>1, <1>7 DEF Login!EndChange
  <2> QED
    BY <1>1, <1>2, <1>3, <1>4, <1>6, <2>1, RenewedRow, SaveKeeps
<1>8. CASE Login!EndAdminReset(r)
  <2>1. PICK must \in BOOLEAN :
          Login!Choose
              /\ Login!Save(r, [Login!Renewed(row, must) EXCEPT !.fails = 0, !.locked = FALSE])
    BY <1>1, <1>8 DEF Login!EndAdminReset
  <2> QED
    BY <1>1, <1>2, <1>3, <1>4, <1>6, <2>1, RenewedRow, SaveKeeps
<1> QED
  BY <1>5, <1>7, <1>8

LEMMA DiscardKeeps ==
  ASSUME LoginInv, NEW r \in Requests, Login!Discard(r)
  PROVE  LoginInv'
<1>1. /\ login[r].op = "forgot"
      /\ doubled' = (doubled \/ \E o \in Requests : login[o].op = "make")
      /\ login' = [login EXCEPT ![r].op = "make", ![r].given = Login!Discarded]
      /\ UNCHANGED <<account, token, mailed, sessions, chosen, resets, served, stale>>
  BY DEF Login!Discard
<1>2. login[r] \in Loads /\ login[r] # Login!Idle
  BY <1>1, AtWork DEF Doing, LoginInv
<1>3. PICK w : w = [login[r] EXCEPT !.op = "make", !.given = Login!Discarded]
  OBVIOUS
<1>4. Login!Discarded \in SUBSET Login!Tokens /\ Login!Discarded = Login!Unused
  BY DEF Login!Discarded, Login!Unused
<1>5. w \in Loads /\ w.op = "make" /\ w.row = login[r].row /\ w.given = Login!Unused
  <2>1. "make" \in Doing /\ Login!Discarded \in Login!Tokens \cup SUBSET Login!Tokens
    BY <1>4 DEF Doing
  <2> QED
    BY <1>2, <1>3, <1>4, <2>1 DEF Loads
<1>6. login' = [login EXCEPT ![r] = w]
  <2>1. \A q \in Requests : q = r
            => [login EXCEPT ![r].op = "make", ![r].given = Login!Discarded][q] = w
    BY <1>3 DEF LoginInv, Accounts
  <2> QED
    BY <1>1, <1>3 DEF LoginInv, Accounts
<1>7. GivenIt(w)'
  BY <1>4, <1>5 DEF GivenIt
<1>8. Accounts'
  <2>1. doubled' \in BOOLEAN
    BY <1>1 DEF LoginInv, Accounts
  <2> QED
    BY <1>1, <1>6, <1>7, <2>1, RowsKept DEF LoginInv, Accounts, TokensOK
<1>9. Loyal'
  <2>1. ~stale => login[r].row.version <= account.version
    BY <1>2 DEF LoginInv, Loyal, Behind
  <2>2. ~stale => Behind(w)'
    BY <1>1, <1>5, <2>1 DEF Behind
  <2> QED
    BY <1>1, <1>6, <2>2, LoyalKept, AccountFields DEF LoginInv, Accounts
<1>10. OneMaker'
  <2> SUFFICES ASSUME ~doubled' PROVE OneMaker'
    BY DEF OneMaker
  <2>1. Login!Unused' = Login!Unused
    BY <1>1 DEF Login!Unused
  <2>2. ~doubled /\ \A o \in Requests : login[o].op # "make"
    BY <1>1
  <2>3. \A q \in Requests : login'[q] = IF q = r THEN w ELSE login[q]
    BY <1>6, OneSession DEF LoginInv
  <2> QED
    BY <1>5, <2>1, <2>2, <2>3 DEF OneMaker, LoginInv
<1> QED
  BY <1>8, <1>9, <1>10 DEF LoginInv

LEMMA MakeKeeps ==
  ASSUME LoginInv, NEW r \in Requests, Login!Make(r)
  PROVE  LoginInv'
<1>1. /\ login[r].op = "make" /\ resets < MaxTokens /\ resets' = resets + 1
      /\ token' = [t \in Login!Tokens |-> IF t = resets + 1 THEN "live"
                                          ELSE IF t \in login[r].given THEN "none"
                                              ELSE token[t]]
      /\ login' = [login EXCEPT ![r].op = "mail", ![r].given = resets + 1]
      /\ UNCHANGED <<account, mailed, sessions, chosen, served, stale, doubled>>
  BY DEF Login!Make
<1>2. login[r] \in Loads /\ login[r] # Login!Idle
  BY <1>1, AtWork DEF Doing, LoginInv
<1>3. PICK w : w = [login[r] EXCEPT !.op = "mail", !.given = resets + 1]
  OBVIOUS
<1>4. resets \in Nat /\ MaxTokens \in Nat /\ resets + 1 \in Login!Tokens
          /\ resets' \in 0..MaxTokens
  BY <1>1, OfficeAssumption DEF LoginInv, Accounts, Login!SessionsConstants, Login!Tokens
<1>5. w \in Loads /\ w.op = "mail" /\ w.row = login[r].row /\ w.given = resets + 1
  <2>1. "mail" \in Doing /\ resets + 1 \in Login!Tokens \cup SUBSET Login!Tokens
    BY <1>4 DEF Doing
  <2> QED
    BY <1>2, <1>3, <2>1 DEF Loads
<1>6. login' = [login EXCEPT ![r] = w]
  BY <1>1, <1>3 DEF LoginInv, Accounts
<1>7. GivenIt(w)'
  BY <1>1, <1>4, <1>5 DEF GivenIt
<1>8. TokensOK'
  <2> SUFFICES ASSUME NEW t \in Login!Tokens
               PROVE  /\ token'[t] # "none" => t \in 1..resets'
                      /\ served'[t] > 0 => t \in 1..resets' /\ token'[t] \in {"none", "used"}
    BY DEF TokensOK
  <2>1. /\ token[t] # "none" => t \in 1..resets
        /\ served[t] > 0 => t \in 1..resets /\ token[t] \in {"none", "used"}
    BY DEF LoginInv, Accounts, TokensOK
  <2>2. CASE t = resets + 1
    BY <1>1, <1>4, <2>1, <2>2
  <2>3. CASE t # resets + 1
    BY <1>1, <1>4, <2>1, <2>3
  <2> QED
    BY <2>2, <2>3
<1>9. Accounts'
  <2>1. token' \in [Login!Tokens -> {"none", "live", "old", "used"}]
    BY <1>1 DEF LoginInv, Accounts
  <2>2. mailed' \subseteq 1..resets' /\ resets <= resets'
    BY <1>1, <1>4 DEF LoginInv, Accounts
  <2> QED
    BY <1>1, <1>4, <1>6, <1>7, <1>8, <2>1, <2>2, RowsKept DEF LoginInv, Accounts
<1>10. Loyal'
  <2>1. ~stale => login[r].row.version <= account.version
    BY <1>2 DEF LoginInv, Loyal, Behind
  <2>2. ~stale => Behind(w)'
    BY <1>1, <1>5, <2>1 DEF Behind
  <2> QED
    BY <1>1, <1>6, <2>2, LoyalKept, AccountFields DEF LoginInv, Accounts
<1>11. OneMaker'
  <2> SUFFICES ASSUME ~doubled' PROVE OneMaker'
    BY DEF OneMaker
  <2>1. Login!Unused \subseteq login[r].given /\ \A q \in Requests : login[q].op = "make"
            => q = r
    BY <1>1 DEF OneMaker, LoginInv
  <2>2. Login!Unused' \subseteq {resets + 1}
    BY <1>1, <2>1 DEF Login!Unused
  <2>3. Cardinality(Login!Unused') <= 1
    <3>1. IsFiniteSet({resets + 1}) /\ Cardinality({resets + 1}) = 1
      BY FS_Singleton
    <3>2. Cardinality(Login!Unused') <= Cardinality({resets + 1})
              /\ Cardinality(Login!Unused') \in Nat
      BY <2>2, <3>1, FS_Subset, FS_CardinalityType
    <3> QED
      BY <3>1, <3>2
  <2>4. \A q \in Requests : login'[q] = IF q = r THEN w ELSE login[q]
    BY <1>6, OneSession DEF LoginInv
  <2>5. \A q \in Requests : login'[q].op # "make"
    BY <1>5, <2>1, <2>4
  <2> QED
    BY <2>3, <2>5 DEF OneMaker
<1> QED
  BY <1>9, <1>10, <1>11 DEF LoginInv

LEMMA MailKeeps ==
  ASSUME LoginInv, NEW r \in Requests, Login!Mail(r)
  PROVE  LoginInv'
<1>1. PICK t : t = login[r].given
  OBVIOUS
<1>2. /\ login[r].op = "mail" /\ login' = [login EXCEPT ![r] = Login!Idle]
      /\ \/ mailed' = mailed \cup {t} /\ token' = token
         \/ mailed' = mailed /\ token' = [token EXCEPT ![t] = "none"]
      /\ UNCHANGED <<account, sessions, chosen, resets, served, stale, doubled>>
  BY <1>1 DEF Login!Mail, Login!Ends
<1>3. t \in 1..resets
  BY <1>1, <1>2 DEF LoginInv, Accounts, GivenIt
<1>4. GivenIt(Login!Idle)' /\ Behind(Login!Idle)'
  BY IdleDoes DEF GivenIt, Behind
<1>5. /\ token' \in [Login!Tokens -> {"none", "live", "old", "used"}]
           /\ mailed' \subseteq 1..resets'
      /\ \A u \in Login!Tokens : token'[u] = token[u] \/ token'[u] = "none"
  BY <1>2, <1>3 DEF LoginInv, Accounts
<1>6. TokensOK'
  BY <1>2, <1>5 DEF LoginInv, Accounts, TokensOK
<1>7. Accounts'
  BY <1>2, <1>4, <1>5, <1>6, RowsKept DEF LoginInv, Accounts
<1>8. Loyal'
  BY <1>2, <1>4, LoyalKept, AccountFields DEF LoginInv, Accounts
<1>9. OneMaker'
  <2>1. Login!Unused' \subseteq Login!Unused
    BY <1>5 DEF Login!Unused
  <2> QED
    BY <1>2, <2>1, IdleDoes, MakersKept DEF LoginInv
<1> QED
  BY <1>7, <1>8, <1>9 DEF LoginInv

LEMMA EndResetKeeps ==
  ASSUME LoginInv, NEW r \in Requests, Login!EndReset(r)
  PROVE  LoginInv'
<1>1. PICK t : t = login[r].given
  OBVIOUS
<1>2. PICK row : row = login[r].row
  OBVIOUS
<1>3. /\ login[r].op = "reset" /\ login' = [login EXCEPT ![r] = Login!Idle]
      /\ UNCHANGED <<mailed, sessions, resets, doubled>>
  BY DEF Login!EndReset, Login!Ends
<1>4. login[r] # Login!Idle /\ row \in Login!Accounts /\ t \in 1..resets /\ t \in Login!Tokens
  <2>1. login[r] # Login!Idle /\ row \in Login!Accounts
    BY <1>2, <1>3, AtWork DEF Doing, LoginInv
  <2>2. t \in 1..resets /\ resets \in 0..MaxTokens
    BY <1>1, <1>3 DEF LoginInv, Accounts, GivenIt
  <2> QED
    BY <2>1, <2>2, OfficeAssumption DEF Login!Tokens, Login!SessionsConstants
<1>5. GivenIt(Login!Idle) /\ GivenIt(Login!Idle)' /\ Behind(Login!Idle)'
  BY IdleDoes DEF GivenIt, Behind
<1>6. CASE UNCHANGED <<account, token, chosen, served, stale>>
  <2>1. Accounts'
    BY <1>3, <1>5, <1>6, RowsKept DEF LoginInv, Accounts, TokensOK
  <2>2. Loyal'
    BY <1>3, <1>5, <1>6, LoyalKept, AccountFields DEF LoginInv, Accounts
  <2>3. Login!Unused' = Login!Unused
    BY <1>6 DEF Login!Unused
  <2>4. OneMaker'
    BY <1>3, <2>3, IdleDoes, MakersKept DEF LoginInv
  <2> QED
    BY <2>1, <2>2, <2>4 DEF LoginInv
<1>7. CASE /\ Login!Choose /\ Login!Save(r, Login!Renewed(row, FALSE))
           /\ token' = [token EXCEPT ![t] = "used"]
           /\ served' = [served EXCEPT ![t] = @ + 1]
  <2>1. chosen' \in Login!Passwords /\ chosen + 1 \in Login!Passwords
    BY <1>7, OfficeAssumption DEF Login!Choose, LoginInv, Accounts, Login!Passwords,
       Login!SessionsConstants
  <2>2. PICK new : new = Login!Renewed(row, FALSE)
    OBVIOUS
  <2>3. new \in Login!Accounts /\ new.version = row.version + 1 /\ Login!Save(r, new)
    BY <1>4, <1>7, <2>1, <2>2, RenewedRow
  <2>4. row.version \in Int /\ account.version \in Int
    BY <1>4, AccountFields DEF LoginInv, Accounts
  <2>5. /\ account' \in Login!Accounts /\ stale' \in BOOLEAN
        /\ new.version # row.version => account'.version = new.version
        /\ ~stale' => ~stale
        /\ ~stale' /\ (new.version # row.version \/ new.hash # row.hash) =>
             account.version = row.version /\ account.hash = row.hash
    BY <1>2, <1>4, <2>3, SavedAccount DEF LoginInv, Accounts
  <2>6. account'.version = row.version + 1 /\ (~stale' => account.version = row.version)
    BY <2>3, <2>4, <2>5
  <2>7. /\ token' \in [Login!Tokens -> {"none", "live", "old", "used"}]
             /\ served' \in [Login!Tokens -> Nat]
        /\ \A u \in Login!Tokens : token'[u] = IF u = t THEN "used" ELSE token[u]
        /\ \A u \in Login!Tokens : served'[u] = IF u = t THEN served[t] + 1 ELSE served[u]
    BY <1>4, <1>7 DEF LoginInv, Accounts
  <2>8. TokensOK'
    BY <1>3, <1>4, <2>7 DEF LoginInv, Accounts, TokensOK
  <2>9. Accounts'
    BY <1>3, <1>5, <2>1, <2>5, <2>7, <2>8, RowsKept DEF LoginInv, Accounts
  <2>10. ASSUME ~stale' PROVE Loyal'
    <3>1. Loyal /\ ~stale /\ account.version = row.version
          /\ account'.version = account.version + 1 /\ account'.version \in Int
      BY <2>4, <2>5, <2>6, <2>10, AccountFields DEF LoginInv
    <3>2. \A s \in sessions : s.version \in Int
      BY DEF LoginInv, Accounts
    <3>3. \A s \in sessions' : s.version < account'.version
      BY <1>3, <2>4, <3>1, <3>2 DEF Loyal
    <3>4. served[t] = 0
      <4>1. ~(served[t] > 0)
        BY <1>1, <1>2, <1>3, <1>4, <2>4, <3>1 DEF Loyal, Behind
      <4> QED
        BY <1>4, <4>1 DEF LoginInv, Accounts
    <3>5. \A u \in Login!Tokens : served'[u] <= 1
      BY <2>7, <3>1, <3>4 DEF Loyal
    <3>6. \A q \in Requests : login'[q] = IF q = r THEN Login!Idle ELSE login[q]
      BY <1>3, OneSession DEF LoginInv
    <3>7. ASSUME NEW q \in Requests PROVE Behind(login[q])'
      <4>1. PICK v : v = login'[q]
        OBVIOUS
      <4>2. CASE q = r
        BY <1>5, <3>6, <4>1, <4>2 DEF Behind
      <4>3. CASE q # r
        <5>1. v = login[q] /\ Behind(v) /\ GivenIt(v)
          BY <3>1, <3>6, <4>1, <4>3 DEF Loyal, LoginInv, Accounts
        <5>2. v # Login!Idle => v.row.version \in Int
          <6>1. v # Login!Idle => v.row \in Login!Accounts
            BY <5>1 DEF GivenIt, Loads
          <6> QED
            BY <6>1, AccountFields
        <5>3. v # Login!Idle => v.row.version < account'.version
          BY <2>4, <3>1, <5>1, <5>2 DEF Behind
        <5>4. Behind(v)'
          BY <3>1, <5>2, <5>3 DEF Behind, Login!Idle
        <5> QED
          BY <4>1, <5>4 DEF Behind
      <4> QED
        BY <4>2, <4>3
    <3>8. \A s \in sessions' : s.version <= account'.version /\ s.version # account'.version
      BY <1>3, <3>1, <3>2, <3>3
    <3> QED
      BY <3>5, <3>7, <3>8 DEF Loyal
  <2>11. Loyal'
    BY <2>10 DEF Loyal
  <2>12. Login!Unused' \subseteq Login!Unused
    BY <2>7 DEF Login!Unused
  <2>13. OneMaker'
    BY <1>3, <2>12, IdleDoes, MakersKept DEF LoginInv
  <2> QED
    BY <2>9, <2>11, <2>13 DEF LoginInv
<1> QED
  BY <1>1, <1>2, <1>6, <1>7 DEF Login!EndReset

LEMMA TimesKeep ==
  ASSUME LoginInv, Login!LockExpires \/ Login!TokenExpires
  PROVE  LoginInv'
<1>1. CASE Login!LockExpires
  <2>1. account' = [account EXCEPT !.locked = FALSE]
        /\ UNCHANGED <<token, mailed, sessions, chosen, resets, served, stale, doubled, login>>
    BY <1>1 DEF Login!LockExpires
  <2>2. account' \in Login!Accounts /\ account'.version = account.version
        /\ account'.hash = account.hash
    BY <2>1 DEF LoginInv, Accounts, Login!Accounts
  <2>3. Accounts'
    BY <2>1, <2>2 DEF LoginInv, Accounts, GivenIt, TokensOK
  <2>4. Loyal'
    BY <2>1, <2>2 DEF LoginInv, Loyal, Behind
  <2>5. OneMaker'
    BY <2>1 DEF LoginInv, OneMaker, Login!Unused
  <2> QED
    BY <2>3, <2>4, <2>5 DEF LoginInv
<1>2. CASE Login!TokenExpires
  <2>1. PICK t \in Login!Tokens : token[t] = "live" /\ token' = [token EXCEPT ![t] = "old"]
    BY <1>2 DEF Login!TokenExpires
  <2>2. UNCHANGED <<account, mailed, sessions, chosen, resets, served, stale, doubled, login>>
    BY <1>2 DEF Login!TokenExpires
  <2>3. /\ token' \in [Login!Tokens -> {"none", "live", "old", "used"}]
        /\ \A u \in Login!Tokens : token'[u] = IF u = t THEN "old" ELSE token[u]
    BY <2>1 DEF LoginInv, Accounts
  <2>4. TokensOK'
    BY <2>1, <2>2, <2>3 DEF LoginInv, Accounts, TokensOK
  <2>5. Accounts'
    BY <2>2, <2>3, <2>4 DEF LoginInv, Accounts, GivenIt
  <2>6. Loyal'
    BY <2>2 DEF LoginInv, Loyal, Behind
  <2>7. Login!Unused' = Login!Unused
    BY <2>1, <2>3 DEF Login!Unused
  <2>8. OneMaker'
    BY <2>2, <2>7 DEF LoginInv, OneMaker
  <2> QED
    BY <2>5, <2>6, <2>8 DEF LoginInv
<1> QED
  BY <1>1, <1>2

LEMMA LoginStep == LoginInv /\ [Login!Next]_Login!vars => LoginInv'
<1> SUFFICES ASSUME LoginInv, [Login!Next]_Login!vars PROVE LoginInv'
  OBVIOUS
<1>1. CASE UNCHANGED Login!vars
  <2>1. UNCHANGED <<account, token, mailed, sessions, chosen, resets, served, stale, doubled,
            login>>
    BY <1>1 DEF Login!vars
  <2>2. Accounts'
    BY <2>1 DEF LoginInv, Accounts, GivenIt, TokensOK
  <2>3. Loyal'
    BY <2>1 DEF LoginInv, Loyal, Behind
  <2>4. OneMaker'
    BY <2>1 DEF LoginInv, OneMaker, Login!Unused
  <2> QED
    BY <2>2, <2>3, <2>4 DEF LoginInv
<1>2. ASSUME NEW r \in Requests, NEW p \in 1..chosen, Login!BeginLogin(r, p) PROVE LoginInv'
  <2>1. p \in Login!Passwords
    BY OfficeAssumption DEF LoginInv, Accounts, Login!Passwords, Login!SessionsConstants
  <2> QED
    BY <1>2, <2>1, BeginKeeps DEF Login!BeginLogin, Doing
<1>3. ASSUME NEW r \in Requests, NEW s \in sessions, Login!BeginLogout(r, s) PROVE LoginInv'
  <2>1. s.by \in Login!Passwords
    BY DEF LoginInv, Accounts
  <2> QED
    BY <1>3, <2>1, BeginKeeps DEF Login!BeginLogout, Doing
<1>4. ASSUME NEW r \in Requests, NEW s \in sessions, NEW p \in Login!Passwords,
          Login!BeginChange(r, s, p)
      PROVE  LoginInv'
  BY <1>4, BeginKeeps DEF Login!BeginChange, Doing
<1>5. account.hash.of \in Login!Passwords
  BY AccountFields DEF LoginInv, Accounts
<1>6. ASSUME NEW r \in Requests, Login!BeginAdminReset(r) \/ Login!BeginForgot(r)
          PROVE LoginInv'
  <2>1. PICK op \in {"admin", "forgot"} : Login!Begin(r, op, account.hash.of)
    BY <1>6 DEF Login!BeginAdminReset, Login!BeginForgot
  <2> QED
    BY <1>5, <2>1, BeginKeeps DEF Doing
<1>7. ASSUME NEW r \in Requests, NEW t \in Login!Tokens, Login!BeginReset(r, t) PROVE LoginInv'
  <2>1. t \in 1..resets
    BY <1>7 DEF Login!BeginReset, LoginInv, Accounts
  <2> QED
    BY <1>7, <2>1, BeginKeeps DEF Login!BeginReset, Doing
<1> QED
  BY <1>1, <1>2, <1>3, <1>4, <1>6, <1>7, EndLoginKeeps, IssueKeeps, ChangesKeep, DiscardKeeps,
     MakeKeeps, MailKeeps, EndResetKeeps, TimesKeep DEF Login!Next

LEMMA LoginHolds == LoginInv => Login!NewPasswordOnly /\ Login!OneResetToken
BY SameCounts DEF LoginInv, Loyal, OneMaker, Login!NewPasswordOnly, Login!OneResetToken,
   Login!Valid

\* The version goes back only in a request that is stale.
LEMMA VersionGrows ==
  ASSUME LoginInv, [Login!Next]_Login!vars, ~stale'
  PROVE  account.version <= account'.version
<1>1. account \in Login!Accounts /\ account.version \in Int
  BY AccountFields DEF LoginInv, Accounts
<1>2. CASE UNCHANGED account
  BY <1>1, <1>2
<1>3. ASSUME NEW r \in Requests, login[r].op \in Doing, NEW new \in Login!Accounts,
          Login!Save(r, new),
             new.version = login[r].row.version + 1 \/ new.version = login[r].row.version
      PROVE  account.version <= account'.version
  <2>1. PICK row \in Login!Accounts : row = login[r].row
    BY <1>3, AtWork DEF LoginInv
  <2>2. row.version \in Int
    BY AccountFields
  <2> QED
    BY <1>1, <1>3, <2>1, <2>2, SavedAccount DEF LoginInv, Accounts
<1>4. ASSUME NEW r \in Requests, Login!EndLogin(r) PROVE account.version <= account'.version
  <2>1. PICK row : row = login[r].row
    OBVIOUS
  <2>2. login[r].op \in Doing /\ row \in Login!Accounts
    BY <1>4, <2>1, AtWork DEF Login!EndLogin, Doing, LoginInv
  <2>3. \/ Login!Save(r, Login!Failed(row))
        \/ Login!Save(r, [row EXCEPT !.fails = 0, !.locked = FALSE, !.hash.legacy = FALSE])
    BY <1>4, <2>1 DEF Login!EndLogin
  <2> QED
    BY <1>3, <2>1, <2>2, <2>3, LoggedRow, FailedRow
<1>5. ASSUME Login!Choose PROVE chosen + 1 \in Login!Passwords
  BY <1>5, OfficeAssumption DEF Login!Choose, LoginInv, Accounts, Login!Passwords,
     Login!SessionsConstants
<1>6. ASSUME NEW r \in Requests,
          Login!EndLogout(r) \/ Login!EndChange(r) \/ Login!EndAdminReset(r)
      PROVE  account.version <= account'.version
  <2>1. PICK row : row = login[r].row
    OBVIOUS
  <2>2. login[r].op \in Doing /\ row \in Login!Accounts
    BY <1>6, <2>1, AtWork DEF Login!EndLogout, Login!EndChange, Login!EndAdminReset, Doing,
       LoginInv
  <2>3. CASE Login!EndLogout(r)
    <3>1. Login!Save(r, [row EXCEPT !.version = @ + 1])
      BY <2>1, <2>3 DEF Login!EndLogout
    <3> QED
      BY <1>3, <2>1, <2>2, <3>1, LoggedOutRow
  <2>4. CASE Login!EndChange(r)
    <3>1. Login!Save(r, Login!Renewed(row, FALSE)) /\ Login!Choose
      BY <2>1, <2>4 DEF Login!EndChange
    <3> QED
      BY <1>3, <1>5, <2>1, <2>2, <3>1, RenewedRow
  <2>5. CASE Login!EndAdminReset(r)
    <3>1. PICK must \in BOOLEAN :
            Login!Choose /\ Login!Save(r,
                [Login!Renewed(row, must) EXCEPT !.fails = 0, !.locked = FALSE])
      BY <2>1, <2>5 DEF Login!EndAdminReset
    <3> QED
      BY <1>3, <1>5, <2>1, <2>2, <3>1, RenewedRow
  <2> QED
    BY <1>6, <2>3, <2>4, <2>5
<1>7. ASSUME NEW r \in Requests, Login!EndReset(r) PROVE account.version <= account'.version
  <2>1. PICK row : row = login[r].row
    OBVIOUS
  <2>2. login[r].op \in Doing /\ row \in Login!Accounts
    BY <1>7, <2>1, AtWork DEF Login!EndReset, Doing, LoginInv
  <2>3. CASE Login!Choose /\ Login!Save(r, Login!Renewed(row, FALSE))
    BY <1>3, <1>5, <2>1, <2>2, <2>3, RenewedRow
  <2> QED
    BY <1>2, <1>7, <2>1, <2>3 DEF Login!EndReset
<1>8. CASE Login!LockExpires
  <2>1. account' = [account EXCEPT !.locked = FALSE]
    BY <1>8 DEF Login!LockExpires
  <2> QED
    BY <1>1, <2>1 DEF Login!Accounts
<1> QED
  BY <1>2, <1>4, <1>6, <1>7, <1>8 DEF Login!Next, Login!vars, Login!BeginLogin,
     Login!BeginLogout, Login!BeginChange,
     Login!BeginAdminReset, Login!BeginForgot, Login!BeginReset, Login!Begin, Login!Issue,
     Login!Discard, Login!Make, Login!Mail, Login!TokenExpires

\* A session that has ended does not come back.
LEMMA EndedStay ==
  LoginInv /\ [Login!Next]_Login!vars
      => [~stale' => \A s \in sessions : ~Login!Valid(s) => ~Login!Valid(s)']_Login!vars
<1> SUFFICES ASSUME LoginInv, [Login!Next]_Login!vars, ~stale', NEW s \in sessions,
        ~Login!Valid(s)
             PROVE  ~Login!Valid(s)'
  OBVIOUS
<1>1. account.version <= account'.version /\ LoginInv'
  BY VersionGrows, LoginStep
<1>2. /\ account.version \in Int /\ account'.version \in Int /\ s.version \in Int
  BY <1>1, AccountFields DEF LoginInv, Accounts
<1>3. ~stale
  <2>1. stale \in BOOLEAN
    BY DEF LoginInv, Accounts
  <2> QED
    BY <2>1 DEF Login!Next, Login!vars, Login!BeginLogin, Login!BeginLogout,
       Login!BeginChange, Login!BeginAdminReset, Login!BeginForgot,
       Login!BeginReset, Login!Begin, Login!Issue, Login!Discard, Login!Make, Login!Mail,
       Login!TokenExpires, Login!LockExpires, Login!EndLogin,
       Login!EndLogout, Login!EndChange, Login!EndAdminReset, Login!EndReset, Login!Save
<1>4. s.version < account.version
  BY <1>2, <1>3 DEF LoginInv, Loyal, Login!Valid
<1> QED
  BY <1>1, <1>2, <1>4 DEF Login!Valid

----------------------------------------------------------------------------------
(* Attempts: what has left a bucket has left every window that is still to come       *)

\* A bucket loses its first times, those up to the cutoff.
LEMMA PoppedIs ==
  ASSUME NEW b \in Seq(Nat), NEW c \in Int
  PROVE  \E n \in 0..Len(b) :
           /\ Attempts!Popped(b, c) \in Seq(Nat) /\ Len(Attempts!Popped(b, c)) = Len(b) - n
           /\ \A i \in 1..(Len(b) - n) : Attempts!Popped(b, c)[i] = b[n + i]
           /\ \A i \in 1..n : b[i] <= c
           /\ n < Len(b) => b[n + 1] > c
<1> DEFINE old == {n \in 1..Len(b) : \A i \in 1..n : b[i] <= c}
           young == {n \in 1..Len(b) : b[n] > c}
<1>0. Len(b) \in Nat /\ \A i \in 1..Len(b) : b[i] \in Nat
  OBVIOUS
<1>1. PICK n \in 0..Len(b) : old = 1..n /\ (n < Len(b) => b[n + 1] > c)
  <2>1. CASE young = {}
    <3>1. \A i \in 1..Len(b) : b[i] <= c
      BY <1>0, <2>1
    <3>2. old = 1..Len(b)
      BY <1>0, <3>1
    <3> QED
      BY <1>0, <3>2
  <2>2. CASE young # {}
    <3>0. young \subseteq Nat
      BY <1>0
    <3>1. PICK m \in young : \A k \in young : m <= k
      <4> HIDE DEF young
      <4> QED
        BY <2>2, <3>0, LeastOfNat
    <3>2. \A i \in 1..(m - 1) : b[i] <= c
      BY <1>0, <3>1
    <3>3. m \in 1..Len(b) /\ b[m] > c /\ m - 1 \in 0..Len(b) /\ b[m] \in Int
      BY <1>0, <3>1
    <3>4. \A k \in old : k < m
      <4> SUFFICES ASSUME NEW k \in old, k >= m PROVE FALSE
        BY <1>0, <3>3
      <4>1. m \in 1..k /\ b[m] <= c
        BY <1>0, <3>3
      <4> QED
        BY <3>3, <4>1
    <3>5. old = 1..(m - 1)
      BY <1>0, <3>2, <3>3, <3>4
    <3>6. PICK n \in 0..Len(b) : n = m - 1
      BY <3>3
    <3> HIDE DEF old, young
    <3> QED
      BY <3>3, <3>5, <3>6
  <2> QED
    BY <2>1, <2>2
<1>2. Cardinality(old) = n
  <2>1. Cardinality(1..n) = IF 1 > n THEN 0 ELSE n - 1 + 1
    BY FS_Interval
  <2>2. Cardinality(1..n) = n
    BY <1>0, <2>1
  <2> HIDE DEF old
  <2> QED
    BY <1>1, <2>2
<1>3. \A i \in 1..n : b[i] <= c
  BY <1>0, <1>1
<1>4. Attempts!Popped(b, c) = SubSeq(b, n + 1, Len(b))
  BY <1>2, SameCounts DEF Attempts!Popped
<1>5. n \in Nat /\ n <= Len(b)
  BY <1>0
<1> HIDE DEF old, young
<1>6. SubSeq(b, n + 1, Len(b)) \in Seq(Nat)
      /\ Len(SubSeq(b, n + 1, Len(b))) = Len(b) - n
      /\ \A i \in 1..(Len(b) - n) : SubSeq(b, n + 1, Len(b))[i] = b[n + i]
  BY <1>0, <1>5
<1> QED
  BY <1>1, <1>3, <1>4, <1>6

\* The bucket e has the last times of the attempts p that passed.
LastOf(e, p) ==
  /\ e \in Seq(Nat) /\ p \in Seq(Nat) /\ Len(e) <= Len(p)
  /\ \A i \in 1..Len(e) : e[i] = p[Len(p) - Len(e) + i]

\* The window that ends at t is in the bucket, or the clock is beyond it: then only threads
\* that have their time (n of them) can still come into it, and then k is among the tardy.
InBucket(e, p, t) == \A i \in Attempts!Within(p, t - Window, t) : i > Len(p) - Len(e)
Closed(p, t, n, last, k, tardy) ==
  /\ limClock > t
  /\ Cardinality(Attempts!Within(p, t - Window, t)) + n <= Allowed + Cardinality(Requests) - 1
  /\ k \notin tardy => last > t /\ Cardinality(Attempts!Within(p, t - Window, t)) <= Allowed

\* Without lateness, times come in order.
InOrder(p, last) ==
  /\ \A i \in 1..Len(p) : p[i] <= last
  /\ \A i, j \in 1..Len(p) : i <= j => p[i] <= p[j]

LEMMA WindowFinite ==
  ASSUME NEW p \in Seq(Nat), NEW a \in Int, NEW t \in Int
  PROVE  /\ Attempts!Within(p, a, t) \subseteq 1..Len(p)
              /\ IsFiniteSet(Attempts!Within(p, a, t))
         /\ Cardinality(Attempts!Within(p, a, t)) \in Nat
<1>1. Attempts!Within(p, a, t) \subseteq 1..Len(p)
  BY DEF Attempts!Within
<1>2. IsFiniteSet(1..Len(p))
  BY FS_Interval
<1> QED
  BY <1>1, <1>2, FS_Subset, FS_CardinalityType

LEMMA BucketBounds ==
  ASSUME NEW e, NEW p, LastOf(e, p), NEW t \in Int, InBucket(e, p, t), Len(e) <= Allowed
  PROVE  Cardinality(Attempts!Within(p, t - Window, t)) <= Allowed
<1> DEFINE W == Attempts!Within(p, t - Window, t)
           D == Len(p) - Len(e)
<1>1. Len(p) \in Nat /\ Len(e) \in Nat /\ D \in Nat /\ Allowed \in Nat /\ Window \in Int
  BY OfficeAssumption DEF LastOf, Attempts!LimiterConstants
<1>2. W \subseteq 1..Len(p)
  BY <1>1, WindowFinite DEF LastOf
<1>3. W \subseteq (D + 1)..Len(p)
  BY <1>1, <1>2 DEF InBucket
<1>4. IsFiniteSet((D + 1)..Len(p)) /\ Cardinality((D + 1)..Len(p)) = Len(e)
  <2>1. \A a, b \in Int : IsFiniteSet(a..b)
                            /\ Cardinality(a..b) = IF a > b THEN 0 ELSE b - a + 1
    BY FS_Interval
  <2>2. D + 1 \in Int /\ Len(p) \in Int /\ Len(p) - D = Len(e)
    BY <1>1
  <2> HIDE DEF D
  <2>3. /\ IsFiniteSet((D + 1)..Len(p))
        /\ Cardinality((D + 1)..Len(p)) = IF D + 1 > Len(p) THEN 0 ELSE Len(p) - (D + 1) + 1
    BY <2>1, <2>2
  <2> QED
    BY <1>1, <2>2, <2>3
<1> HIDE DEF W, D
<1>5. Cardinality(W) <= Cardinality((D + 1)..Len(p)) /\ Cardinality(W) \in Nat
  BY <1>3, <1>4, FS_Subset, FS_CardinalityType
<1>6. Cardinality(W) <= Allowed
  BY <1>1, <1>4, <1>5
<1> QED
  BY <1>6 DEF W

\* The threads that have a time for key k, up to t
Coming(k, t) == {r \in Requests : limWork[r] # Attempts!Idle /\ limWork[r].key = k
    /\ Attempts!Time(r) <= t}

Windows(k, e, p, last) ==
  \A t \in Nat : InBucket(e, p, t)
                 \/ Closed(p, t, Cardinality(Coming(k, t)), last, k, limLate)

AttemptsInv ==
  /\ limShared \in BOOLEAN /\ limClock \in Nat /\ limUnjust = FALSE
  /\ Attempts!Known \subseteq Callers /\ DOMAIN limSeen = Attempts!Known
       /\ DOMAIN limPassed = Attempts!Known
  /\ limLate \subseteq Attempts!Known /\ (Attempts!Known # {} => Requests # {})
  /\ limWork = [r \in Requests |-> limWork[r]]
  /\ \A r \in Requests : limWork[r] = Attempts!Idle
                         \/ (limWork[r] \in [key : Callers, now : Nat]
                              /\ limWork[r].now <= limClock)
  /\ \A k \in Attempts!Known :
       /\ limSeen[k] \in 0..limClock
       /\ LastOf(limEvents[k], limPassed[k]) /\ Len(limEvents[k]) <= Allowed
       /\ Windows(k, limEvents[k], limPassed[k], limSeen[k])
       /\ k \notin limLate => InOrder(limPassed[k], limSeen[k])
  /\ ~limShared => Cardinality(Attempts!Known) <= MaxCallers

LEMMA IdleHasNoTime == \A w \in [key : Callers, now : Nat] : w # Attempts!Idle
<1>1. DOMAIN Attempts!Idle = {"key"}
  BY DEF Attempts!Idle
<1>2. \A w \in [key : Callers, now : Nat] : DOMAIN w = {"key", "now"}
  OBVIOUS
<1> QED
  BY <1>1, <1>2

LEMMA ComingFinite ==
  ASSUME NEW S \in SUBSET Requests
  PROVE  IsFiniteSet(S) /\ Cardinality(S) \in Nat /\ Cardinality(S) <= Cardinality(Requests)
         /\ Cardinality(Requests) \in Nat
BY RegistryAssumption, FS_Subset, FS_CardinalityType

LEMMA AttemptsInit == Attempts!Init => AttemptsInv
<1> SUFFICES ASSUME Attempts!Init PROVE AttemptsInv
  OBVIOUS
<1>1. Attempts!Known = {}
  BY DEF Attempts!Init, Attempts!Known
<1>2. DOMAIN limSeen = {} /\ DOMAIN limPassed = {}
  BY DEF Attempts!Init
<1>3. Cardinality(Attempts!Known) = 0
  BY <1>1, FS_EmptySet
<1>4. MaxCallers \in Nat
  BY OfficeAssumption DEF Attempts!LimiterConstants
<1>5. /\ limShared \in BOOLEAN /\ limClock = 0 /\ limLate = {} /\ limUnjust = FALSE
      /\ limWork = [r \in Requests |-> limWork[r]] /\ \A r \in Requests :
           limWork[r] = Attempts!Idle
  BY DEF Attempts!Init
<1> QED
  BY <1>1, <1>2, <1>3, <1>4, <1>5 DEF AttemptsInv

LEMMA PoppedLast ==
  ASSUME NEW e, NEW p, LastOf(e, p), NEW c \in Int
  PROVE  /\ LastOf(Attempts!Popped(e, c), p) /\ Len(Attempts!Popped(e, c)) <= Len(e)
         /\ \A i \in 1..Len(p) : i > Len(p) - Len(e)
              /\ i <= Len(p) - Len(Attempts!Popped(e, c)) =>
                 p[i] <= c
         /\ Len(Attempts!Popped(e, c)) > 0 => p[Len(p) - Len(Attempts!Popped(e, c)) + 1] > c
<1>1. PICK b : b = Attempts!Popped(e, c)
  OBVIOUS
<1>2. Len(e) \in Nat /\ Len(p) \in Nat /\ Len(e) <= Len(p) /\ e \in Seq(Nat) /\ p \in Seq(Nat)
  BY DEF LastOf
<1>3. PICK n \in 0..Len(e) :
        /\ b \in Seq(Nat) /\ Len(b) = Len(e) - n
        /\ \A i \in 1..(Len(e) - n) : b[i] = e[n + i]
        /\ \A i \in 1..n : e[i] <= c
        /\ n < Len(e) => e[n + 1] > c
  BY <1>1, <1>2, PoppedIs
<1>4. \A i \in 1..Len(e) : e[i] = p[Len(p) - Len(e) + i]
  BY DEF LastOf
<1>5. LastOf(b, p)
  <2>1. ASSUME NEW i \in 1..Len(b) PROVE b[i] = p[Len(p) - Len(b) + i]
    <3>1. n + i \in 1..Len(e) /\ b[i] = e[n + i]
      BY <1>2, <1>3
    <3>2. e[n + i] = p[Len(p) - Len(e) + (n + i)]
      BY <1>4, <3>1
    <3>3. Len(p) - Len(e) + (n + i) = Len(p) - Len(b) + i
      BY <1>2, <1>3
    <3> QED
      BY <3>1, <3>2, <3>3
  <2>2. Len(b) <= Len(p)
    BY <1>2, <1>3
  <2> QED
    BY <1>2, <1>3, <2>1, <2>2 DEF LastOf
<1>6. ASSUME NEW i \in 1..Len(p), i > Len(p) - Len(e), i <= Len(p) - Len(b) PROVE p[i] <= c
  <2>1. PICK j : j = i - (Len(p) - Len(e))
    OBVIOUS
  <2>2. j \in 1..n /\ j \in 1..Len(e) /\ Len(p) - Len(e) + j = i
    BY <1>2, <1>3, <1>6, <2>1
  <2>3. e[j] = p[i]
    BY <1>4, <2>2
  <2> QED
    BY <1>3, <2>2, <2>3
<1>7. ASSUME Len(b) > 0 PROVE p[Len(p) - Len(b) + 1] > c
  <2>1. n < Len(e) /\ n + 1 \in 1..Len(e)
    BY <1>2, <1>3, <1>7
  <2>2. e[n + 1] = p[Len(p) - Len(e) + (n + 1)]
    BY <1>4, <2>1
  <2>3. Len(p) - Len(e) + (n + 1) = Len(p) - Len(b) + 1
    BY <1>2, <1>3
  <2> QED
    BY <1>3, <2>1, <2>2, <2>3
<1>8. Len(b) <= Len(e)
  BY <1>2, <1>3
<1> QED
  BY <1>1, <1>5, <1>6, <1>7, <1>8

LEMMA AppendLast ==
  ASSUME NEW b, NEW p, LastOf(b, p), NEW x \in Nat
  PROVE  /\ LastOf(Append(b, x), Append(p, x))
         /\ Len(Append(b, x)) = Len(b) + 1 /\ Len(Append(p, x)) = Len(p) + 1
         /\ \A i \in 1..Len(p) : Append(p, x)[i] = p[i]
         /\ Append(p, x)[Len(p) + 1] = x
<1>1. Len(b) \in Nat /\ Len(p) \in Nat /\ Len(b) <= Len(p) /\ b \in Seq(Nat) /\ p \in Seq(Nat)
  BY DEF LastOf
<1>2. /\ Len(Append(b, x)) = Len(b) + 1 /\ Len(Append(p, x)) = Len(p) + 1
      /\ \A i \in 1..Len(p) : Append(p, x)[i] = p[i]
      /\ \A i \in 1..Len(b) : Append(b, x)[i] = b[i]
      /\ Append(p, x)[Len(p) + 1] = x /\ Append(b, x)[Len(b) + 1] = x
      /\ Append(b, x) \in Seq(Nat) /\ Append(p, x) \in Seq(Nat)
  BY <1>1
<1>3. ASSUME NEW i \in 1..(Len(b) + 1)
      PROVE  Append(b, x)[i] = Append(p, x)[Len(p) + 1 - (Len(b) + 1) + i]
  <2>1. CASE i = Len(b) + 1
    <3>1. Len(p) + 1 - (Len(b) + 1) + i = Len(p) + 1
      BY <1>1, <2>1
    <3> QED
      BY <1>2, <2>1, <3>1
  <2>2. CASE i # Len(b) + 1
    <3>1. i \in 1..Len(b) /\ Len(p) - Len(b) + i \in 1..Len(p)
          /\ Len(p) + 1 - (Len(b) + 1) + i = Len(p) - Len(b) + i
      BY <1>1, <2>2
    <3>2. b[i] = p[Len(p) - Len(b) + i]
      BY <3>1 DEF LastOf
    <3> QED
      BY <1>2, <3>1, <3>2
  <2> QED
    BY <2>1, <2>2
<1>4. Len(Append(b, x)) <= Len(Append(p, x))
  BY <1>1, <1>2
<1>5. LastOf(Append(b, x), Append(p, x))
  <2>1. PICK c : c = Append(b, x)
    OBVIOUS
  <2>2. PICK q : q = Append(p, x)
    OBVIOUS
  <2>3. /\ c \in Seq(Nat) /\ q \in Seq(Nat) /\ Len(c) = Len(b) + 1 /\ Len(q) = Len(p) + 1
        /\ Len(c) <= Len(q)
    BY <1>2, <1>4, <2>1, <2>2
  <2>4. \A i \in 1..(Len(b) + 1) : c[i] = q[Len(p) + 1 - (Len(b) + 1) + i]
    BY <1>3, <2>1, <2>2
  <2>5. \A i \in 1..Len(c) : c[i] = q[Len(q) - Len(c) + i]
    <3> SUFFICES ASSUME NEW i \in 1..Len(c) PROVE c[i] = q[Len(q) - Len(c) + i]
      OBVIOUS
    <3>1. Len(c) = Len(b) + 1 /\ Len(q) = Len(p) + 1
      BY <2>3
    <3>2. c[i] = q[Len(p) + 1 - (Len(b) + 1) + i]
      BY <2>4, <3>1
    <3> QED
      BY <3>1, <3>2
  <2>6. LastOf(c, q)
    BY <2>3, <2>5 DEF LastOf
  <2> QED
    BY <2>1, <2>2, <2>6
<1> QED
  BY <1>2, <1>5

\* A time that comes into a window, or does not
LEMMA WithinAppended ==
  ASSUME NEW p \in Seq(Nat), NEW x \in Nat, NEW a \in Int, NEW t \in Int
  PROVE  /\ x > t => Attempts!Within(Append(p, x), a, t) = Attempts!Within(p, a, t)
         /\ Cardinality(Attempts!Within(Append(p, x), a, t))
              <= Cardinality(Attempts!Within(p, a, t)) + 1
<1>1. PICK q : q = Append(p, x)
  OBVIOUS
<1>2. /\ Len(p) \in Nat /\ q \in Seq(Nat) /\ Len(q) = Len(p) + 1
      /\ \A i \in 1..Len(p) : q[i] = p[i] /\ p[i] \in Nat
      /\ q[Len(p) + 1] = x
      /\ DOMAIN p = 1..Len(p) /\ DOMAIN q = 1..(Len(p) + 1)
  BY <1>1
<1>3. \A i \in 1..(Len(p) + 1) : i = Len(p) + 1 \/ i \in 1..Len(p)
  BY <1>2
<1>4. x > t => Attempts!Within(q, a, t) = Attempts!Within(p, a, t)
  <2> SUFFICES ASSUME x > t PROVE Attempts!Within(q, a, t) = Attempts!Within(p, a, t)
    OBVIOUS
  <2>1. ASSUME NEW i \in Attempts!Within(q, a, t) PROVE i \in Attempts!Within(p, a, t)
    <3>1. i \in 1..(Len(p) + 1) /\ q[i] > a /\ q[i] <= t
      BY <1>2, <2>1 DEF Attempts!Within
    <3>2. i \in 1..Len(p)
      BY <1>2, <1>3, <3>1
    <3> QED
      BY <1>2, <3>1, <3>2 DEF Attempts!Within
  <2>2. ASSUME NEW i \in Attempts!Within(p, a, t) PROVE i \in Attempts!Within(q, a, t)
    BY <1>2, <2>2 DEF Attempts!Within
  <2> QED
    BY <2>1, <2>2
<1>5. Attempts!Within(q, a, t) \subseteq Attempts!Within(p, a, t) \cup {Len(p) + 1}
  <2> SUFFICES ASSUME NEW i \in Attempts!Within(q, a, t), i # Len(p) + 1
          PROVE i \in Attempts!Within(p, a, t)
    OBVIOUS
  <2>1. i \in 1..(Len(p) + 1) /\ q[i] > a /\ q[i] <= t
    BY <1>2 DEF Attempts!Within
  <2> QED
    BY <1>2, <1>3, <2>1 DEF Attempts!Within
<1>6. Cardinality(Attempts!Within(q, a, t)) <= Cardinality(Attempts!Within(p, a, t)) + 1
  <2>1. IsFiniteSet(Attempts!Within(p, a, t)) /\ Cardinality(Attempts!Within(p, a, t)) \in Nat
    BY WindowFinite
  <2>2. /\ IsFiniteSet(Attempts!Within(p, a, t) \cup {Len(p) + 1})
        /\ Cardinality(Attempts!Within(p, a, t) \cup {Len(p) + 1})
             = IF Len(p) + 1 \in Attempts!Within(p, a, t)
                 THEN Cardinality(Attempts!Within(p, a, t))
               ELSE Cardinality(Attempts!Within(p, a, t)) + 1
    BY <2>1, FS_AddElement
  <2>3. Cardinality(Attempts!Within(q, a, t))
            <= Cardinality(Attempts!Within(p, a, t) \cup {Len(p) + 1})
        /\ Cardinality(Attempts!Within(q, a, t)) \in Nat
    BY <1>5, <2>2, FS_Subset, FS_CardinalityType
  <2> QED
    BY <2>1, <2>2, <2>3
<1> QED
  BY <1>1, <1>4, <1>6

\* A thread with its time comes to the bucket e of attempts p.  Of n threads that could
\* still come into the window that ends at t, m remain.
\* What a call finds and leaves of the bucket of its key
Handled(e, p, e2, p2, now, t, n, m, last, k, old, new) ==
  /\ LastOf(e, p) /\ Len(e) <= Allowed /\ now \in Nat /\ now <= limClock
  /\ limClock \in Nat /\ t \in Nat /\ n \in Nat /\ m \in Nat /\ m <= n
  /\ m + 1 <= Cardinality(Requests) /\ (now <= t => m + 1 <= n) /\ last \in Int
  /\ k \notin new => k \notin old /\ last <= now
  /\ InBucket(e, p, t) \/ Closed(p, t, n, last, k, old)
  /\ \/ p2 = p /\ e2 = Attempts!Popped(e, now - Window)
     \/ p2 = Append(p, now) /\ e2 = Append(Attempts!Popped(e, now - Window), now)

LEMMA WindowKeeps ==
  ASSUME NEW e, NEW p, NEW e2, NEW p2, NEW now, NEW t, NEW n, NEW m, NEW last,
         NEW k, NEW old, NEW new, Handled(e, p, e2, p2, now, t, n, m, last, k, old, new)
  PROVE  InBucket(e2, p2, t) \/ Closed(p2, t, m, now, k, new)
<1>0. PICK b : b = Attempts!Popped(e, now - Window)
  OBVIOUS
<1>b. /\ LastOf(e, p) /\ Len(e) <= Allowed /\ now \in Nat /\ now <= limClock
      /\ limClock \in Nat /\ t \in Nat /\ n \in Nat /\ m \in Nat /\ m <= n
      /\ m + 1 <= Cardinality(Requests) /\ (now <= t => m + 1 <= n) /\ last \in Int
      /\ k \notin new => k \notin old /\ last <= now
  BY DEF Handled
<1>c. InBucket(e, p, t) \/ Closed(p, t, n, last, k, old)
  BY DEF Handled
<1>d. \/ p2 = p /\ e2 = b
      \/ p2 = Append(p, now) /\ e2 = Append(b, now)
  BY <1>0 DEF Handled
<1> DEFINE W == Attempts!Within(p, t - Window, t)
           W2 == Attempts!Within(p2, t - Window, t)
<1>1. /\ Window \in Nat /\ Allowed \in Nat /\ t - Window \in Int /\ now - Window \in Int
      /\ p \in Seq(Nat) /\ Len(p) \in Nat /\ Len(e) \in Nat /\ Cardinality(Requests) \in Nat
  BY <1>b, OfficeAssumption, RegistryAssumption, FS_CardinalityType
     DEF Attempts!LimiterConstants, LastOf
<1>2. /\ LastOf(b, p) /\ Len(b) <= Len(e) /\ Len(b) \in Nat
      /\ \A i \in 1..Len(p) : i > Len(p) - Len(e) /\ i <= Len(p) - Len(b)
           => p[i] <= now - Window
  <2>1. /\ LastOf(b, p) /\ Len(b) <= Len(e)
        /\ \A i \in 1..Len(p) :
             i > Len(p) - Len(e) /\ i <= Len(p) - Len(b) => p[i] <= now - Window
    BY <1>0, <1>1, <1>b, PoppedLast
  <2>2. Len(b) \in Nat
    BY <2>1 DEF LastOf
  <2> QED
    BY <2>1, <2>2
<1>a. /\ p2 \in Seq(Nat) /\ Len(p2) \in Nat /\ Len(e2) \in Nat
      /\ (Len(p2) = Len(p) \/ Len(p2) = Len(p) + 1) /\ Len(p2) - Len(e2) = Len(p) - Len(b)
      /\ \A i \in 1..Len(p) : p2[i] = p[i]
      /\ now > t => W2 = W
      /\ Cardinality(W2) <= Cardinality(W) + 1
  <2>1. CASE p2 = p /\ e2 = b
    <3>1. Cardinality(W) \in Nat
      BY <1>1, <1>b, WindowFinite
    <3>2. Cardinality(W) <= Cardinality(W) + 1
      BY <3>1
    <3> QED
      BY <1>1, <1>2, <2>1, <3>2
  <2>2. CASE p2 = Append(p, now) /\ e2 = Append(b, now)
    <3>1. /\ Len(e2) = Len(b) + 1 /\ Len(p2) = Len(p) + 1 /\ LastOf(e2, p2)
          /\ \A i \in 1..Len(p) : p2[i] = p[i]
      BY <1>2, <1>b, <2>2, AppendLast
    <3>2. p2 \in Seq(Nat)
      BY <3>1 DEF LastOf
    <3>3. now > t => W2 = W
      BY <1>1, <1>b, <2>2, WithinAppended
    <3>4. Cardinality(W2) <= Cardinality(W) + 1
      BY <1>1, <1>b, <2>2, WithinAppended
    <3>5. Len(p2) - Len(e2) = Len(p) - Len(b) /\ Len(p2) \in Nat /\ Len(e2) \in Nat
      BY <1>1, <1>2, <3>1
    <3> QED
      BY <3>1, <3>2, <3>3, <3>4, <3>5
  <2> QED
    BY <1>d, <2>1, <2>2
<1>3. now > t => W2 = W
  BY <1>a
<1>4. /\ W \subseteq 1..Len(p) /\ Cardinality(W) \in Nat
  BY <1>1, <1>b, WindowFinite
<1>5. Cardinality(W2) <= Cardinality(W) + 1 /\ Cardinality(W2) \in Nat
  <2>1. Cardinality(W2) \in Nat
    BY <1>1, <1>a, <1>b, WindowFinite
  <2> QED
    BY <1>a, <2>1
<1>6. \A i \in W : p[i] > t - Window /\ p[i] \in Nat
  BY <1>1, <1>4, <1>b DEF Attempts!Within
<1>7. CASE InBucket(e, p, t) /\ ~InBucket(e2, p2, t)
  <2>1. PICK i \in W2 : ~(i > Len(p2) - Len(e2))
    BY <1>7 DEF InBucket
  <2>2. Len(p2) - Len(e2) = Len(p) - Len(b)
    BY <1>a
  <2>3. i \in 1..Len(p) /\ i <= Len(p) - Len(b) /\ i \in W
    <3>1. i \in 1..Len(p2)
      BY <1>1, <1>a, <1>b, WindowFinite
    <3>2. i \in Int /\ i >= 1 /\ i <= Len(p) - Len(b)
      BY <1>a, <1>1, <1>2, <2>1, <2>2, <3>1
    <3>3. i \in 1..Len(p)
      BY <1>1, <1>2, <3>2
    <3>4. p2[i] = p[i] /\ p2[i] > t - Window /\ p2[i] <= t
      BY <1>a, <2>1, <3>3 DEF Attempts!Within
    <3>5. i \in DOMAIN p
      BY <1>1, <3>3
    <3> QED
      BY <3>2, <3>3, <3>4, <3>5 DEF Attempts!Within
  <2>4. i > Len(p) - Len(e)
    BY <1>7, <2>3 DEF InBucket
  <2>5. p[i] <= now - Window /\ p[i] > t - Window /\ p[i] \in Nat
    BY <1>2, <1>6, <2>3, <2>4
  <2>6. now > t
    BY <1>1, <1>b, <2>5
  <2>7. Cardinality(W) <= Allowed
    BY <1>7, <1>b, BucketBounds
  <2>8. W2 = W /\ limClock > t
    BY <1>3, <1>b, <2>6
  <2> HIDE DEF W, W2
  <2>9. Cardinality(W2) + m <= Allowed + Cardinality(Requests) - 1
    BY <1>1, <1>4, <1>b, <2>7, <2>8
  <2> QED
    BY <1>b, <2>6, <2>7, <2>8, <2>9 DEF Closed, W2
<1>8. CASE Closed(p, t, n, last, k, old)
  <2>1. /\ limClock > t /\ Cardinality(W) + n <= Allowed + Cardinality(Requests) - 1
        /\ k \notin old => last > t /\ Cardinality(W) <= Allowed
    BY <1>8 DEF Closed
  <2>2. CASE now > t
    <3>1. W2 = W
      BY <1>3, <2>2
    <3> HIDE DEF W, W2
    <3>2. Cardinality(W2) + m <= Allowed + Cardinality(Requests) - 1
      BY <1>1, <1>4, <1>b, <2>1, <3>1
    <3> QED
      BY <1>b, <2>1, <2>2, <3>1, <3>2 DEF Closed, W2
  <2>3. CASE now <= t
    <3>1. k \in new
      BY <1>b, <2>1, <2>3
    <3> HIDE DEF W, W2
    <3>2. Cardinality(W2) + m <= Allowed + Cardinality(Requests) - 1
      BY <1>1, <1>4, <1>5, <1>b, <2>1, <2>3
    <3> QED
      BY <1>b, <2>1, <3>1, <3>2 DEF Closed, W2
  <2> QED
    BY <1>1, <1>b, <2>2, <2>3
<1> QED
  BY <1>7, <1>8, <1>c

\* Times that come in order
LEMMA InOrderAppended ==
  ASSUME NEW p \in Seq(Nat), NEW last \in Int, NEW x \in Nat, last <= x, InOrder(p, last)
  PROVE  InOrder(p, x) /\ InOrder(Append(p, x), x)
<1>1. PICK q : q = Append(p, x)
  OBVIOUS
<1>2. /\ Len(p) \in Nat /\ Len(q) = Len(p) + 1 /\ q[Len(p) + 1] = x
      /\ \A i \in 1..Len(p) : q[i] = p[i] /\ p[i] \in Nat /\ p[i] <= last
  BY <1>1 DEF InOrder
<1>3. \A i \in 1..Len(p) : p[i] <= x /\ q[i] <= x /\ q[i] = p[i]
  BY <1>2
<1>4. InOrder(p, x)
  BY <1>3 DEF InOrder
<1>5. \A i \in 1..(Len(p) + 1) : i = Len(p) + 1 \/ i \in 1..Len(p)
  BY <1>2
<1>6. ASSUME NEW i \in 1..(Len(p) + 1), NEW j \in 1..(Len(p) + 1), i <= j PROVE q[i] <= q[j]
  <2>1. CASE j = Len(p) + 1
    BY <1>2, <1>3, <1>5, <2>1
  <2>2. CASE j # Len(p) + 1
    <3>1. i \in 1..Len(p) /\ j \in 1..Len(p)
      BY <1>2, <1>6, <2>2
    <3> QED
      BY <1>3, <1>6, <3>1 DEF InOrder
  <2> QED
    BY <2>1, <2>2
<1>7. \A i \in 1..Len(q) : q[i] <= x
  BY <1>2, <1>3, <1>5
<1>8. InOrder(q, x)
  BY <1>2, <1>6, <1>7 DEF InOrder
<1> QED
  BY <1>1, <1>4, <1>8

\* What a thread comes to: a bucket, or none
LEMMA BucketOf ==
  ASSUME AttemptsInv, NEW k
  PROVE  /\ LastOf(Attempts!Of(limEvents, k), Attempts!Of(limPassed, k))
              /\ Len(Attempts!Of(limEvents, k)) <= Allowed
         /\ Attempts!Of(limPassed, k) \in Seq(Nat) /\ Attempts!Of(limEvents, k) \in Seq(Nat)
         /\ k \in Attempts!Known => Attempts!Of(limEvents, k) = limEvents[k]
              /\ Attempts!Of(limPassed, k) = limPassed[k]
         /\ k \notin Attempts!Known
              => Attempts!Of(limEvents, k) = <<>> /\ Attempts!Of(limPassed, k) = <<>>
<1>1. CASE k \in Attempts!Known
  <2>1. Attempts!Of(limEvents, k) = limEvents[k] /\ Attempts!Of(limPassed, k) = limPassed[k]
    BY <1>1 DEF Attempts!Of, AttemptsInv, Attempts!Known
  <2>2. LastOf(limEvents[k], limPassed[k]) /\ Len(limEvents[k]) <= Allowed
    BY <1>1 DEF AttemptsInv
  <2> QED
    BY <1>1, <2>1, <2>2 DEF LastOf
<1>2. CASE k \notin Attempts!Known
  <2>1. Attempts!Of(limEvents, k) = <<>> /\ Attempts!Of(limPassed, k) = <<>>
    BY <1>2 DEF Attempts!Of, AttemptsInv, Attempts!Known
  <2>2. <<>> \in Seq(Nat) /\ Len(<<>>) = 0
    OBVIOUS
  <2>3. LastOf(<<>>, <<>>)
    BY <2>2 DEF LastOf
  <2> QED
    BY <1>2, <2>1, <2>2, <2>3, OfficeAssumption DEF Attempts!LimiterConstants
<1> QED
  BY <1>1, <1>2

LEMMA TimeOf ==
  ASSUME AttemptsInv, NEW r \in Requests, limWork[r] # Attempts!Idle
  PROVE  Attempts!Time(r) \in Nat /\ Attempts!Time(r) <= limClock /\ limWork[r].key \in Callers
<1>1. limWork[r] \in [key : Callers, now : Nat] /\ limWork[r].now <= limClock
          /\ limClock \in Nat
  BY DEF AttemptsInv
<1> QED
  BY <1>1 DEF Attempts!Time

\* What a call does to the tables, whether it passes or is refused
Called(r, k, now, b, S) ==
  /\ r \in Requests /\ limWork[r] # Attempts!Idle /\ k = limWork[r].key
       /\ now = Attempts!Time(r)
  /\ b = Attempts!Popped(Attempts!Of(limEvents, k), now - Window)
  /\ limWork' = [limWork EXCEPT ![r] = Attempts!Idle] /\ UNCHANGED <<limShared, limClock>>
  /\ S \subseteq Attempts!Known \cup {k}
  /\ DOMAIN limEvents' = S /\ DOMAIN limPassed' = S /\ DOMAIN limSeen' = S
  /\ \A q \in S \ {k} : /\ limEvents'[q] = limEvents[q] /\ limPassed'[q] = limPassed[q]
                        /\ limSeen'[q] = limSeen[q] /\ (q \in limLate' <=> q \in limLate)
  /\ k \in S => /\ \/ limEvents'[k] = b /\ limPassed'[k] = Attempts!Of(limPassed, k)
                   \/ limEvents'[k] = Append(b, now)
                        /\ limPassed'[k] = Append(Attempts!Of(limPassed, k), now)
                /\ limSeen'[k] = now /\ Len(limEvents'[k]) <= Allowed
                /\ (k \in limLate \/ Attempts!IsLate(k, now) => k \in limLate')
  /\ limLate' \subseteq S /\ limUnjust' = FALSE /\ (~limShared => Cardinality(S) <= MaxCallers)

LEMMA CallKeeps ==
  ASSUME AttemptsInv, NEW r, NEW k, NEW now, NEW b, NEW S, Called(r, k, now, b, S)
  PROVE  AttemptsInv'
<1> SUFFICES ASSUME r \in Requests, limWork[r] # Attempts!Idle, k = limWork[r].key,
        now = Attempts!Time(r),
         b = Attempts!Popped(Attempts!Of(limEvents, k), now - Window),
         limWork' = [limWork EXCEPT ![r] = Attempts!Idle], UNCHANGED <<limShared, limClock>>,
         S \subseteq Attempts!Known \cup {k},
         DOMAIN limEvents' = S, DOMAIN limPassed' = S, DOMAIN limSeen' = S,
         \A q \in S \ {k} : /\ limEvents'[q] = limEvents[q] /\ limPassed'[q] = limPassed[q]
                            /\ limSeen'[q] = limSeen[q] /\ (q \in limLate' <=> q \in limLate),
         k \in S => /\ \/ limEvents'[k] = b /\ limPassed'[k] = Attempts!Of(limPassed, k)
                       \/ limEvents'[k] = Append(b, now)
                            /\ limPassed'[k] = Append(Attempts!Of(limPassed, k), now)
                    /\ limSeen'[k] = now /\ Len(limEvents'[k]) <= Allowed
                    /\ (k \in limLate \/ Attempts!IsLate(k, now) => k \in limLate'),
         limLate' \subseteq S, limUnjust' = FALSE, ~limShared => Cardinality(S) <= MaxCallers
    PROVE AttemptsInv'
  BY DEF Called
<1>1. now \in Nat /\ now <= limClock /\ k \in Callers /\ limClock \in Nat
  BY TimeOf DEF AttemptsInv
<1>2. /\ limWork' = [q \in Requests |-> limWork'[q]]
      /\ \A q \in Requests : limWork'[q] = IF q = r THEN Attempts!Idle ELSE limWork[q]
  BY DEF AttemptsInv
<1>3. Attempts!Known' = S
  BY DEF Attempts!Known
<1>4. ASSUME NEW q, NEW t
      PROVE  /\ Coming(q, t)' = Coming(q, t) \ {r}
             /\ q # k => Coming(q, t)' = Coming(q, t)
  <2>1. \A p \in Requests : p # r => Attempts!Time(p)' = Attempts!Time(p)
    BY <1>2 DEF Attempts!Time
  <2>2. Coming(q, t)' = Coming(q, t) \ {r}
    BY <1>2, <2>1 DEF Coming
  <2> QED
    BY <2>2 DEF Coming
<1>5. ASSUME NEW q \in S \ {k}
      PROVE  /\ limSeen'[q] \in 0..limClock'
             /\ LastOf(limEvents'[q], limPassed'[q]) /\ Len(limEvents'[q]) <= Allowed
             /\ Windows(q, limEvents[q], limPassed[q], limSeen[q])'
             /\ q \notin limLate' => InOrder(limPassed'[q], limSeen'[q])
  <2>1. q \in Attempts!Known
    OBVIOUS
  <2>2. /\ limSeen[q] \in 0..limClock
        /\ LastOf(limEvents[q], limPassed[q]) /\ Len(limEvents[q]) <= Allowed
        /\ Windows(q, limEvents[q], limPassed[q], limSeen[q])
        /\ q \notin limLate => InOrder(limPassed[q], limSeen[q])
    BY <2>1 DEF AttemptsInv
  <2>3. ASSUME NEW t \in Nat
        PROVE  InBucket(limEvents'[q], limPassed'[q], t)
               \/ Closed(limPassed[q], t, Cardinality(Coming(q, t)), limSeen[q], q, limLate)'
    <3>1. Cardinality(Coming(q, t)') = Cardinality(Coming(q, t))
      BY <1>4
    <3>2. InBucket(limEvents[q], limPassed[q], t)
          \/ Closed(limPassed[q], t, Cardinality(Coming(q, t)), limSeen[q], q, limLate)
      BY <2>2 DEF Windows
    <3>3. CASE InBucket(limEvents[q], limPassed[q], t)
      BY <3>3
    <3>4. CASE Closed(limPassed[q], t, Cardinality(Coming(q, t)), limSeen[q], q, limLate)
      BY <3>1, <3>4 DEF Closed
    <3> QED
      BY <3>2, <3>3, <3>4
  <2>4. Windows(q, limEvents[q], limPassed[q], limSeen[q])'
    BY <2>3 DEF Windows
  <2> QED
    BY <2>2, <2>4
<1>6. PICK e : e = Attempts!Of(limEvents, k)
  OBVIOUS
<1>7. PICK p : p = Attempts!Of(limPassed, k)
  OBVIOUS
<1>8. LastOf(e, p) /\ Len(e) <= Allowed /\ p \in Seq(Nat)
  BY <1>6, <1>7, BucketOf
<1>9. Window \in Nat
  BY OfficeAssumption DEF Attempts!LimiterConstants
<1>10. ASSUME k \in S
       PROVE  /\ limSeen'[k] \in 0..limClock'
              /\ LastOf(limEvents'[k], limPassed'[k]) /\ Len(limEvents'[k]) <= Allowed
              /\ Windows(k, limEvents[k], limPassed[k], limSeen[k])'
              /\ k \notin limLate' => InOrder(limPassed'[k], limSeen'[k])
  <2>a. PICK e2 : e2 = limEvents'[k]
    OBVIOUS
  <2>b. PICK p2 : p2 = limPassed'[k]
    OBVIOUS
  <2>1. \/ p2 = p /\ e2 = b
        \/ p2 = Append(p, now) /\ e2 = Append(b, now)
    BY <1>7, <1>10, <2>a, <2>b
  <2>2. LastOf(b, p)
    <3>1. now - Window \in Int
      BY <1>1, <1>9
    <3> QED
      BY <1>6, <1>8, <3>1, PoppedLast
  <2>3. LastOf(e2, p2)
    <3>1. CASE p2 = p /\ e2 = b
      BY <2>2, <3>1
    <3>2. CASE p2 = Append(p, now) /\ e2 = Append(b, now)
      BY <1>1, <2>2, <3>2, AppendLast
    <3> QED
      BY <2>1, <3>1, <3>2
  <2>4. PICK last \in Int : k \in Attempts!Known => last = limSeen[k]
    <3>1. k \in Attempts!Known => limSeen[k] \in Int
      BY DEF AttemptsInv
    <3> QED
      BY <3>1
  <2>5. k \notin Attempts!Known => Len(e) = 0 /\ Len(p) = 0
    <3>1. Len(<<>>) = 0
      OBVIOUS
    <3> QED
      BY <1>6, <1>7, <3>1, BucketOf
  <2>6. k \notin limLate' => k \notin limLate /\ (k \in Attempts!Known => last <= now)
    <3>1. k \notin limLate' => ~Attempts!IsLate(k, now)
      BY <1>10
    <3> QED
      BY <1>1, <1>10, <2>4, <3>1 DEF Attempts!IsLate
  <2>7. ASSUME NEW t \in Nat
        PROVE  InBucket(limEvents'[k], limPassed'[k], t)
               \/ Closed(limPassed[k], t, Cardinality(Coming(k, t)), limSeen[k], k, limLate)'
    <3>1. PICK n : n = Cardinality(Coming(k, t))
      OBVIOUS
    <3>2. PICK m : m = Cardinality(Coming(k, t) \ {r})
      OBVIOUS
    <3>3. /\ n \in Nat /\ m \in Nat /\ m <= n /\ IsFiniteSet(Coming(k, t))
          /\ r \in Coming(k, t) => m = n - 1
      <4>1. IsFiniteSet(Coming(k, t)) /\ n \in Nat
        BY <3>1, ComingFinite DEF Coming
      <4>2. m = IF r \in Coming(k, t) THEN n - 1 ELSE n
        BY <3>1, <3>2, <4>1, FS_RemoveElement
      <4>3. m \in Nat
        BY <3>2, <4>1, FS_RemoveElement, FS_CardinalityType
      <4> QED
        BY <4>1, <4>2, <4>3
    <3>4. m + 1 <= Cardinality(Requests)
      <4>1. IsFiniteSet(Requests) /\ Cardinality(Requests) \in Nat
        BY ComingFinite
      <4>2. IsFiniteSet(Requests \ {r})
                /\ Cardinality(Requests \ {r}) = Cardinality(Requests) - 1
        BY <4>1, FS_RemoveElement
      <4>3. m <= Cardinality(Requests \ {r})
        BY <3>2, <4>2, FS_Subset DEF Coming
      <4> QED
        BY <3>3, <4>1, <4>2, <4>3
    <3>5. now <= t => m + 1 <= n
      <4>1. now <= t => r \in Coming(k, t)
        BY DEF Coming
      <4> QED
        BY <3>3, <4>1
    <3>8. Cardinality(Coming(k, t)') = m
      BY <1>4, <3>2
    <3>9. InBucket(e, p, t) \/ Closed(p, t, n, last, k, limLate)
      <4>1. CASE k \in Attempts!Known
        <5>1. InBucket(limEvents[k], limPassed[k], t)
              \/ Closed(limPassed[k], t, n, limSeen[k], k, limLate)
          BY <3>1, <4>1 DEF AttemptsInv, Windows
        <5>2. e = limEvents[k] /\ p = limPassed[k] /\ last = limSeen[k]
          BY <1>6, <1>7, <2>4, <4>1, BucketOf
        <5> QED
          BY <5>1, <5>2 DEF Closed
      <4>2. CASE k \notin Attempts!Known
        <5>1. Attempts!Within(p, t - Window, t) = {}
          BY <1>8, <2>5, <4>2 DEF Attempts!Within
        <5> QED
          BY <5>1 DEF InBucket
      <4> QED
        BY <4>1, <4>2
    <3>a. /\ LastOf(e, p) /\ Len(e) <= Allowed /\ b = Attempts!Popped(e, now - Window)
          /\ now \in Nat /\ now <= limClock /\ limClock \in Nat
          /\ n \in Nat /\ m \in Nat /\ m <= n
      BY <1>1, <1>6, <1>8, <3>3
    <3>10. InBucket(e2, p2, t) \/ Closed(p2, t, m, now, k, limLate')
      <4>1. CASE k \in Attempts!Known
        <5>1. k \notin limLate' => k \notin limLate /\ last <= now
          BY <2>6, <4>1
        <5>2. Handled(e, p, e2, p2, now, t, n, m, last, k, limLate, limLate')
          BY <2>1, <2>4, <2>7, <3>a, <3>4, <3>5, <3>9, <5>1 DEF Handled
        <5> QED
          BY <5>2, WindowKeeps
      <4>2. CASE k \notin Attempts!Known
        <5>1. InBucket(e, p, t)
          <6>1. Attempts!Within(p, t - Window, t) = {}
            BY <1>8, <2>5, <4>2 DEF Attempts!Within
          <6> QED
            BY <6>1 DEF InBucket
        <5>2. (k \notin limLate' => k \notin limLate /\ now <= now) /\ now \in Int
          BY <1>1, <2>6
        <5>3. Handled(e, p, e2, p2, now, t, n, m, now, k, limLate, limLate')
          BY <2>1, <2>7, <3>a, <3>4, <3>5, <5>1, <5>2 DEF Handled
        <5> QED
          BY <5>3, WindowKeeps
      <4> QED
        BY <4>1, <4>2
    <3>11. CASE InBucket(e2, p2, t)
      BY <2>a, <2>b, <3>11
    <3>12. CASE Closed(p2, t, m, now, k, limLate')
      BY <1>10, <2>b, <3>8, <3>12 DEF Closed
    <3> QED
      BY <3>10, <3>11, <3>12
  <2>8. Windows(k, limEvents[k], limPassed[k], limSeen[k])'
    BY <2>7 DEF Windows
  <2>9. k \notin limLate' => InOrder(limPassed'[k], limSeen'[k])
    <3> SUFFICES ASSUME k \notin limLate' PROVE InOrder(p2, now)
      BY <1>10, <2>b
    <3>1. PICK x \in Int : InOrder(p, x) /\ x <= now
      <4>1. CASE k \in Attempts!Known
        <5>1. p = limPassed[k] /\ last = limSeen[k] /\ last <= now /\ k \notin limLate
          BY <1>7, <2>4, <2>6, <4>1, BucketOf
        <5>2. InOrder(p, last)
          BY <4>1, <5>1 DEF AttemptsInv
        <5> QED
          BY <5>1, <5>2
      <4>2. CASE k \notin Attempts!Known
        <5>1. InOrder(p, now)
          BY <2>5, <4>2 DEF InOrder
        <5> QED
          BY <1>1, <5>1
      <4> QED
        BY <4>1, <4>2
    <3>2. InOrder(p, now) /\ InOrder(Append(p, now), now)
      BY <1>1, <1>8, <3>1, InOrderAppended
    <3> QED
      BY <2>1, <3>2
  <2>10. limSeen'[k] \in 0..limClock'
    BY <1>1, <1>10
  <2> QED
    BY <1>10, <2>a, <2>b, <2>3, <2>8, <2>9, <2>10
<1>11. \A q \in Requests : limWork'[q] = Attempts!Idle
         \/ (limWork'[q] \in [key : Callers, now : Nat] /\ limWork'[q].now <= limClock')
  BY <1>2 DEF AttemptsInv
<1>12. \A q \in Attempts!Known' :
        /\ limSeen'[q] \in 0..limClock'
        /\ LastOf(limEvents'[q], limPassed'[q]) /\ Len(limEvents'[q]) <= Allowed
        /\ Windows(q, limEvents[q], limPassed[q], limSeen[q])'
        /\ q \notin limLate' => InOrder(limPassed'[q], limSeen'[q])
  BY <1>3, <1>5, <1>10
<1>13. Attempts!Known' \subseteq Callers /\ (~limShared'
           => Cardinality(Attempts!Known') <= MaxCallers)
       /\ limLate' \subseteq Attempts!Known' /\ Requests # {}
       /\ DOMAIN limSeen' = Attempts!Known' /\ DOMAIN limPassed' = Attempts!Known'
  BY <1>1, <1>3 DEF AttemptsInv
<1> QED
  BY <1>2, <1>11, <1>12, <1>13 DEF AttemptsInv


\* A clock that goes on only closes windows.
LEMMA TickKeeps == ASSUME AttemptsInv, Attempts!Tick PROVE AttemptsInv'
<1>1. /\ limClock \in Nat /\ limClock' = limClock + 1 /\ Attempts!Known' = Attempts!Known
      /\ UNCHANGED <<limShared, limEvents, limSeen, limWork, limPassed, limLate, limUnjust>>
  BY DEF AttemptsInv, Attempts!Tick, Attempts!Known
<1>2. ASSUME NEW k \in Attempts!Known PROVE Windows(k, limEvents[k], limPassed[k], limSeen[k])'
  <2>1. Windows(k, limEvents[k], limPassed[k], limSeen[k])
    BY DEF AttemptsInv
  <2>2. ASSUME NEW t \in Nat
        PROVE  InBucket(limEvents'[k], limPassed'[k], t)
               \/ Closed(limPassed[k], t, Cardinality(Coming(k, t)), limSeen[k], k, limLate)'
    <3>1. PICK n : n = Cardinality(Coming(k, t))
      OBVIOUS
    <3>2. PICK m : m = Cardinality(Coming(k, t)')
      OBVIOUS
    <3>3. \A r \in Requests : limWork[r] # Attempts!Idle
              => Attempts!Time(r) <= Attempts!Time(r)' /\ Attempts!Time(r) \in Nat
                                                            /\ Attempts!Time(r)' \in Nat
      <4>1. \A r \in Requests : limWork[r] # Attempts!Idle =>
               limWork[r] \in [key : Callers, now : Nat] /\ limWork[r].now <= limClock
        BY DEF AttemptsInv
      <4>2. \A r \in Requests : limWork[r] # Attempts!Idle => limWork[r].now \in Nat
        BY <4>1
      <4> QED
        BY <1>1, <4>2 DEF Attempts!Time
    <3>4. Coming(k, t)' \subseteq Coming(k, t)
      BY <1>1, <2>2, <3>3 DEF Coming
    <3>5. n \in Nat /\ m \in Nat /\ m <= n
      <4>1. Coming(k, t) \in SUBSET Requests
        BY DEF Coming
      <4>2. IsFiniteSet(Coming(k, t)) /\ n \in Nat
        BY <3>1, <4>1, ComingFinite
      <4> QED
        BY <3>1, <3>2, <3>4, <4>2, FS_Subset, FS_CardinalityType
    <3>6. InBucket(limEvents[k], limPassed[k], t)
              \/ Closed(limPassed[k], t, n, limSeen[k], k, limLate)
      BY <2>1, <2>2, <3>1 DEF Windows
    <3>7. CASE InBucket(limEvents[k], limPassed[k], t)
      BY <1>1, <3>7
    <3>8. CASE Closed(limPassed[k], t, n, limSeen[k], k, limLate)
      <4>1. PICK c : c = Cardinality(Attempts!Within(limPassed[k], t - Window, t))
        OBVIOUS
      <4>2. c \in Nat /\ Allowed \in Nat /\ Cardinality(Requests) \in Nat
        <5>1. limPassed[k] \in Seq(Nat)
          BY DEF AttemptsInv, LastOf
        <5> QED
          BY <2>2, <4>1, <5>1, WindowFinite, OfficeAssumption, RegistryAssumption,
             FS_CardinalityType
             DEF Attempts!LimiterConstants
      <4>3. /\ limClock > t /\ c + n <= Allowed + Cardinality(Requests) - 1
            /\ k \notin limLate => limSeen[k] > t /\ c <= Allowed
        BY <3>8, <4>1 DEF Closed
      <4>4. limClock' > t /\ c + m <= Allowed + Cardinality(Requests) - 1
        BY <1>1, <2>2, <3>5, <4>2, <4>3
      <4> QED
        BY <1>1, <3>2, <4>1, <4>3, <4>4 DEF Closed
    <3> QED
      BY <3>6, <3>7, <3>8
  <2> QED
    BY <2>2 DEF Windows
<1>3. \A k \in Attempts!Known : limSeen[k] \in 0..limClock'
  BY <1>1 DEF AttemptsInv
<1>4. \A r \in Requests : limWork[r] = Attempts!Idle
                         \/ (limWork[r] \in [key : Callers, now : Nat]
                              /\ limWork[r].now <= limClock')
  <2>1. \A w \in [key : Callers, now : Nat] : w.now \in Nat
    OBVIOUS
  <2> QED
    BY <1>1, <2>1 DEF AttemptsInv
<1> QED
  BY <1>1, <1>2, <1>3, <1>4 DEF AttemptsInv

\* Who comes takes the time of the clock: he comes into no window that is closed.
LEMMA ArriveKeeps == ASSUME AttemptsInv, NEW r \in Requests, Attempts!Arrive(r)
    PROVE AttemptsInv'
<1>1. /\ limWork[r] = Attempts!Idle /\ Attempts!Known' = Attempts!Known /\ limClock \in Nat
      /\ UNCHANGED <<limShared, limClock, limEvents, limSeen, limPassed, limLate, limUnjust>>
  BY DEF AttemptsInv, Attempts!Arrive, Attempts!Known
<1>2. PICK w \in [key : Callers, now : Nat] :
        /\ limWork' = [limWork EXCEPT ![r] = w] /\ w.now <= limClock /\ (~limShared
             => w.now = limClock)
  <2>1. PICK k \in Callers :
          limWork' = [limWork EXCEPT ![r] = [key |-> k, now |-> IF limShared THEN 0
              ELSE limClock]]
    BY DEF Attempts!Arrive
  <2>2. PICK n : n = IF limShared THEN 0 ELSE limClock
    OBVIOUS
  <2>3. n \in Nat /\ n <= limClock /\ (~limShared => n = limClock)
    BY <1>1, <2>2
  <2>4. PICK w : w = [key |-> k, now |-> n]
    OBVIOUS
  <2>5. w \in [key : Callers, now : Nat] /\ w.now = n /\ limWork' = [limWork EXCEPT ![r] = w]
    BY <2>1, <2>2, <2>3, <2>4
  <2> QED
    BY <2>3, <2>5
<1>3. /\ limWork' = [q \in Requests |-> limWork'[q]]
      /\ \A q \in Requests : limWork'[q] = IF q = r THEN w ELSE limWork[q]
  BY <1>2 DEF AttemptsInv
<1>4. Attempts!Time(r)' = limClock /\ \A q \in Requests : q # r
          => Attempts!Time(q)' = Attempts!Time(q)
  BY <1>1, <1>2, <1>3 DEF Attempts!Time
<1>5. ASSUME NEW k \in Attempts!Known PROVE Windows(k, limEvents[k], limPassed[k], limSeen[k])'
  <2>1. Windows(k, limEvents[k], limPassed[k], limSeen[k])
    BY DEF AttemptsInv
  <2>2. ASSUME NEW t \in Nat
        PROVE  InBucket(limEvents'[k], limPassed'[k], t)
               \/ Closed(limPassed[k], t, Cardinality(Coming(k, t)), limSeen[k], k, limLate)'
    <3>1. InBucket(limEvents[k], limPassed[k], t)
          \/ Closed(limPassed[k], t, Cardinality(Coming(k, t)), limSeen[k], k, limLate)
      BY <2>1, <2>2 DEF Windows
    <3>2. CASE InBucket(limEvents[k], limPassed[k], t)
      BY <1>1, <3>2
    <3>3. CASE Closed(limPassed[k], t, Cardinality(Coming(k, t)), limSeen[k], k, limLate)
      <4>1. ~(limClock <= t)
        BY <1>1, <2>2, <3>3 DEF Closed
      <4>2. Coming(k, t)' = Coming(k, t)
        BY <1>1, <1>3, <1>4, <4>1 DEF Coming
      <4> QED
        BY <1>1, <3>3, <4>2 DEF Closed
    <3> QED
      BY <3>1, <3>2, <3>3
  <2> QED
    BY <2>2 DEF Windows
<1>6. \A q \in Requests : limWork'[q] = Attempts!Idle
                         \/ (limWork'[q] \in [key : Callers, now : Nat]
                              /\ limWork'[q].now <= limClock)
  BY <1>2, <1>3 DEF AttemptsInv
<1> QED
  BY <1>1, <1>3, <1>5, <1>6 DEF AttemptsInv

\* Those that stay with a new key are not more than MaxKeys.
LEMMA StayingBounded ==
  ASSUME AttemptsInv, NEW k \in Callers, NEW x,
      NEW S \in Attempts!Staying(Attempts!With(limSeen, k, x))
  PROVE  S \subseteq Attempts!Known \cup {k} /\ (~limShared => Cardinality(S) <= MaxCallers)
<1>1. PICK seen : seen = Attempts!With(limSeen, k, x)
  OBVIOUS
<1>2. PICK D : D = Attempts!Known \cup {k}
  OBVIOUS
<1>3. DOMAIN seen = D
  BY <1>1, <1>2 DEF Attempts!With, AttemptsInv
<1>4. /\ IsFiniteSet(Attempts!Known) /\ IsFiniteSet(D) /\ MaxCallers \in Nat
           /\ Cardinality(Attempts!Known) \in Nat
      /\ Cardinality(D) \in Nat /\ Cardinality(D) <= Cardinality(Attempts!Known) + 1
  <2>1. IsFiniteSet(Attempts!Known) /\ MaxCallers \in Nat
    BY OfficeAssumption, CountedSets, FS_Subset DEF AttemptsInv, Attempts!LimiterConstants
  <2> QED
    <3>1. IsFiniteSet(D) /\ (Cardinality(D) = Cardinality(Attempts!Known)
                                      \/ Cardinality(D) = Cardinality(Attempts!Known) + 1)
      BY <1>2, <2>1, FS_AddElement
    <3>2. Cardinality(Attempts!Known) \in Nat
      BY <2>1, FS_CardinalityType
    <3> QED
      BY <2>1, <3>1, <3>2
<1>5. CASE limShared \/ Cardinality(D) <= MaxCallers
  <2>1. S = D
    BY <1>1, <1>3, <1>5, SameCounts DEF Attempts!Staying
  <2> QED
    BY <1>2, <1>5, <2>1
<1>6. CASE ~(limShared \/ Cardinality(D) <= MaxCallers)
  <2>1. PICK q \in D : S = D \ {q}
    BY <1>1, <1>3, <1>6, SameCounts DEF Attempts!Staying
  <2>2. Cardinality(S) = Cardinality(D) - 1
    BY <1>4, <2>1, FS_RemoveElement
  <2>3. ~limShared => Cardinality(Attempts!Known) <= MaxCallers
    BY DEF AttemptsInv
  <2> QED
    BY <1>2, <1>4, <2>1, <2>2, <2>3
<1> QED
  BY <1>5, <1>6

LEMMA PassKeeps == ASSUME AttemptsInv, NEW r \in Requests, Attempts!Pass(r) PROVE AttemptsInv'
<1>1. PICK k : k = limWork[r].key
  OBVIOUS
<1>2. PICK now : now = Attempts!Time(r)
  OBVIOUS
<1>3. PICK b : b = Attempts!Popped(Attempts!Of(limEvents, k), now - Window)
  OBVIOUS
<1>4. /\ limWork[r] # Attempts!Idle /\ Len(b) < Allowed
           /\ limWork' = [limWork EXCEPT ![r] = Attempts!Idle]
      /\ UNCHANGED <<limShared, limClock, limUnjust>>
  BY <1>1, <1>2, <1>3 DEF Attempts!Pass
<1>5. PICK S \in Attempts!Staying(Attempts!With(limSeen, k, now)) :
       /\ limEvents' = Attempts!Only(Attempts!With(limEvents, k, Append(b, now)), S)
       /\ limSeen' = Attempts!Only(Attempts!With(limSeen, k, now), S)
       /\ limPassed' = Attempts!Only(Attempts!With(limPassed, k,
            Append(Attempts!Of(limPassed, k), now)), S)
       /\ limLate' = S \cap (limLate \cup {q \in {k} : Attempts!IsLate(q, now)})
  BY <1>1, <1>2, <1>3 DEF Attempts!Pass
<1>6. k \in Callers /\ now \in Nat /\ Window \in Nat /\ Allowed \in Nat
  BY <1>1, <1>2, <1>4, TimeOf, OfficeAssumption DEF Attempts!LimiterConstants
<1>7. S \subseteq Attempts!Known \cup {k} /\ (~limShared => Cardinality(S) <= MaxCallers)
  BY <1>6, StayingBounded
<1>8. ASSUME NEW f, NEW x, DOMAIN f = Attempts!Known
      PROVE  /\ DOMAIN Attempts!Only(Attempts!With(f, k, x), S) = S
             /\ \A q \in S \ {k} : Attempts!Only(Attempts!With(f, k, x), S)[q] = f[q]
             /\ k \in S => Attempts!Only(Attempts!With(f, k, x), S)[k] = x
  BY <1>7, <1>8 DEF Attempts!Only, Attempts!With
<1>9. DOMAIN limEvents = Attempts!Known /\ DOMAIN limPassed = Attempts!Known
          /\ DOMAIN limSeen = Attempts!Known
  BY DEF AttemptsInv, Attempts!Known
<1>10. Len(Append(b, now)) <= Allowed
  <2>1. LastOf(b, Attempts!Of(limPassed, k))
    <3>1. LastOf(Attempts!Of(limEvents, k), Attempts!Of(limPassed, k)) /\ now - Window \in Int
      BY <1>6, BucketOf
    <3> QED
      BY <1>3, <3>1, PoppedLast
  <2>2. b \in Seq(Nat)
    BY <2>1 DEF LastOf
  <2> QED
    BY <1>4, <1>6, <2>2
<1>11. /\ DOMAIN limEvents' = S /\ DOMAIN limPassed' = S /\ DOMAIN limSeen' = S
       /\ \A q \in S \ {k} : limEvents'[q] = limEvents[q] /\ limPassed'[q] = limPassed[q]
                             /\ limSeen'[q] = limSeen[q]
       /\ k \in S => limEvents'[k] = Append(b, now)
            /\ limPassed'[k] = Append(Attempts!Of(limPassed, k), now)
                     /\ limSeen'[k] = now
  BY <1>5, <1>8, <1>9
<1>12. /\ limLate' \subseteq S
       /\ \A q \in S \ {k} : (q \in limLate' <=> q \in limLate)
       /\ k \in S => (k \in limLate \/ Attempts!IsLate(k, now) => k \in limLate')
  BY <1>5
<1>13. limUnjust' = FALSE
  BY <1>4 DEF AttemptsInv
<1>14. Called(r, k, now, b, S)
  BY <1>1, <1>2, <1>3, <1>4, <1>7, <1>10, <1>11, <1>12, <1>13 DEF Called
<1> QED
  BY <1>14, CallKeeps

\* Without lateness the bucket lies in the window that ends now.
LEMMA BucketInWindow ==
  ASSUME NEW e, NEW p, LastOf(e, p), NEW now \in Nat, NEW last \in Nat, last <= now,
         InOrder(p, last), NEW b, b = Attempts!Popped(e, now - Window)
  PROVE  Len(b) <= Cardinality(Attempts!Within(p, now - Window, now))
<1>1. Window \in Nat /\ now - Window \in Int
  BY OfficeAssumption DEF Attempts!LimiterConstants
<1>2. LastOf(b, p) /\ (Len(b) > 0 => p[Len(p) - Len(b) + 1] > now - Window)
  BY <1>1, PoppedLast
<1>3. Len(p) \in Nat /\ Len(b) \in Nat /\ Len(b) <= Len(p) /\ p \in Seq(Nat)
  BY <1>2 DEF LastOf
<1>4. PICK D : D = Len(p) - Len(b)
  OBVIOUS
<1>5. D \in Nat /\ D + 1 \in Int /\ Len(p) \in Int
  BY <1>3, <1>4
<1>6. ASSUME NEW i \in (D + 1)..Len(p) PROVE i \in Attempts!Within(p, now - Window, now)
  <2>1. i \in 1..Len(p) /\ D + 1 \in 1..Len(p) /\ D + 1 <= i /\ Len(b) > 0
    BY <1>3, <1>4, <1>5
  <2>2. p[D + 1] <= p[i] /\ p[i] <= last
    BY <2>1 DEF InOrder
  <2>3. p[D + 1] > now - Window
    BY <1>2, <1>3, <1>4, <2>1
  <2>4. p[i] \in Nat /\ p[D + 1] \in Nat /\ i \in DOMAIN p
    BY <1>3, <2>1
  <2>5. p[i] > now - Window /\ p[i] <= now
    BY <1>1, <2>2, <2>3, <2>4
  <2> QED
    BY <2>4, <2>5 DEF Attempts!Within
<1>7. Cardinality((D + 1)..Len(p)) = Len(b)
  <2>1. \A x, y \in Int : Cardinality(x..y) = IF x > y THEN 0 ELSE y - x + 1
    BY FS_Interval
  <2>2. Cardinality((D + 1)..Len(p)) = IF D + 1 > Len(p) THEN 0 ELSE Len(p) - (D + 1) + 1
    BY <1>5, <2>1
  <2> QED
    BY <1>3, <1>4, <1>5, <2>2
<1>8. IsFiniteSet(Attempts!Within(p, now - Window, now))
  BY <1>1, <1>3, WindowFinite
<1>9. (D + 1)..Len(p) \subseteq Attempts!Within(p, now - Window, now)
  BY <1>6
<1>10. Cardinality((D + 1)..Len(p)) <= Cardinality(Attempts!Within(p, now - Window, now))
  BY <1>8, <1>9, FS_Subset
<1> QED
  BY <1>7, <1>10

LEMMA RefuseKeeps == ASSUME AttemptsInv, NEW r \in Requests, Attempts!Refuse(r)
    PROVE AttemptsInv'
<1>1. PICK k : k = limWork[r].key
  OBVIOUS
<1>2. PICK now : now = Attempts!Time(r)
  OBVIOUS
<1>3. PICK b : b = Attempts!Popped(Attempts!Of(limEvents, k), now - Window)
  OBVIOUS
<1>4. /\ limWork[r] # Attempts!Idle /\ Len(b) >= Allowed
           /\ limWork' = [limWork EXCEPT ![r] = Attempts!Idle]
      /\ limEvents' = Attempts!With(limEvents, k, b)
           /\ limSeen' = Attempts!With(limSeen, k, now)
      /\ limLate' = limLate \cup {q \in {k} : Attempts!IsLate(q, now)}
      /\ UNCHANGED <<limShared, limClock, limPassed>>
  BY <1>1, <1>2, <1>3 DEF Attempts!Refuse
<1>5. limUnjust' = (limUnjust \/ /\ k \notin limLate'
                                 /\ Cardinality(Attempts!Within(Attempts!Of(limPassed, k),
                                      now - Window, now)) < Allowed)
  BY <1>1, <1>2, SameCounts DEF Attempts!Refuse
<1>6. k \in Callers /\ now \in Nat /\ Window \in Nat /\ Allowed \in Nat /\ Allowed > 0
      /\ now - Window \in Int
  BY <1>1, <1>2, <1>4, TimeOf, OfficeAssumption DEF Attempts!LimiterConstants
<1>7. /\ LastOf(Attempts!Of(limEvents, k), Attempts!Of(limPassed, k))
           /\ Len(Attempts!Of(limEvents, k)) <= Allowed
      /\ k \in Attempts!Known => Attempts!Of(limEvents, k) = limEvents[k]
           /\ Attempts!Of(limPassed, k) = limPassed[k]
      /\ k \notin Attempts!Known
           => Attempts!Of(limEvents, k) = <<>> /\ Attempts!Of(limPassed, k) = <<>>
  BY BucketOf
<1>8. /\ LastOf(b, Attempts!Of(limPassed, k)) /\ Len(b) <= Len(Attempts!Of(limEvents, k))
           /\ Len(b) \in Nat
      /\ Len(Attempts!Of(limEvents, k)) \in Nat /\ Len(Attempts!Of(limPassed, k)) \in Nat
      /\ Len(b) <= Len(Attempts!Of(limPassed, k))
  <2>1. LastOf(b, Attempts!Of(limPassed, k)) /\ Len(b) <= Len(Attempts!Of(limEvents, k))
    BY <1>3, <1>6, <1>7, PoppedLast
  <2> QED
    BY <1>7, <2>1 DEF LastOf
<1>9. k \in Attempts!Known
  <2>1. Len(<<>>) = 0
    OBVIOUS
  <2> QED
    BY <1>4, <1>6, <1>7, <1>8, <2>1
<1>10. DOMAIN limEvents = Attempts!Known /\ DOMAIN limPassed = Attempts!Known
           /\ DOMAIN limSeen = Attempts!Known
       /\ limLate \subseteq Attempts!Known
  BY DEF AttemptsInv, Attempts!Known
<1>11. /\ DOMAIN limEvents' = Attempts!Known /\ DOMAIN limPassed' = Attempts!Known
            /\ DOMAIN limSeen' = Attempts!Known
       /\ \A q \in Attempts!Known \ {k} : limEvents'[q] = limEvents[q]
            /\ limPassed'[q] = limPassed[q]
                                         /\ limSeen'[q] = limSeen[q]
       /\ limEvents'[k] = b /\ limPassed'[k] = Attempts!Of(limPassed, k) /\ limSeen'[k] = now
  BY <1>4, <1>7, <1>9, <1>10 DEF Attempts!With
<1>12. /\ limLate' \subseteq Attempts!Known
       /\ \A q \in Attempts!Known \ {k} : (q \in limLate' <=> q \in limLate)
       /\ k \in limLate \/ Attempts!IsLate(k, now) => k \in limLate'
  BY <1>4, <1>9, <1>10
<1>13. limUnjust' = FALSE
  <2> SUFFICES ASSUME k \notin limLate'
               PROVE  ~(Cardinality(Attempts!Within(Attempts!Of(limPassed, k), now - Window,
                   now)) < Allowed)
    BY <1>5 DEF AttemptsInv
  <2>1. k \notin limLate /\ limSeen[k] \in 0..limClock /\ limClock \in Nat
    BY <1>9, <1>12 DEF AttemptsInv
  <2>2. limSeen[k] \in Nat /\ limSeen[k] <= now
    BY <1>6, <1>9, <1>12, <2>1 DEF Attempts!IsLate
  <2>3. InOrder(Attempts!Of(limPassed, k), limSeen[k])
    BY <1>7, <1>9, <2>1 DEF AttemptsInv
  <2>4. Len(b) <= Cardinality(Attempts!Within(Attempts!Of(limPassed, k), now - Window, now))
    BY <1>3, <1>6, <1>7, <2>2, <2>3, BucketInWindow
  <2>5. Attempts!Of(limPassed, k) \in Seq(Nat)
    BY <1>7 DEF LastOf
  <2>6. Cardinality(Attempts!Within(Attempts!Of(limPassed, k), now - Window, now)) \in Nat
    BY <1>6, <2>5, WindowFinite
  <2> QED
    BY <1>4, <1>6, <1>8, <2>4, <2>6
<1>14. Len(b) <= Allowed /\ (~limShared => Cardinality(Attempts!Known) <= MaxCallers)
  BY <1>6, <1>7, <1>8 DEF AttemptsInv
<1>15. Called(r, k, now, b, Attempts!Known)
  BY <1>1, <1>2, <1>3, <1>4, <1>9, <1>11, <1>12, <1>13, <1>14 DEF Called
<1> QED
  BY <1>15, CallKeeps

LEMMA AttemptsStep == AttemptsInv /\ Attempts!Next => AttemptsInv'
BY TickKeeps, ArriveKeeps, RefuseKeeps, PassKeeps DEF Attempts!Next

LEMMA AttemptsStay == AttemptsInv /\ UNCHANGED Attempts!vars => AttemptsInv'
<1> SUFFICES ASSUME AttemptsInv, UNCHANGED Attempts!vars PROVE AttemptsInv'
  OBVIOUS
<1>1. UNCHANGED <<limShared, limClock, limEvents, limSeen, limWork, limPassed, limLate,
          limUnjust>>
  BY DEF Attempts!vars
<1>2. Attempts!Known' = Attempts!Known
  BY <1>1 DEF Attempts!Known
<1>3. \A k, e, p, last : Windows(k, e, p, last) = Windows(k, e, p, last)'
  BY <1>1 DEF Windows, Closed, Coming, Attempts!Time
<1> QED
  BY <1>1, <1>2, <1>3 DEF AttemptsInv

LEMMA AttemptsHold == AttemptsInv
    => Attempts!WindowHolds /\ Attempts!RefusedForCause /\ Attempts!TableBounded
<1> SUFFICES ASSUME AttemptsInv
        PROVE Attempts!WindowHolds /\ Attempts!RefusedForCause /\ Attempts!TableBounded
  OBVIOUS
<1>1. ASSUME NEW k \in Attempts!Known, NEW t \in 0..limClock
      PROVE  Cardinality(Attempts!Within(limPassed[k], t - Window, t))
               <= Allowed + (IF k \in limLate THEN Cardinality(Requests) - 1 ELSE 0)
  <2>1. limClock \in Nat /\ t \in Nat
    BY <1>1 DEF AttemptsInv
  <2>2. PICK c : c = Cardinality(Attempts!Within(limPassed[k], t - Window, t))
    OBVIOUS
  <2>3. PICK n : n = Cardinality(Coming(k, t))
    OBVIOUS
  <2>4. LastOf(limEvents[k], limPassed[k]) /\ Len(limEvents[k]) <= Allowed
            /\ limPassed[k] \in Seq(Nat)
    BY <1>1 DEF AttemptsInv, LastOf
  <2>5. c \in Nat /\ n \in Nat /\ Allowed \in Nat /\ Cardinality(Requests) \in Nat
        /\ Cardinality(Requests) > 0
    <3>1. Window \in Int /\ Allowed \in Nat /\ IsFiniteSet(Requests)
      BY OfficeAssumption, RegistryAssumption DEF Attempts!LimiterConstants
    <3>2. c \in Nat
      BY <2>1, <2>2, <2>4, <3>1, WindowFinite
    <3>3. n \in Nat
      BY <2>3, ComingFinite DEF Coming
    <3>4. Requests # {}
      BY <1>1 DEF AttemptsInv
    <3> QED
      BY <3>1, <3>2, <3>3, <3>4, FS_CardinalityType, FS_EmptySet
  <2>6. CASE InBucket(limEvents[k], limPassed[k], t)
    <3>1. c <= Allowed
      BY <2>1, <2>2, <2>4, <2>6, BucketBounds
    <3> QED
      BY <2>2, <2>5, <3>1
  <2>7. CASE Closed(limPassed[k], t, n, limSeen[k], k, limLate)
    <3>1. c + n <= Allowed + Cardinality(Requests) - 1 /\ (k \notin limLate => c <= Allowed)
      BY <2>2, <2>7 DEF Closed
    <3> QED
      BY <2>2, <2>5, <3>1
  <2> QED
    BY <1>1, <2>1, <2>3, <2>6, <2>7 DEF AttemptsInv, Windows
<1> QED
  BY <1>1, SameCounts DEF AttemptsInv, Attempts!WindowHolds, Attempts!RefusedForCause,
     Attempts!TableBounded

----------------------------------------------------------------------------------
(* Rights: a request is about to give what the school was given                     *)

Granted(perm, scope) == <<perm, "school">> \in introduced \/ <<perm, scope>> \in introduced
May(u, perm) == u = Super \/ <<perm, "school">> \in introduced

\* Whoever asked could hand on what the request is about to commit.
MayAsk(w) ==
  /\ "op" \in DOMAIN w
  /\ w.op = "link" =>
       \A l \in w.add : w.by = Super \/ Granted(l[2], l[3])
  /\ w.op = "delegate" => w.by = Super \/ Granted(w.new[2], w.new[3])
  /\ w.op = "profile" => \A perm \in ProfilePermissions[w.post] : May(w.by, perm)
  /\ w.op = "first" => Rights!GivenWith(Profiles) \subseteq introduced

RightsInv ==
  /\ granting = [r \in Requests |-> granting[r]]
  /\ \A r \in Requests : MayAsk(granting[r])
  /\ \A l \in links : Granted(l[2], l[3])
  /\ \A d \in delegated : Granted(d[2], d[3])

LEMMA RightsBegin == granting = [r \in Requests |-> Rights!Idle] /\ Rights!NothingWidens
    => RightsInv
<1> SUFFICES ASSUME granting = [r \in Requests |-> Rights!Idle], Rights!NothingWidens
        PROVE RightsInv
  OBVIOUS
<1>1. Rights!Idle.op = "none" /\ "op" \in DOMAIN Rights!Idle /\ \A r \in Requests :
          granting[r] = Rights!Idle
  BY DEF Rights!Idle
<1> QED
  BY <1>1 DEF RightsInv, Rights!NothingWidens, MayAsk, Granted

LEMMA MoreIntroduced ==
  ASSUME introduced \subseteq introduced'
  PROVE  /\ \A perm, scope : Granted(perm, scope) => Granted(perm, scope)'
         /\ \A u, perm : May(u, perm) => May(u, perm)'
         /\ \A w : MayAsk(w) => MayAsk(w)'
BY DEF Granted, May, MayAsk

\* One request's step: what it leaves in its session, what it adds to the tables.
LEMMA RightsKept ==
  ASSUME RightsInv, NEW r \in Requests, NEW w, granting' = [granting EXCEPT ![r] = w],
         introduced \subseteq introduced', MayAsk(w)',
         \A l \in links' : l \in links \/ Granted(l[2], l[3])',
         \A d \in delegated' : d \in delegated \/ Granted(d[2], d[3])'
  PROVE  RightsInv'
<1>1. \A q \in Requests : granting'[q] = IF q = r THEN w ELSE granting[q]
  BY DEF RightsInv
<1>2. granting' = [q \in Requests |-> granting'[q]]
  BY DEF RightsInv
<1>3. ASSUME NEW q \in Requests PROVE MayAsk(granting[q])'
  <2>1. PICK v : v = granting'[q]
    OBVIOUS
  <2>2. MayAsk(v)'
    BY <1>1, <2>1, MoreIntroduced DEF RightsInv
  <2> QED
    BY <2>1, <2>2 DEF MayAsk
<1>4. \A l \in links' : Granted(l[2], l[3])'
  BY MoreIntroduced DEF RightsInv
<1>5. \A d \in delegated' : Granted(d[2], d[3])'
  BY MoreIntroduced DEF RightsInv
<1> QED
  BY <1>2, <1>3, <1>4, <1>5 DEF RightsInv

LEMMA MayGrant ==
  ASSUME RightsInv, NEW u, NEW perm, Rights!CanGrant(u, perm)
  PROVE  May(u, perm)
<1>1. CASE u = Super
  BY <1>1 DEF May
<1>2. CASE u # Super
  <2>1. PICK p \in Posts : <<p, perm, "school">> \in links
    BY <1>2 DEF Rights!CanGrant, Rights!Posted
  <2>2. PICK l \in links : l = <<p, perm, "school">>
    BY <2>1
  <2>3. Granted(l[2], l[3])
    BY DEF RightsInv
  <2> QED
    BY <2>2, <2>3 DEF Granted, May
<1> QED
  BY <1>1, <1>2

LEMMA RightsStep == RightsInv /\ [Rights!Next]_Rights!vars => RightsInv'
<1> SUFFICES ASSUME RightsInv, [Rights!Next]_Rights!vars PROVE RightsInv'
  OBVIOUS
<1>t. \A r \in Requests : MayAsk(granting[r])
  BY DEF RightsInv
<1>b. ASSUME NEW r \in Requests, NEW w, Rights!Begin(r, w), MayAsk(w) PROVE RightsInv'
  <2>1. granting' = [granting EXCEPT ![r] = w] /\ UNCHANGED <<links, delegated, introduced>>
    BY <1>b DEF Rights!Begin
  <2>2. MayAsk(w)'
    BY <1>b, <2>1, MoreIntroduced
  <2> QED
    BY <2>1, <2>2, RightsKept
<1>1. CASE UNCHANGED Rights!vars
  BY <1>1 DEF Rights!vars, RightsInv, MayAsk, Granted, May
<1>2. ASSUME NEW r \in Requests, NEW u \in Rights!Actors, NEW post \in Posts,
             NEW perms \in SUBSET Permissions, NEW scope \in Rights!Scopes,
             Rights!BeginLink(r, u, post, perms, scope)
      PROVE  RightsInv'
  <2>1. PICK add : add = {<<post, perm, scope>> : perm \in perms} \ links
    OBVIOUS
  <2>2. PICK w : w = [op |-> "link", by |-> u, add |-> add]
    OBVIOUS
  <2>3. Rights!Begin(r, w)
    BY <1>2, <2>1, <2>2 DEF Rights!BeginLink
  <2>4. ASSUME NEW l \in add PROVE u = Super \/ Granted(l[2], l[3])
    <3>1. PICK perm \in perms : l = <<post, perm, scope>>
      BY <2>1, <2>4
    <3>2. May(u, perm)
      BY <1>2, MayGrant DEF Rights!BeginLink
    <3> QED
      BY <3>1, <3>2 DEF May, Granted
  <2>5. w.op = "link" /\ "op" \in DOMAIN w /\ w.by = u /\ w.add = add
    BY <2>2
  <2>6. MayAsk(w)
    BY <2>4, <2>5 DEF MayAsk
  <2> QED
    BY <1>b, <2>3, <2>6
<1>3. ASSUME NEW r \in Requests, NEW u, NEW l, Rights!BeginUnlink(r, u, l) PROVE RightsInv'
  <2>1. PICK w : w = [op |-> "unlink", link |-> l]
    OBVIOUS
  <2>2. Rights!Begin(r, w) /\ w.op = "unlink" /\ "op" \in DOMAIN w
    BY <1>3, <2>1 DEF Rights!BeginUnlink
  <2> QED
    BY <1>b, <2>2 DEF MayAsk
<1>4. ASSUME NEW r \in Requests, NEW u, NEW to, NEW post, Rights!BeginPost(r, u, to, post)
      PROVE  RightsInv'
  <2>1. PICK w : w = [op |-> "post", to |-> to, post |-> post]
    OBVIOUS
  <2>2. Rights!Begin(r, w) /\ w.op = "post" /\ "op" \in DOMAIN w
    BY <1>4, <2>1 DEF Rights!BeginPost
  <2> QED
    BY <1>b, <2>2 DEF MayAsk
<1>5. ASSUME NEW r \in Requests, NEW u, NEW to, NEW perm, NEW scope,
             Rights!BeginDelegate(r, u, to, perm, scope)
      PROVE  RightsInv'
  <2>1. PICK w : w = [op |-> "delegate", by |-> u, new |-> <<to, perm, scope>>]
    OBVIOUS
  <2>2. Rights!Begin(r, w) /\ w.op = "delegate" /\ "op" \in DOMAIN w /\ w.by = u
            /\ w.new[2] = perm /\ w.new[3] = scope
    BY <1>5, <2>1 DEF Rights!BeginDelegate
  <2>3. May(u, perm)
    BY <1>5, MayGrant DEF Rights!BeginDelegate
  <2> QED
    BY <1>b, <2>2, <2>3 DEF MayAsk, May, Granted
<1>6. ASSUME NEW r \in Requests, NEW u, NEW to, NEW p, Rights!BeginProfile(r, u, to, p)
      PROVE  RightsInv'
  <2>1. PICK w : w = [op |-> "profile", by |-> u, to |-> to, post |-> p]
    OBVIOUS
  <2>2. Rights!Begin(r, w) /\ w.op = "profile" /\ "op" \in DOMAIN w /\ w.by = u /\ w.post = p
    BY <1>6, <2>1 DEF Rights!BeginProfile
  <2>3. \A perm \in ProfilePermissions[p] : May(u, perm)
    BY <1>6, MayGrant DEF Rights!BeginProfile
  <2> QED
    BY <1>b, <2>2, <2>3 DEF MayAsk
<1>7. ASSUME NEW r \in Requests, NEW u, Rights!BeginOnboarding(r, u) PROVE RightsInv'
  <2>1. PICK w : w = [op |-> "profiles", by |-> u]
    OBVIOUS
  <2>2. Rights!Begin(r, w) /\ w.op = "profiles" /\ "op" \in DOMAIN w
    BY <1>7, <2>1 DEF Rights!BeginOnboarding
  <2> QED
    BY <1>b, <2>2 DEF MayAsk
<1>i. MayAsk(Rights!Idle)'
  BY DEF Rights!Idle, MayAsk
<1>8. ASSUME NEW r \in Requests, Rights!Link(r) PROVE RightsInv'
  <2>1. granting[r].op = "link" /\ granting' = [granting EXCEPT ![r] = Rights!Idle]
            /\ delegated' = delegated
    BY <1>8 DEF Rights!Link, Rights!Ends
  <2>2. CASE UNCHANGED <<links, introduced>>
    BY <1>i, <2>1, <2>2, RightsKept
  <2>3. CASE /\ links' = links \cup granting[r].add
             /\ Rights!ByCentre(granting[r].by, {<<l[2], l[3]>> : l \in granting[r].add})
    <3>1. introduced \subseteq introduced'
      BY <2>3 DEF Rights!ByCentre
    <3>2. ASSUME NEW l \in granting[r].add PROVE Granted(l[2], l[3])'
      <4>1. CASE granting[r].by = Super
        BY <2>3, <4>1 DEF Rights!ByCentre, Granted
      <4>2. CASE granting[r].by # Super
        BY <1>t, <2>1, <3>1, <4>2, MoreIntroduced DEF MayAsk
      <4> QED
        BY <4>1, <4>2
    <3> QED
      BY <1>i, <2>1, <2>3, <3>1, <3>2, RightsKept
  <2> QED
    BY <1>8, <2>2, <2>3 DEF Rights!Link
<1>9. ASSUME NEW r \in Requests, Rights!Unlink(r) PROVE RightsInv'
  <2>1. /\ granting' = [granting EXCEPT ![r] = Rights!Idle] /\ links' \subseteq links
        /\ UNCHANGED <<delegated, introduced>>
    BY <1>9 DEF Rights!Unlink, Rights!Ends
  <2> QED
    BY <1>i, <2>1, RightsKept
<1>10. ASSUME NEW r \in Requests, Rights!Post(r) PROVE RightsInv'
  <2>1. /\ granting' = [granting EXCEPT ![r] = Rights!Idle]
             /\ UNCHANGED <<links, delegated, introduced>>
    BY <1>10 DEF Rights!Post, Rights!Ends
  <2> QED
    BY <1>i, <2>1, RightsKept
<1>11. ASSUME NEW r \in Requests, Rights!Delegate(r) PROVE RightsInv'
  <2>1. /\ granting[r].op = "delegate" /\ granting' = [granting EXCEPT ![r] = Rights!Idle]
             /\ links' = links
        /\ delegated' = delegated \cup {granting[r].new}
        /\ Rights!ByCentre(granting[r].by, {<<granting[r].new[2], granting[r].new[3]>>})
    BY <1>11 DEF Rights!Delegate, Rights!Ends
  <2>2. introduced \subseteq introduced'
    BY <2>1 DEF Rights!ByCentre
  <2>3. PICK d : d = granting[r].new
    OBVIOUS
  <2>4. Granted(d[2], d[3])'
    <3>1. CASE granting[r].by = Super
      BY <2>1, <2>3, <3>1 DEF Rights!ByCentre, Granted
    <3>2. CASE granting[r].by # Super
      <4>1. Granted(d[2], d[3])
        BY <1>t, <2>1, <2>3, <3>2 DEF MayAsk
      <4> QED
        BY <2>2, <4>1 DEF Granted
    <3> QED
      BY <3>1, <3>2
  <2> QED
    BY <1>i, <2>1, <2>2, <2>3, <2>4, RightsKept
<1>12. CASE Rights!DelegationEnds
  <2>1. delegated' \subseteq delegated /\ UNCHANGED <<links, introduced, granting>>
    BY <1>12 DEF Rights!DelegationEnds
  <2> QED
    BY <2>1 DEF RightsInv, MayAsk, Granted, May
<1>13. ASSUME NEW r \in Requests, Rights!EnsureProfile(r) PROVE RightsInv'
  <2>1. /\ granting[r].op = "profile" /\ delegated' = delegated
        /\ links' = links \cup Rights!Profiled(granting[r].post)
        /\ Rights!ByCentre(granting[r].by, Rights!GivenWith({granting[r].post}))
    BY <1>13 DEF Rights!EnsureProfile
  <2>2. PICK w : w = [granting[r] EXCEPT !.op = "post"]
    OBVIOUS
  <2>3. granting' = [granting EXCEPT ![r] = w]
    BY <1>13, <2>2 DEF Rights!EnsureProfile, Rights!Next_
  <2>4. MayAsk(w)'
    <3>1. "op" \in DOMAIN granting[r]
      BY <1>t DEF MayAsk
    <3>2. "op" \in DOMAIN w /\ w.op = "post"
      BY <2>2, <3>1
    <3> QED
      BY <3>2 DEF MayAsk
  <2>5. introduced \subseteq introduced'
    BY <2>1 DEF Rights!ByCentre
  <2>6. ASSUME NEW l \in Rights!Profiled(granting[r].post) PROVE Granted(l[2], l[3])'
    <3>1. PICK perm \in ProfilePermissions[granting[r].post] :
              l = <<granting[r].post, perm, "school">>
      BY <2>6 DEF Rights!Profiled
    <3>2. CASE granting[r].by = Super
      <4>1. <<perm, "school">> \in Rights!GivenWith({granting[r].post})
        BY <3>1 DEF Rights!GivenWith
      <4> QED
        BY <2>1, <3>1, <3>2, <4>1 DEF Rights!ByCentre, Granted
    <3>3. CASE granting[r].by # Super
      <4>1. May(granting[r].by, perm)
        BY <1>t, <2>1, <3>1 DEF MayAsk
      <4> QED
        BY <2>5, <3>1, <3>3, <4>1 DEF May, Granted
    <3> QED
      BY <3>2, <3>3
  <2> QED
    BY <2>1, <2>3, <2>4, <2>5, <2>6, RightsKept
<1>14. ASSUME NEW r \in Requests, Rights!EnsureProfiles(r) PROVE RightsInv'
  <2>1. /\ granting[r].op = "profiles" /\ delegated' = delegated
        /\ links' = links \cup UNION {Rights!Profiled(p) : p \in Profiles}
        /\ introduced' = introduced \cup Rights!GivenWith(Profiles)
    BY <1>14 DEF Rights!EnsureProfiles
  <2>2. PICK w : w = [granting[r] EXCEPT !.op = "first"]
    OBVIOUS
  <2>3. granting' = [granting EXCEPT ![r] = w]
    BY <1>14, <2>2 DEF Rights!EnsureProfiles, Rights!Next_
  <2>4. MayAsk(w)'
    <3>1. "op" \in DOMAIN granting[r]
      BY <1>t DEF MayAsk
    <3>2. "op" \in DOMAIN w /\ w.op = "first"
      BY <2>2, <3>1
    <3>3. Rights!GivenWith(Profiles) \subseteq introduced'
      BY <2>1
    <3>4. Rights!GivenWith(Profiles)' \subseteq introduced'
      BY <3>3 DEF Rights!GivenWith
    <3> QED
      BY <3>2, <3>4 DEF MayAsk
  <2>6. ASSUME NEW l \in UNION {Rights!Profiled(p) : p \in Profiles} PROVE Granted(l[2], l[3])'
    <3>0. PICK p \in Profiles : l \in Rights!Profiled(p)
      BY <2>6
    <3>1. PICK perm \in ProfilePermissions[p] : l = <<p, perm, "school">>
      BY <3>0 DEF Rights!Profiled
    <3>2. <<perm, "school">> \in Rights!GivenWith(Profiles)
      BY <3>1 DEF Rights!GivenWith
    <3> QED
      BY <2>1, <3>1, <3>2 DEF Granted
  <2> QED
    BY <2>1, <2>3, <2>4, <2>6, RightsKept
<1>15. ASSUME NEW r \in Requests, Rights!BootstrapFirst(r) PROVE RightsInv'
  <2>1. granting[r].op = "first" /\ UNCHANGED <<links, delegated, introduced>>
    BY <1>15 DEF Rights!BootstrapFirst
  <2>2. PICK u : u = granting[r].by
    OBVIOUS
  <2>3. PICK w : w = IF holders = {} \/ \A perm \in ProfilePermissions[Direction] :
            Rights!CanGrant(u, perm)
                     THEN [op |-> "profile", by |-> u, to |-> u,
                     post |-> Direction] ELSE Rights!Idle
    OBVIOUS
  <2>4. granting' = [granting EXCEPT ![r] = w]
    BY <1>15, <2>2, <2>3 DEF Rights!BootstrapFirst
  <2>5. \A perm \in ProfilePermissions[Direction] : May(u, perm)
    <3>1. Rights!GivenWith(Profiles) \subseteq introduced /\ Direction \in Profiles
      BY <1>t, <2>1, OfficeAssumption DEF MayAsk, Rights!AuthorityConstants
    <3> QED
      BY <3>1 DEF Rights!GivenWith, May
  <2>6. MayAsk(w)
    <3>1. CASE w = Rights!Idle
      BY <3>1 DEF Rights!Idle, MayAsk
    <3>2. CASE w = [op |-> "profile", by |-> u, to |-> u, post |-> Direction]
      <4>1. "op" \in DOMAIN w /\ w.op = "profile" /\ w.by = u /\ w.post = Direction
        BY <3>2
      <4> QED
        BY <2>5, <4>1 DEF MayAsk
    <3> QED
      BY <2>3, <3>1, <3>2
  <2>7. MayAsk(w)'
    BY <2>1, <2>6, MoreIntroduced
  <2> QED
    BY <2>1, <2>4, <2>7, RightsKept
<1> QED
  BY <1>1, <1>2, <1>3, <1>4, <1>5, <1>6, <1>7, <1>8, <1>9, <1>10, <1>11, <1>12, <1>13, <1>14,
     <1>15 DEF Rights!Next

LEMMA RightsHold == RightsInv => Rights!NothingWidens
BY DEF RightsInv, Rights!NothingWidens, Granted

----------------------------------------------------------------------------------
(* Documents: alone on its title, a request still has the versions as they are      *)

Shelf == Library!Documents \cup {NoRow}
Sets == [op : {"set"}, text : Texts, title : Titles, change : Library!Changes,
         loaded : [Texts -> Shelf]]
Ingests == [op : {"ingest"}, text : Texts, title : Titles]

\* Titles stay, and rows too.
Shelved(w) ==
  /\ w = Library!Idle \/ w \in Ingests \/ w \in Sets
  /\ w \in Sets =>
       /\ w.loaded[w.text] # NoRow /\ w.loaded[w.text].title = w.title
       /\ \A y \in Texts : w.loaded[y] # NoRow =>
            document[y] # NoRow /\ document[y].title = w.loaded[y].title

\* What a request alone on its title has loaded of it
Current(w) ==
  w \in Sets /\ ~crossed[w.title] =>
    \A y \in Texts : document[y] # NoRow /\ document[y].title = w.title =>
      document[y] = w.loaded[y]

OneEach ==
  \A q, r \in Requests :
    indexing[q] # Library!Idle /\ indexing[r] # Library!Idle
      /\ indexing[q].title = indexing[r].title /\ ~crossed[indexing[r].title] => q = r

LibraryInv ==
  /\ document \in [Texts -> Shelf]
  /\ ingested \in [Titles -> Nat] /\ crossed \in [Titles -> BOOLEAN]
  /\ indexing = [r \in Requests |-> indexing[r]]
  /\ \A r \in Requests : Shelved(indexing[r]) /\ Current(indexing[r])
  /\ OneEach
  /\ Library!AloneButForNew

LEMMA IdleIsNone == Library!Idle \notin Sets /\ Library!Idle \notin Ingests
<1>1. Library!Idle.op = "none"
  BY DEF Library!Idle
<1>2. \A w \in Sets : w.op = "set"
  BY DEF Sets
<1>3. \A w \in Ingests : w.op = "ingest"
  BY DEF Ingests
<1> QED
  BY <1>1, <1>2, <1>3

LEMMA ServedFinite ==
  ASSUME NEW S \in SUBSET Texts
  PROVE  IsFiniteSet(S) /\ Cardinality(S) \in Nat
BY CountedSets, FS_Subset, FS_CardinalityType

LEMMA LibraryInit == Library!Init => LibraryInv
<1> SUFFICES ASSUME Library!Init PROVE LibraryInv
  OBVIOUS
<1>1. \A t : Library!Served(t) = {}
  BY DEF Library!Init, Library!Served, Library!Versions, Library!Indexed
<1>2. \A t \in Titles : ingested[t] = 0 /\ ~crossed[t]
  BY DEF Library!Init
<1>3. Library!AloneButForNew
  BY <1>1, <1>2, SameCounts, FS_EmptySet DEF Library!AloneButForNew
<1>4. \A r \in Requests : indexing[r] = Library!Idle
  BY DEF Library!Init
<1>5. OneEach
  BY <1>4 DEF OneEach
<1>6. \A r \in Requests : Shelved(indexing[r]) /\ Current(indexing[r])
  BY <1>4, IdleIsNone DEF Shelved, Current
<1>7. /\ document \in [Texts -> Shelf]
      /\ ingested \in [Titles -> Nat] /\ crossed \in [Titles -> BOOLEAN]
      /\ indexing = [r \in Requests |-> indexing[r]]
  BY DEF Library!Init, Shelf
<1> QED
  BY <1>3, <1>5, <1>6, <1>7 DEF LibraryInv

\* A request begins with what it has just loaded.
LEMMA LibraryBegins ==
  ASSUME LibraryInv, NEW r \in Requests, NEW w, Library!Begin(r, w), w # Library!Idle,
      w.title \in Titles,
         Shelved(w), w \in Sets => w.loaded = document
  PROVE  LibraryInv'
<1>1. /\ document' = document /\ ingested' = ingested /\ indexing[r] = Library!Idle
      /\ indexing' = [indexing EXCEPT ![r] = w]
      /\ crossed' = [crossed EXCEPT ![w.title] = @ \/ Library!Busy(w.title)]
  BY DEF Library!Begin
<1>2. indexing' = [q \in Requests |-> indexing'[q]]
  BY <1>1 DEF LibraryInv
<1>3. \A q \in Requests : indexing'[q] = IF q = r THEN w ELSE indexing[q]
  BY <1>1 DEF LibraryInv
<1>4. crossed' \in [Titles -> BOOLEAN]
  BY <1>1 DEF LibraryInv
<1>5. \A t \in Titles : ~crossed'[t] => ~crossed[t] /\ (t = w.title => ~Library!Busy(t))
  BY <1>1 DEF LibraryInv
<1>6. ASSUME NEW q \in Requests PROVE Shelved(indexing[q])' /\ Current(indexing[q])'
  <2>1. PICK v : v = indexing'[q]
    OBVIOUS
  <2>2. CASE q = r
    <3>1. v = w
      BY <1>3, <2>1, <2>2
    <3> QED
      BY <1>1, <2>1, <3>1 DEF Shelved, Current
  <2>3. CASE q # r
    <3>1. v = indexing[q] /\ Shelved(v) /\ Current(v)
      BY <1>3, <2>1, <2>3 DEF LibraryInv
    <3>2. v \in Sets => v.title \in Titles
      BY DEF Sets
    <3> QED
      BY <1>1, <1>5, <2>1, <3>1, <3>2 DEF Shelved, Current
  <2> QED
    BY <2>2, <2>3
<1>7. OneEach'
  <2> SUFFICES ASSUME NEW p \in Requests, NEW q \in Requests, indexing'[p] # Library!Idle,
          indexing'[q] # Library!Idle,
                      indexing'[p].title = indexing'[q].title, ~crossed'[indexing'[q].title]
               PROVE  p = q
    BY DEF OneEach, Library!Idle
  <2>1. indexing'[q].title \in Titles
    <3>1. CASE q = r
      BY <1>3, <3>1
    <3>2. CASE q # r
      <4>1. Shelved(indexing[q]) /\ indexing'[q] = indexing[q]
        BY <1>3, <3>2 DEF LibraryInv
      <4> QED
        BY <4>1 DEF Shelved, Sets, Ingests
    <3> QED
      BY <3>1, <3>2
  <2>2. CASE p # r /\ q # r
    BY <1>3, <1>5, <2>1, <2>2 DEF LibraryInv, OneEach
  <2>3. CASE p = r /\ q # r
    <3>1. Library!Busy(w.title)
      BY <1>3, <2>3 DEF Library!Busy
    <3> QED
      BY <1>3, <1>5, <2>1, <2>3, <3>1
  <2>4. CASE p # r /\ q = r
    <3>1. Library!Busy(w.title)
      BY <1>3, <2>4 DEF Library!Busy
    <3> QED
      BY <1>3, <1>5, <2>1, <2>4, <3>1
  <2> QED
    BY <2>2, <2>3, <2>4
<1>8. Library!AloneButForNew'
  BY <1>1, <1>5 DEF LibraryInv, Library!AloneButForNew, Library!Served, Library!Versions,
     Library!Indexed
<1> QED
  BY <1>1, <1>2, <1>4, <1>6, <1>7, <1>8 DEF LibraryInv

\* A request ends, whose title is t; it has changed rows of t only, whose title they keep.
LEMMA LibraryEnds ==
  ASSUME LibraryInv, NEW r \in Requests, NEW t, indexing[r].title = t,
      indexing[r] # Library!Idle, Library!Ends(r),
         crossed' = crossed,
         document' \in [Texts -> Shelf], ingested' \in [Titles -> Nat],
         \A y \in Texts : document'[y] = document[y]
             \/ (document'[y] # NoRow /\ document'[y].title = t
                  /\ (document[y] # NoRow => document[y].title = t)),
         \A s \in Titles : s # t => ingested'[s] = ingested[s],
         ~crossed[t] => Cardinality(Library!Served(t)') <= 1 + ingested'[t]
  PROVE  LibraryInv'
<1>1. indexing' = [indexing EXCEPT ![r] = Library!Idle]
  BY DEF Library!Ends
<1>2. indexing' = [q \in Requests |-> indexing'[q]]
  BY <1>1 DEF LibraryInv
<1>3. \A q \in Requests : indexing'[q] = IF q = r THEN Library!Idle ELSE indexing[q]
  BY <1>1 DEF LibraryInv
<1>4. ASSUME NEW q \in Requests PROVE Shelved(indexing[q])' /\ Current(indexing[q])'
  <2>1. PICK v : v = indexing'[q]
    OBVIOUS
  <2>2. CASE q = r
    <3>1. v = Library!Idle
      BY <1>3, <2>1, <2>2
    <3> QED
      BY <2>1, <3>1, IdleIsNone DEF Shelved, Current
  <2>3. CASE q # r
    <3>1. v = indexing[q] /\ Shelved(v) /\ Current(v)
      BY <1>3, <2>1, <2>3 DEF LibraryInv
    <3>2. Shelved(v)'
      BY <3>1 DEF Shelved
    <3>3. v \in Sets /\ ~crossed[v.title] => v.title # t
      <4>1. v \in Sets => v # Library!Idle
        BY IdleIsNone
      <4> QED
        BY <2>3, <3>1, <4>1 DEF LibraryInv, OneEach
    <3>4. Current(v)'
      BY <3>1, <3>3 DEF Current
    <3> QED
      BY <2>1, <3>2, <3>4 DEF Shelved, Current
  <2> QED
    BY <2>2, <2>3
<1>5. OneEach'
  <2>1. OneEach
    BY DEF LibraryInv
  <2> QED
    BY <1>3, <2>1 DEF OneEach, Library!Idle
<1>6. Library!AloneButForNew'
  <2> SUFFICES ASSUME NEW s \in Titles, ~crossed'[s]
               PROVE  Cardinality(Library!Served(s)') <= 1 + ingested'[s]
    BY SameCounts DEF Library!AloneButForNew
  <2>1. CASE s = t
    BY <2>1
  <2>2. CASE s # t
    <3>1. Library!Served(s)' = Library!Served(s)
      BY <2>2 DEF Library!Served, Library!Versions, Library!Indexed
    <3> QED
      BY <2>2, <3>1, SameCounts DEF LibraryInv, Library!AloneButForNew
  <2> QED
    BY <2>1, <2>2
<1> QED
  BY <1>2, <1>4, <1>5, <1>6 DEF LibraryInv

LEMMA IngestStep ==
  ASSUME LibraryInv, NEW r \in Requests, Library!Ingest(r)
  PROVE  LibraryInv'
<1>1. PICK w : w = indexing[r]
  OBVIOUS
<1>2. w \in Ingests
  <2>1. Shelved(w) /\ w.op = "ingest"
    BY <1>1 DEF LibraryInv, Library!Ingest
  <2>2. Library!Idle.op = "none" /\ (w \in Sets => w.op = "set")
    BY DEF Library!Idle, Sets
  <2> QED
    BY <2>1, <2>2 DEF Shelved
<1>3. w # Library!Idle /\ w.text \in Texts /\ w.title \in Titles
  BY <1>2, IdleIsNone DEF Ingests
<1>4. Library!Ends(r) /\ crossed' = crossed
  BY DEF Library!Ingest
<1>5. CASE UNCHANGED <<document, ingested>>
  <2>1. Library!Served(w.title)' = Library!Served(w.title)
    BY <1>5 DEF Library!Served, Library!Versions, Library!Indexed
  <2>2. ~crossed[w.title] => Cardinality(Library!Served(w.title)') <= 1 + ingested'[w.title]
    BY <1>3, <1>5, <2>1, SameCounts DEF LibraryInv, Library!AloneButForNew
  <2> QED
    <3>1. /\ document' \in [Texts -> Shelf] /\ ingested' \in [Titles -> Nat]
          /\ document' = document /\ ingested' = ingested
      BY <1>5 DEF LibraryInv
    <3> QED
      BY <1>1, <1>3, <1>4, <2>2, <3>1, LibraryEnds
<1>6. CASE /\ w.text \notin Library!Indexed
           /\ document' = [document EXCEPT ![w.text] =
                             [title |-> w.title, status |-> "published", active |-> TRUE]]
           /\ ingested' = [ingested EXCEPT ![w.title] = @ + 1]
  <2>1. PICK d : d = [title |-> w.title, status |-> "published", active |-> TRUE]
    OBVIOUS
  <2>2. d \in Library!Documents /\ d.title = w.title /\ d # NoRow
    <3>1. d \in Library!Documents
      BY <1>3, <2>1 DEF Library!Documents, Library!Statuses
    <3>2. d.title = w.title
      BY <2>1
    <3> QED
      BY <3>1, <3>2, OfficeAssumption
  <2>3. \A y \in Texts : document'[y] = IF y = w.text THEN d ELSE document[y]
    BY <1>6, <2>1 DEF LibraryInv
  <2>4. document' \in [Texts -> Shelf]
    BY <1>6, <2>1, <2>2 DEF LibraryInv, Shelf
  <2>5. ingested' \in [Titles -> Nat] /\ ingested'[w.title] = ingested[w.title] + 1
        /\ \A t \in Titles : t # w.title => ingested'[t] = ingested[t]
    BY <1>3, <1>6 DEF LibraryInv
  <2>6. document[w.text] = NoRow
    BY <1>3, <1>6 DEF Library!Indexed
  <2>7. Library!Served(w.title)' \subseteq Library!Served(w.title) \cup {w.text}
    BY <2>3 DEF Library!Served, Library!Versions, Library!Indexed
  <2>8. ~crossed[w.title] => Cardinality(Library!Served(w.title)') <= 1 + ingested'[w.title]
    <3>1. Library!Served(w.title) \subseteq Texts /\ IsFiniteSet(Library!Served(w.title))
      BY ServedFinite DEF Library!Served, Library!Versions, Library!Indexed
    <3>2. /\ IsFiniteSet(Library!Served(w.title) \cup {w.text})
          /\ Cardinality(Library!Served(w.title) \cup {w.text})
               <= Cardinality(Library!Served(w.title)) + 1
          /\ Cardinality(Library!Served(w.title)) \in Nat
      <4>1. Cardinality(Library!Served(w.title)) \in Nat
        BY <3>1, FS_CardinalityType
      <4>2. IsFiniteSet(Library!Served(w.title) \cup {w.text})
        BY <3>1, FS_AddElement
      <4>3. Cardinality(Library!Served(w.title) \cup {w.text})
                      = IF w.text \in Library!Served(w.title)
                          THEN Cardinality(Library!Served(w.title))
                        ELSE Cardinality(Library!Served(w.title)) + 1
        BY <3>1, FS_AddElement
      <4> QED
        BY <4>1, <4>2, <4>3
    <3>3. Cardinality(Library!Served(w.title)')
              <= Cardinality(Library!Served(w.title) \cup {w.text})
          /\ Cardinality(Library!Served(w.title)') \in Nat
          /\ Cardinality(Library!Served(w.title) \cup {w.text}) \in Nat
      BY <2>7, <3>2, FS_Subset, FS_CardinalityType
    <3>4. ingested[w.title] \in Nat
      BY <1>3 DEF LibraryInv
    <3>5. ~crossed[w.title] => Cardinality(Library!Served(w.title)) <= 1 + ingested[w.title]
      BY <1>3, SameCounts DEF LibraryInv, Library!AloneButForNew
    <3> QED
      BY <2>5, <3>2, <3>3, <3>4, <3>5
  <2> QED
    BY <1>1, <1>3, <1>4, <2>2, <2>3, <2>4, <2>5, <2>6, <2>8, LibraryEnds
<1> QED
  BY <1>1, <1>5, <1>6 DEF Library!Ingest

\* What a commit writes over a row
LEMMA WrittenRow ==
  ASSUME NEW o \in Library!Documents, NEW n \in Library!Documents,
      NEW d \in Library!Documents, n.title = o.title
  PROVE  /\ Library!Written(o, n, d) \in Library!Documents
         /\ Library!Written(o, n, d).title = d.title
         /\ n = o => Library!Written(o, n, d) = d
         /\ d = o => Library!Written(o, n, d) = n
<1>1. DOMAIN d = {"title", "status", "active"}
  BY DEF Library!Documents
<1>2. PICK v : v = Library!Written(o, n, d)
  OBVIOUS
<1>3. v = [title |-> IF n.title # o.title THEN n.title ELSE d.title,
           status |-> IF n.status # o.status THEN n.status ELSE d.status,
           active |-> IF n.active # o.active THEN n.active ELSE d.active]
  BY <1>1, <1>2 DEF Library!Written
<1>4. v \in Library!Documents
  BY <1>3 DEF Library!Documents
<1>5. v.title = d.title
  BY <1>3
<1>6. n = o => v = d
  BY <1>3 DEF Library!Documents
<1>7. d = o => v = n
  BY <1>3 DEF Library!Documents
<1> QED
  BY <1>2, <1>4, <1>5, <1>6, <1>7

LEMMA ChangeTyped ==
  ASSUME NEW c \in Library!Changes
  PROVE  c.status \in Library!Statuses /\ c.active \in BOOLEAN
<1>1. CASE \E s \in Library!Statuses :
          c = [status |-> s, active |-> s = "published", archives |-> TRUE]
  <2>1. PICK s \in Library!Statuses :
            c = [status |-> s, active |-> s = "published", archives |-> TRUE]
    BY <1>1
  <2>2. PICK a : a = (s = "published")
    OBVIOUS
  <2>3. a \in BOOLEAN
    BY <2>2
  <2>4. c.status = s /\ c.active = a
    BY <2>1, <2>2
  <2> QED
    BY <2>3, <2>4
<1>2. CASE \E a \in BOOLEAN :
             c = [status |-> IF a THEN "published" ELSE "archived", active |-> a,
                  archives |-> FALSE]
  <2>1. PICK a \in BOOLEAN :
          c = [status |-> IF a THEN "published" ELSE "archived", active |-> a,
               archives |-> FALSE]
    BY <1>2
  <2>2. c.status = (IF a THEN "published" ELSE "archived") /\ c.active = a
    BY <2>1
  <2> QED
    BY <2>2 DEF Library!Statuses
<1> QED
  BY <1>1, <1>2 DEF Library!Changes

LEMMA ChangedRow ==
  ASSUME NEW w \in Sets, NEW y \in Texts, w.loaded[y] # NoRow,
         w.loaded[w.text] # NoRow, w.loaded[w.text].title = w.title
  PROVE  /\ Library!Changed(w)[y] \in Library!Documents
         /\ Library!Changed(w)[y].title = w.loaded[y].title
         /\ w.loaded[y].title # w.title => Library!Changed(w)[y] = w.loaded[y]
         /\ y = w.text => Library!Changed(w)[y].active = w.change.active
         /\ w.loaded[y].title = w.title /\ y # w.text =>
              IF w.change.active THEN Library!Changed(w)[y].active = FALSE
              ELSE Library!Changed(w)[y] = w.loaded[y]
<1>1. w.text \in Texts /\ w.change \in Library!Changes /\ w.loaded \in [Texts -> Shelf]
  BY DEF Sets
<1>2. PICK o : o = w.loaded[y]
  OBVIOUS
<1>3. o \in Library!Documents
  BY <1>1, <1>2 DEF Shelf
<1>4. w.change.status \in Library!Statuses /\ w.change.active \in BOOLEAN
  BY <1>1, ChangeTyped
<1>5. PICK n : n = Library!Changed(w)[y]
  OBVIOUS
<1>6. CASE y = w.text
  <2>1. n = [o EXCEPT !.status = w.change.status, !.active = w.change.active]
    BY <1>2, <1>5, <1>6 DEF Library!Changed
  <2>2. n \in Library!Documents /\ n.title = o.title /\ n.active = w.change.active
    BY <1>3, <1>4, <2>1 DEF Library!Documents
  <2> QED
    BY <1>2, <1>5, <1>6, <2>2
<1>7. CASE y # w.text /\ w.change.active /\ o.title = w.title
  <2>1. y \in Library!Siblings(w)
    BY <1>2, <1>7 DEF Library!Siblings
  <2>2. n = [o EXCEPT !.active = FALSE,
                      !.status = IF w.change.archives THEN "archived" ELSE @]
    BY <1>2, <1>5, <1>7, <2>1 DEF Library!Changed
  <2>3. n \in Library!Documents /\ n.title = o.title /\ n.active = FALSE
    BY <1>3, <2>2 DEF Library!Documents, Library!Statuses
  <2> QED
    BY <1>2, <1>5, <1>7, <2>3
<1>8. CASE y # w.text /\ (~w.change.active \/ o.title # w.title)
  <2>1. n = o
    BY <1>2, <1>5, <1>8 DEF Library!Changed, Library!Siblings
  <2> QED
    BY <1>2, <1>3, <1>5, <1>8, <2>1
<1> QED
  BY <1>6, <1>7, <1>8

LEMMA SetStep ==
  ASSUME LibraryInv, NEW r \in Requests, Library!Set(r)
  PROVE  LibraryInv'
<1>1. PICK w : w = indexing[r]
  OBVIOUS
<1>2. w \in Sets
  <2>1. Shelved(w) /\ w.op = "set"
    BY <1>1 DEF LibraryInv, Library!Set
  <2>2. Library!Idle.op = "none" /\ (w \in Ingests => w.op = "ingest")
    BY DEF Library!Idle, Ingests
  <2> QED
    BY <2>1, <2>2 DEF Shelved
<1>3. /\ w # Library!Idle /\ w.text \in Texts /\ w.title \in Titles
           /\ w.loaded \in [Texts -> Shelf]
      /\ w.change \in Library!Changes
  BY <1>2, IdleIsNone DEF Sets
<1>4. /\ w.loaded[w.text] # NoRow /\ w.loaded[w.text].title = w.title
      /\ \A y \in Texts : w.loaded[y] # NoRow =>
           document[y] # NoRow /\ document[y].title = w.loaded[y].title
  BY <1>1, <1>2 DEF LibraryInv, Shelved
<1>5. PICK new : new = Library!Changed(w)
  OBVIOUS
<1>6. /\ document' = [y \in Texts |->
             IF w.loaded[y] = NoRow THEN document[y]
             ELSE Library!Written(w.loaded[y], new[y], document[y])]
      /\ ingested' = IF w.change.active THEN [ingested EXCEPT ![w.title] = 0] ELSE ingested
      /\ Library!Ends(r) /\ crossed' = crossed
  BY <1>1, <1>5 DEF Library!Set
<1>7. ASSUME NEW y \in Texts, w.loaded[y] # NoRow
      PROVE  /\ document[y] \in Library!Documents /\ w.loaded[y] \in Library!Documents
             /\ new[y] \in Library!Documents /\ new[y].title = w.loaded[y].title
             /\ document'[y] \in Library!Documents /\ document'[y].title = document[y].title
             /\ document[y].title = w.loaded[y].title
             /\ new[y] = w.loaded[y] => document'[y] = document[y]
             /\ document[y] = w.loaded[y] => document'[y] = new[y]
  <2>1. document[y] \in Library!Documents /\ w.loaded[y] \in Library!Documents
    BY <1>3, <1>4, <1>7 DEF LibraryInv, Shelf
  <2>2. new[y] \in Library!Documents /\ new[y].title = w.loaded[y].title
    BY <1>2, <1>4, <1>5, <1>7, ChangedRow
  <2>3. document'[y] = Library!Written(w.loaded[y], new[y], document[y])
    BY <1>6, <1>7
  <2> QED
    BY <1>4, <1>7, <2>1, <2>2, <2>3, WrittenRow
<1>8. document' \in [Texts -> Shelf]
  <2>1. \A y \in Texts : document'[y] \in Shelf
    BY <1>6, <1>7 DEF LibraryInv, Shelf
  <2> QED
    BY <1>6, <2>1
<1>9. \A y \in Texts : document'[y] = document[y]
          \/ (document'[y] # NoRow /\ document'[y].title = w.title
               /\ (document[y] # NoRow => document[y].title = w.title))
  <2> SUFFICES ASSUME NEW y \in Texts, document'[y] # document[y]
               PROVE  document'[y] # NoRow /\ document'[y].title = w.title
                        /\ document[y].title = w.title
    OBVIOUS
  <2>1. w.loaded[y] # NoRow
    BY <1>6
  <2>2. w.loaded[y].title = w.title
    BY <1>2, <1>4, <1>5, <1>7, <2>1, ChangedRow
  <2> QED
    BY <1>7, <2>1, <2>2, OfficeAssumption
<1>10. ingested' \in [Titles -> Nat] /\ \A t \in Titles : t # w.title
           => ingested'[t] = ingested[t]
  BY <1>6 DEF LibraryInv
<1>11. ASSUME ~crossed[w.title]
       PROVE  Cardinality(Library!Served(w.title)') <= 1 + ingested'[w.title]
  <2>1. \A y \in Texts : document[y] # NoRow /\ document[y].title = w.title =>
          document[y] = w.loaded[y]
    BY <1>1, <1>2, <1>11 DEF LibraryInv, Current
  <2>2. ASSUME NEW y \in Library!Served(w.title)'
        PROVE  /\ y \in Texts /\ document[y] # NoRow /\ document[y].title = w.title
               /\ document[y] = w.loaded[y] /\ document'[y] = new[y] /\ new[y].active
    <3>1. y \in Texts /\ document'[y] # NoRow /\ document'[y].title = w.title
          /\ document'[y].active
      BY <2>2 DEF Library!Served, Library!Versions, Library!Indexed
    <3>2. document[y] # NoRow /\ document[y].title = w.title
      <4>1. CASE w.loaded[y] = NoRow
        BY <1>6, <3>1, <4>1
      <4>2. CASE w.loaded[y] # NoRow
        BY <1>7, <3>1, <4>2, OfficeAssumption
      <4> QED
        BY <4>1, <4>2
    <3> QED
      BY <1>7, <2>1, <3>1, <3>2
  <2>3. CASE w.change.active
    <3>1. ASSUME NEW y \in Library!Served(w.title)' PROVE y = w.text
      <4>1. y \in Texts /\ w.loaded[y] # NoRow /\ w.loaded[y].title = w.title
        BY <2>2, <3>1
      <4>2. y # w.text => new[y].active = FALSE
        BY <1>2, <1>4, <1>5, <2>3, <4>1, ChangedRow
      <4> QED
        BY <2>2, <3>1, <4>2
    <3>2. Cardinality({w.text}) = 1 /\ IsFiniteSet({w.text})
      BY FS_Singleton
    <3>3. Cardinality(Library!Served(w.title)') <= 1
              /\ Cardinality(Library!Served(w.title)') \in Nat
      BY <3>1, <3>2, FS_Subset, FS_CardinalityType
    <3>4. ingested'[w.title] \in Nat
      BY <1>3, <1>10
    <3> QED
      BY <3>3, <3>4
  <2>4. CASE ~w.change.active
    <3>1. ASSUME NEW y \in Library!Served(w.title)' PROVE y \in Library!Served(w.title)
      <4>0. y \in Texts /\ w.loaded[y] # NoRow /\ w.loaded[y].title = w.title
        BY <2>2, <3>1
      <4>1. y # w.text
        <5>1. y = w.text => new[y].active = w.change.active
          BY <1>2, <1>4, <1>5, <4>0, ChangedRow
        <5> QED
          BY <2>2, <2>4, <3>1, <5>1
      <4>2. new[y] = w.loaded[y]
        BY <1>2, <1>4, <1>5, <2>4, <4>0, <4>1, ChangedRow
      <4>3. document'[y] = document[y]
        BY <2>2, <3>1, <4>2
      <4> QED
        BY <2>2, <3>1, <4>3 DEF Library!Served, Library!Versions, Library!Indexed
    <3>2. Library!Served(w.title) \subseteq Texts /\ IsFiniteSet(Library!Served(w.title))
      BY ServedFinite DEF Library!Served, Library!Versions, Library!Indexed
    <3>3. /\ Cardinality(Library!Served(w.title)') <= Cardinality(Library!Served(w.title))
          /\ Cardinality(Library!Served(w.title)') \in Nat
               /\ Cardinality(Library!Served(w.title)) \in Nat
      BY <3>1, <3>2, FS_Subset, FS_CardinalityType
    <3>4. /\ Cardinality(Library!Served(w.title)) <= 1 + ingested[w.title]
          /\ ingested' = ingested /\ ingested[w.title] \in Nat
      BY <1>3, <1>6, <1>11, <2>4, SameCounts DEF LibraryInv, Library!AloneButForNew
    <3> QED
      BY <3>3, <3>4
  <2> QED
    BY <2>3, <2>4
<1> QED
  BY <1>1, <1>3, <1>6, <1>8, <1>9, <1>10, <1>11, LibraryEnds

LEMMA LibraryStep == LibraryInv /\ [Library!Next]_Library!vars => LibraryInv'
<1> SUFFICES ASSUME LibraryInv, [Library!Next]_Library!vars PROVE LibraryInv'
  OBVIOUS
<1>1. CASE UNCHANGED Library!vars
  BY <1>1 DEF Library!vars, LibraryInv, Shelved, Current, OneEach, Library!AloneButForNew,
     Library!Served, Library!Versions,
              Library!Indexed
<1>2. ASSUME NEW r \in Requests, NEW x \in Texts, NEW t \in Titles,
          Library!BeginIngest(r, x, t)
      PROVE  LibraryInv'
  <2>1. PICK w : w = [op |-> "ingest", text |-> x, title |-> t]
    OBVIOUS
  <2>2. w \in Ingests /\ w.title = t /\ w.op = "ingest"
    BY <2>1 DEF Ingests
  <2>3. w \notin Sets
    <3>1. \A v \in Sets : v.op = "set"
      BY DEF Sets
    <3> QED
      BY <2>2, <3>1
  <2>4. Library!Begin(r, w)
    BY <1>2, <2>1 DEF Library!BeginIngest
  <2> QED
    BY <2>2, <2>3, <2>4, IdleIsNone, LibraryBegins DEF Shelved
<1>3. ASSUME NEW r \in Requests, NEW x \in Texts, NEW c \in Library!Changes,
          Library!BeginSet(r, x, c)
      PROVE  LibraryInv'
  <2>1. PICK w : w = [op |-> "set", text |-> x, title |-> document[x].title, change |-> c,
                      loaded |-> document]
    OBVIOUS
  <2>2. document[x] # NoRow /\ document[x] \in Library!Documents
    BY <1>3 DEF Library!BeginSet, Library!Indexed, LibraryInv, Shelf
  <2>3. document[x].title \in Titles
    BY <2>2 DEF Library!Documents
  <2>4. w \in Sets
    BY <2>1, <2>3 DEF Sets, LibraryInv
  <2>5. w.text = x /\ w.title = document[x].title /\ w.loaded = document
    BY <2>1
  <2>6. Shelved(w)
    BY <2>2, <2>4, <2>5 DEF Shelved
  <2>7. Library!Begin(r, w)
    BY <1>3, <2>1 DEF Library!BeginSet
  <2> QED
    BY <2>3, <2>4, <2>5, <2>6, <2>7, IdleIsNone, LibraryBegins
<1> QED
  BY <1>1, <1>2, <1>3, IngestStep, SetStep DEF Library!Next

---------------------------------------------------------------------------------
(* Audit lines: what a link names is there, or is gone and was after all that stayed *)

LEMMA IdsAre ==
  MaxLines \in Nat /\ Audit!Ids \subseteq Nat /\ \A i \in Audit!Ids : i >= 1 /\ i <= MaxLines
BY OfficeAssumption DEF Audit!AuditConstants, Audit!Ids

LEMMA LastIs ==
  ASSUME NEW S, S \subseteq Audit!Ids, S # {}
  PROVE  Audit!Last(S) \in S /\ \A j \in S : j <= Audit!Last(S)
<1>1. MaxLines \in Nat
  BY OfficeAssumption DEF Audit!AuditConstants
<1> DEFINE T == {MaxLines - i : i \in S}
<1>a. \A i \in S : i \in Nat /\ i >= 1 /\ i <= MaxLines
  BY IdsAre
<1>b. T \subseteq Nat
  BY <1>1, <1>a
<1>2. T \subseteq Nat /\ T # {}
  BY <1>b
<1>3. PICK n \in T : \A m \in T : n <= m
  BY <1>2, LeastOfNat
<1>4. PICK i \in S : n = MaxLines - i
  BY <1>3
<1>5. \A j \in S : j <= i
  <2> SUFFICES ASSUME NEW j \in S PROVE j <= i
    OBVIOUS
  <2>1. MaxLines - i <= MaxLines - j
    BY <1>3, <1>4
  <2> QED
    BY <1>1, <1>a, <2>1
<1>6. \E k \in S : \A j \in S : j <= k
  BY <1>4, <1>5
<1> QED
  BY <1>6 DEF Audit!Last

LEMMA FirstIs ==
  ASSUME NEW S, S \subseteq Audit!Ids, S # {}
  PROVE  Audit!First(S) \in S /\ \A j \in S : Audit!First(S) <= j
<1>1. \E n \in S : \A m \in S : n <= m
  BY IdsAre, LeastOfNat
<1> QED
  BY <1>1 DEF Audit!First

\* The line that a link p names, 0 for none
RefersTo(p, n) ==
  \/ n = 0 /\ p = <<"GENESIS">>
  \/ n # 0 /\ p = <<"LEGACY", n>>
  \/ n # 0 /\ \E s, a, q : p = <<n, s, a, q>>

LEMMA RefersOne == \A p, n, m : RefersTo(p, n) /\ RefersTo(p, m) => n = m
<1> SUFFICES ASSUME NEW p, NEW n, NEW m, RefersTo(p, n), RefersTo(p, m) PROVE n = m
  OBVIOUS
<1>1. Len(<<"GENESIS">>) = 1
  OBVIOUS
<1>2. \A x : Len(<<"LEGACY", x>>) = 2 /\ <<"LEGACY", x>>[2] = x
  OBVIOUS
<1>3. \A x, s, a, q : Len(<<x, s, a, q>>) = 4 /\ <<x, s, a, q>>[1] = x
  OBVIOUS
<1> QED
  BY <1>1, <1>2, <1>3 DEF RefersTo

\* A line that is gone: its number was given, and nobody will write it.
Gone(n) ==
  /\ n \in Audit!Ids /\ n < auditNextId /\ auditLines[n] = Audit!NoLine
  /\ \A w \in Writers : auditWriter[w].at = "flushed" => auditWriter[w].id # n

\* The link p, of what has a number of at least m, names the last of S or one that was after
\* it and is gone.
Follows(s, p, S, m) ==
  \E n \in 0..MaxLines :
    /\ RefersTo(p, n) /\ n < m /\ \A j \in S : j <= n
    /\ n = 0 \/ n \in Audit!LinesOf(s) \/ Gone(n)

Signed(i) ==
  \E a : /\ auditLines[i].digest =
               Audit!Digest(i, auditLines[i].school, a, auditLines[i].previous)
         /\ i \in auditAltered <=> a # auditLines[i].action
         /\ i \in auditAltered => auditLines[i].school \in auditTouched

NumberedAs(w) == IF auditWriter[w].at = "flushed" THEN auditWriter[w].id ELSE auditNextId

Writing(w) ==
  /\ auditWriter[w].at \in {"read", "flushed"} /\ auditWriter[w].school \in Schools
  /\ auditWriter[w].at = "flushed" =>
       /\ auditWriter[w].id \in Audit!Ids /\ auditWriter[w].id < auditNextId
            /\ auditLines[auditWriter[w].id] = Audit!NoLine
       /\ auditWriter[w].id \notin auditAltered
            /\ \A g : <<g, auditWriter[w].id>> \notin auditRemoved
       /\ \A v \in Writers : auditWriter[v].at = "flushed"
            /\ auditWriter[v].id = auditWriter[w].id => v = w
  /\ auditWriter[w].school \notin auditCrossed =>
       /\ \A v \in Writers : auditWriter[v] # Audit!Idle
            /\ auditWriter[v].school = auditWriter[w].school => v = w
       /\ Follows(auditWriter[w].school, auditWriter[w].previous,
            Audit!LinesOf(auditWriter[w].school), NumberedAs(w))
       /\ auditWriter[w].school \notin auditTouched =>
            auditWriter[w].previous = Audit!LinkTo(Audit!LinesOf(auditWriter[w].school))

Linked(s, i) ==
  /\ Follows(s, auditLines[i].previous, Audit!Before(s, i), i)
  /\ s \notin auditTouched => auditLines[i].previous = Audit!LinkTo(Audit!Before(s, i))
  /\ \A g : <<g, i>> \in auditRemoved
       => \E n \in Audit!Ids : RefersTo(auditLines[i].previous, n) /\ Gone(n)

ChainInv ==
  /\ auditNextId \in Nat /\ auditNextId > 1
  /\ auditLines = [i \in Audit!Ids |-> auditLines[i]]
       /\ auditWriter = [w \in Writers |-> auditWriter[w]]
  /\ \A i \in auditAltered : i \in Audit!Ids /\ i < auditNextId
  /\ \A g, i : <<g, i>> \in auditRemoved => i \in Audit!Ids /\ i < auditNextId
  /\ \A i \in Audit!Ids : auditLines[i] # Audit!NoLine =>
       /\ i < auditNextId /\ "action" \in DOMAIN auditLines[i]
            /\ auditLines[i].school \in Schools
       /\ auditLines[i].digest # <<>> => Signed(i)
  /\ \A w \in Writers : auditWriter[w] # Audit!Idle => Writing(w)
  /\ \A s \in Schools \ auditCrossed : \A i \in Audit!LinesOf(s) : auditLines[i].digest # <<>>
       => Linked(s, i)

LEMMA IdleIs == Audit!Idle.at = "idle" /\ \A w : w.at # "idle" => w # Audit!Idle
BY DEF Audit!Idle

LEMMA LegacyIs ==
  ASSUME NEW s, NEW a
  PROVE  /\ Audit!Legacy(s, a) # Audit!NoLine /\ "action" \in DOMAIN Audit!Legacy(s, a)
         /\ Audit!Legacy(s, a).school = s /\ Audit!Legacy(s, a).digest = <<>>
<1>1. "action" \in DOMAIN Audit!Legacy(s, a) /\ Audit!Legacy(s, a).school = s
          /\ Audit!Legacy(s, a).digest = <<>>
  BY DEF Audit!Legacy
<1>2. "action" \notin DOMAIN Audit!NoLine
  BY DEF Audit!NoLine
<1> QED
  BY <1>1, <1>2

\* What a link names, of lines that are signed
LEMMA LinkRefers ==
  ASSUME ChainInv, NEW S, S \subseteq Audit!Ids, \A i \in S : auditLines[i] # Audit!NoLine
  PROVE  \/ S = {} /\ RefersTo(Audit!LinkTo(S), 0)
         \/ S # {} /\ RefersTo(Audit!LinkTo(S), Audit!Last(S)) /\ Audit!Last(S) \in S
              /\ \A j \in S : j <= Audit!Last(S)
<1>1. CASE S = {}
  BY <1>1 DEF Audit!LinkTo, RefersTo
<1>2. CASE S # {}
  <2>1. Audit!Last(S) \in S /\ \A j \in S : j <= Audit!Last(S)
    BY <1>2, LastIs
  <2>2. PICK i : i = Audit!Last(S)
    OBVIOUS
  <2>3. i \in Audit!Ids /\ i # 0 /\ auditLines[i] # Audit!NoLine
    <3>1. i \in Audit!Ids
      BY <2>1, <2>2
    <3>2. i >= 1 /\ i \in Nat
      BY <3>1, IdsAre
    <3> QED
      BY <2>1, <2>2, <3>1, <3>2
  <2>4. CASE auditLines[i].digest = <<>>
    <3>1. Audit!LinkTo(S) = <<"LEGACY", i>>
      BY <1>2, <2>2, <2>4 DEF Audit!LinkTo
    <3> QED
      BY <1>2, <2>1, <2>2, <2>3, <3>1 DEF RefersTo
  <2>5. CASE auditLines[i].digest # <<>>
    <3>1. Audit!LinkTo(S) = auditLines[i].digest
      BY <1>2, <2>2, <2>5 DEF Audit!LinkTo
    <3>2. PICK a : auditLines[i].digest = Audit!Digest(i, auditLines[i].school, a,
              auditLines[i].previous)
      BY <2>3, <2>5 DEF ChainInv, Signed
    <3>3. RefersTo(Audit!LinkTo(S), i)
      BY <2>3, <3>1, <3>2 DEF RefersTo, Audit!Digest
    <3> QED
      BY <1>2, <2>1, <2>2, <3>3
  <2> QED
    BY <2>4, <2>5
<1> QED
  BY <1>1, <1>2

LEMMA ChainInit == Audit!Init => ChainInv
<1> SUFFICES ASSUME Audit!Init PROVE ChainInv
  OBVIOUS
<1>1. /\ auditNextId = 2 /\ auditAltered = {} /\ auditRemoved = {} /\ auditCrossed = {}
      /\ auditWriter = [w \in Writers |-> Audit!Idle]
  BY DEF Audit!Init
<1>2. PICK old \in [{1} -> {Audit!NoLine} \cup {Audit!Legacy(s, a) : s \in Schools,
          a \in Actions}] :
        auditLines = [i \in Audit!Ids |-> IF i = 1 THEN old[i] ELSE Audit!NoLine]
  BY DEF Audit!Init
<1>3. \A i \in Audit!Ids : auditLines[i] # Audit!NoLine =>
        i = 1 /\ \E s \in Schools, a \in Actions : auditLines[i] = Audit!Legacy(s, a)
  BY <1>2
<1>4. \A i \in Audit!Ids : auditLines[i] # Audit!NoLine =>
        /\ i < auditNextId /\ "action" \in DOMAIN auditLines[i]
             /\ auditLines[i].school \in Schools
        /\ auditLines[i].digest = <<>>
  BY <1>1, <1>3, LegacyIs
<1>5. auditLines = [i \in Audit!Ids |-> auditLines[i]]
  BY <1>2
<1>6. \A s : \A i \in Audit!LinesOf(s) : auditLines[i].digest = <<>>
  BY <1>4 DEF Audit!LinesOf
<1> QED
  BY <1>1, <1>4, <1>5, <1>6 DEF ChainInv

\* What a step of the log does to lines, numbers and writers at most: it only takes out lines,
\* or writes one that was in hand.
Grows ==
  /\ auditNextId' \in Nat /\ auditNextId <= auditNextId'
  /\ \A i \in Audit!Ids : auditLines'[i] = Audit!NoLine
       \/ (auditLines[i] # Audit!NoLine /\ auditLines'[i].school = auditLines[i].school)
       \/ \E w \in Writers : auditWriter[w].at = "flushed" /\ auditWriter[w].id = i
  /\ \A w \in Writers : auditWriter'[w].at = "flushed" =>
       \/ auditWriter[w].at = "flushed" /\ auditWriter'[w].id = auditWriter[w].id
       \/ auditWriter'[w].id >= auditNextId
  /\ \A i \in Audit!Ids :
       (\E w \in Writers : auditWriter'[w].at = "flushed" /\ auditWriter'[w].id = i)
                      => auditLines[i] = Audit!NoLine

LEMMA GoneStays ==
  ASSUME ChainInv, Grows, NEW n, Gone(n)
  PROVE  Gone(n)'
<1>1. n \in Audit!Ids /\ n < auditNextId /\ auditLines[n] = Audit!NoLine
          /\ auditNextId \in Nat /\ n \in Nat
  BY IdsAre DEF Gone, ChainInv
<1>2. auditLines'[n] = Audit!NoLine
  BY <1>1 DEF Gone, Grows
<1>3. n < auditNextId'
  BY <1>1 DEF Grows
<1>4. ASSUME NEW w \in Writers, auditWriter'[w].at = "flushed" PROVE auditWriter'[w].id # n
  <2>1. CASE auditWriter[w].at = "flushed" /\ auditWriter'[w].id = auditWriter[w].id
    BY <2>1 DEF Gone
  <2>2. CASE auditWriter'[w].id >= auditNextId
    BY <1>1, <2>2
  <2> QED
    BY <1>4, <2>1, <2>2 DEF Grows
<1> QED
  BY <1>1, <1>2, <1>3, <1>4 DEF Gone

LEMMA FollowsStays ==
  ASSUME ChainInv, Grows, NEW s, NEW p, NEW S, NEW m \in Nat, Follows(s, p, S, m),
         NEW T, T \subseteq S, NEW k \in Nat, m <= k
  PROVE  Follows(s, p, T, k)'
<1>1. PICK n \in 0..MaxLines :
        /\ RefersTo(p, n) /\ n < m /\ \A j \in S : j <= n
        /\ n = 0 \/ n \in Audit!LinesOf(s) \/ Gone(n)
  BY DEF Follows
<1>2. n < k /\ \A j \in T : j <= n
  BY <1>1, IdsAre
<1>3. CASE n = 0 \/ Gone(n)
  <2>1. n = 0 \/ Gone(n)'
    BY <1>3, GoneStays
  <2>2. (RefersTo(p, n) /\ n < k /\ \A j \in T : j <= n) /\ (n = 0 \/ Gone(n)')
    BY <1>1, <1>2, <2>1
  <2> QED
    BY <2>2 DEF Follows
<1>4. CASE n \in Audit!LinesOf(s)
  <2>1. n \in Audit!Ids /\ auditLines[n] # Audit!NoLine /\ auditLines[n].school = s
            /\ n < auditNextId /\ auditNextId \in Nat
        /\ n \in Nat
    BY <1>4, IdsAre DEF Audit!LinesOf, ChainInv
  <2>2. ASSUME NEW w \in Writers, auditWriter[w].at = "flushed" PROVE auditWriter[w].id # n
    BY <2>1, <2>2, IdleIs DEF ChainInv, Writing
  <2>3. CASE auditLines'[n] # Audit!NoLine
    <3>1. auditLines'[n].school = s
      BY <2>1, <2>2, <2>3 DEF Grows
    <3>2. n \in Audit!LinesOf(s)'
      BY <2>1, <2>3, <3>1 DEF Audit!LinesOf
    <3>3. (RefersTo(p, n) /\ n < k /\ \A j \in T : j <= n) /\ n \in Audit!LinesOf(s)'
      BY <1>1, <1>2, <3>2
    <3> QED
      BY <3>3 DEF Follows
  <2>4. CASE auditLines'[n] = Audit!NoLine
    <3>1. n < auditNextId'
      BY <2>1 DEF Grows
    <3>2. \A w \in Writers : auditWriter'[w].at = "flushed" => auditWriter'[w].id # n
      BY <2>1 DEF Grows
    <3>3. Gone(n)'
      BY <2>1, <2>4, <3>1, <3>2 DEF Gone
    <3>4. (RefersTo(p, n) /\ n < k /\ \A j \in T : j <= n) /\ Gone(n)'
      BY <1>1, <1>2, <3>3
    <3> QED
      BY <3>4 DEF Follows
  <2> QED
    BY <2>3, <2>4
<1> QED
  BY <1>1, <1>3, <1>4

\* A link depends on the lines before it.
LEMMA LinkSame ==
  ASSUME NEW S, S \subseteq Audit!Ids, \A i \in S : auditLines'[i] = auditLines[i]
  PROVE  Audit!LinkTo(S)' = Audit!LinkTo(S)
<1>1. CASE S = {}
  BY <1>1 DEF Audit!LinkTo
<1>2. CASE S # {}
  <2>1. PICK i : i = Audit!Last(S)
    OBVIOUS
  <2>2. i \in S
    BY <1>2, <2>1, LastIs
  <2>3. Audit!LinkTo(S) = IF auditLines[i].digest = <<>> THEN <<"LEGACY", i>>
            ELSE auditLines[i].digest
    BY <1>2, <2>1 DEF Audit!LinkTo
  <2>4. Audit!LinkTo(S)' = IF auditLines'[i].digest = <<>> THEN <<"LEGACY", i>>
            ELSE auditLines'[i].digest
    BY <1>2, <2>1 DEF Audit!LinkTo
  <2> QED
    BY <2>2, <2>3, <2>4
<1> QED
  BY <1>1, <1>2

\* A line that stays as it was stays linked, when none comes before it and nothing is taken
\* out of its school.
LEMMA LinkedStays ==
  ASSUME ChainInv, Grows, NEW s \in Schools \ auditCrossed, NEW i \in Audit!LinesOf(s),
      Linked(s, i),
         auditLines'[i].previous = auditLines[i].previous,
             Audit!Before(s, i)' \subseteq Audit!Before(s, i),
         s \notin auditTouched' =>
           s \notin auditTouched /\ Audit!Before(s, i)' = Audit!Before(s, i)
           /\ \A j \in Audit!Before(s, i) : auditLines'[j] = auditLines[j],
         \A g : <<g, i>> \in auditRemoved' =>
           <<g, i>> \in auditRemoved
           \/ \E n \in Audit!Ids : RefersTo(auditLines[i].previous, n) /\ Gone(n)'
  PROVE  Linked(s, i)'
<1>1. PICK p : p = auditLines[i].previous
  OBVIOUS
<1>2. i \in Audit!Ids /\ i \in Nat /\ Audit!Before(s, i) \subseteq Audit!Ids
  BY IdsAre DEF Audit!LinesOf, Audit!Before
<1>3. PICK T : T = Audit!Before(s, i)'
  OBVIOUS
<1>4. Follows(s, p, Audit!Before(s, i), i)
  BY <1>1 DEF Linked
<1>5. Follows(s, p, T, i)'
  BY <1>2, <1>3, <1>4, FollowsStays
<1>6. s \notin auditTouched' => p = Audit!LinkTo(T)'
  <2> SUFFICES ASSUME s \notin auditTouched' PROVE p = Audit!LinkTo(T)'
    OBVIOUS
  <2>1. p = Audit!LinkTo(T) /\ T \subseteq Audit!Ids /\ \A j \in T :
            auditLines'[j] = auditLines[j]
    BY <1>1, <1>2, <1>3 DEF Linked
  <2> QED
    BY <2>1, LinkSame
<1>7. \A g : <<g, i>> \in auditRemoved' => \E n \in Audit!Ids : RefersTo(p, n) /\ Gone(n)'
  BY <1>1, GoneStays DEF Linked
<1>8. auditLines'[i].previous = p
  BY <1>1
<1> QED
  BY <1>3, <1>5, <1>6, <1>7, <1>8 DEF Linked

\* A writer that waits goes on as it was, when nothing of its school changes but by hand.
LEMMA WritingStays ==
  ASSUME ChainInv, Grows, NEW w \in Writers, auditWriter[w] # Audit!Idle,
      auditWriter'[w] = auditWriter[w],
         \A i \in Audit!Ids : auditLines[i] = Audit!NoLine /\ auditLines'[i] # Audit!NoLine
             /\ auditWriter[w].at = "flushed"
                              => auditWriter[w].id # i,
         \A i \in auditAltered' : i \in auditAltered
             \/ (i \in Audit!Ids /\ auditLines[i] # Audit!NoLine),
         \A g, i : <<g, i>> \in auditRemoved' => <<g, i>> \in auditRemoved
                                                 \/ (i \in Audit!Ids
                                                      /\ auditLines[i] # Audit!NoLine),
         auditWriter[w].school \notin auditCrossed' =>
           /\ auditWriter[w].school \notin auditCrossed
           /\ \A v \in Writers : auditWriter'[v] # Audit!Idle
                /\ auditWriter'[v].school = auditWriter[w].school =>
                auditWriter[v] # Audit!Idle /\ auditWriter[v].school = auditWriter[w].school
           /\ Audit!LinesOf(auditWriter[w].school)'
                \subseteq Audit!LinesOf(auditWriter[w].school)
           /\ auditWriter[w].school \notin auditTouched' =>
                /\ auditWriter[w].school \notin auditTouched
                /\ Audit!LinesOf(auditWriter[w].school)' = Audit!LinesOf(auditWriter[w].school)
                /\ \A i \in Audit!LinesOf(auditWriter[w].school) :
                     auditLines'[i] = auditLines[i]
  PROVE  Writing(w)'
<1>1. PICK r : r = auditWriter[w]
  OBVIOUS
<1>2. PICK s : s = r.school
  OBVIOUS
<1>3. r.at \in {"read", "flushed"} /\ s \in Schools /\ auditWriter'[w] = r
  BY <1>1, <1>2 DEF ChainInv, Writing
<1>4. ASSUME r.at = "flushed"
      PROVE  /\ r.id \in Audit!Ids /\ r.id < auditNextId' /\ auditLines'[r.id] = Audit!NoLine
             /\ r.id \notin auditAltered' /\ \A g : <<g, r.id>> \notin auditRemoved'
             /\ \A v \in Writers : auditWriter'[v].at = "flushed" /\ auditWriter'[v].id = r.id
                  => v = w
  <2>1. /\ r.id \in Audit!Ids /\ r.id < auditNextId /\ auditLines[r.id] = Audit!NoLine
        /\ r.id \notin auditAltered /\ \A g : <<g, r.id>> \notin auditRemoved
        /\ \A v \in Writers : auditWriter[v].at = "flushed" /\ auditWriter[v].id = r.id
             => v = w
    BY <1>1, <1>4 DEF ChainInv, Writing
  <2>2. r.id \in Nat /\ auditNextId \in Nat /\ auditNextId' \in Nat
            /\ auditNextId <= auditNextId'
    BY <2>1, IdsAre DEF ChainInv, Grows
  <2>3. auditLines'[r.id] = Audit!NoLine
    BY <1>1, <1>4, <2>1
  <2>4. ASSUME NEW v \in Writers, auditWriter'[v].at = "flushed", auditWriter'[v].id = r.id
            PROVE v = w
    <3>1. ~(auditWriter'[v].id >= auditNextId)
      BY <2>1, <2>2, <2>4
    <3>2. auditWriter[v].at = "flushed" /\ auditWriter[v].id = r.id
      BY <2>4, <3>1 DEF Grows
    <3> QED
      BY <2>1, <3>2
  <2> QED
    BY <2>1, <2>2, <2>3, <2>4
<1>5. PICK L : L = Audit!LinesOf(s)
  OBVIOUS
<1>6. PICK K : K = Audit!LinesOf(s)'
  OBVIOUS
<1>7. PICK m : m = NumberedAs(w)
  OBVIOUS
<1>8. PICK k : k = NumberedAs(w)'
  OBVIOUS
<1>9. m \in Nat /\ k \in Nat /\ m <= k
  <2>1. CASE r.at = "flushed"
    BY <1>1, <1>3, <1>7, <1>8, <2>1, IdsAre DEF NumberedAs, ChainInv, Writing
  <2>2. CASE r.at # "flushed"
    BY <1>1, <1>3, <1>7, <1>8, <2>2 DEF NumberedAs, ChainInv, Grows
  <2> QED
    BY <2>1, <2>2
<1>10. ASSUME s \notin auditCrossed'
       PROVE  /\ \A v \in Writers : auditWriter'[v] # Audit!Idle /\ auditWriter'[v].school = s
                   => v = w
              /\ Follows(s, r.previous, K, k)'
              /\ s \notin auditTouched' => r.previous = Audit!LinkTo(K)'
  <2>1. /\ \A v \in Writers : auditWriter[v] # Audit!Idle /\ auditWriter[v].school = s => v = w
        /\ Follows(s, r.previous, L, m)
        /\ s \notin auditTouched => r.previous = Audit!LinkTo(L)
    BY <1>1, <1>2, <1>5, <1>7, <1>10 DEF ChainInv, Writing
  <2>2. \A v \in Writers : auditWriter'[v] # Audit!Idle /\ auditWriter'[v].school = s => v = w
    BY <1>1, <1>2, <1>10, <2>1
  <2>3. K \subseteq L
    BY <1>1, <1>2, <1>5, <1>6, <1>10
  <2>4. Follows(s, r.previous, K, k)'
    BY <1>9, <2>1, <2>3, FollowsStays
  <2>5. s \notin auditTouched' => r.previous = Audit!LinkTo(K)'
    <3> SUFFICES ASSUME s \notin auditTouched' PROVE r.previous = Audit!LinkTo(K)'
      OBVIOUS
    <3>1. s \notin auditTouched /\ K = L /\ \A i \in L : auditLines'[i] = auditLines[i]
      BY <1>1, <1>2, <1>5, <1>6, <1>10
    <3>2. L \subseteq Audit!Ids
      BY <1>5 DEF Audit!LinesOf
    <3> QED
      BY <2>1, <3>1, <3>2, LinkSame
  <2> QED
    BY <2>2, <2>4, <2>5
<1> QED
  BY <1>2, <1>3, <1>4, <1>6, <1>8, <1>10 DEF Writing

LEMMA SignedStays ==
  ASSUME NEW i, Signed(i), auditLines'[i] = auditLines[i], i \in auditAltered'
      <=> i \in auditAltered,
         auditTouched \subseteq auditTouched'
  PROVE  Signed(i)'
<1>1. PICK a : /\ auditLines[i].digest = Audit!Digest(i, auditLines[i].school, a,
                    auditLines[i].previous)
               /\ i \in auditAltered <=> a # auditLines[i].action
               /\ i \in auditAltered => auditLines[i].school \in auditTouched
  BY DEF Signed
<1>2. /\ auditLines'[i].digest = Audit!Digest(i, auditLines'[i].school, a,
           auditLines'[i].previous)
      /\ i \in auditAltered' <=> a # auditLines'[i].action
      /\ i \in auditAltered' => auditLines'[i].school \in auditTouched'
  BY <1>1 DEF Audit!Digest
<1> QED
  BY <1>2 DEF Signed, Audit!Digest

\* The number that a writer was given is nobody's line.
LEMMA GrowsFrom ==
  ASSUME ChainInv, auditNextId' \in Nat, auditNextId <= auditNextId',
         \A i \in Audit!Ids : \/ auditLines'[i] = Audit!NoLine
                              \/ auditLines[i] # Audit!NoLine
                                   /\ auditLines'[i].school = auditLines[i].school
                              \/ \E w \in Writers : auditWriter[w].at = "flushed"
                                   /\ auditWriter[w].id = i,
         \A w \in Writers : auditWriter'[w].at = "flushed" =>
           \/ auditWriter[w].at = "flushed" /\ auditWriter'[w].id = auditWriter[w].id
           \/ auditWriter'[w].id = auditNextId
  PROVE  Grows
<1>1. ASSUME NEW w \in Writers, auditWriter'[w].at = "flushed",
          auditWriter'[w].id \in Audit!Ids
      PROVE  auditLines[auditWriter'[w].id] = Audit!NoLine
  <2>1. CASE auditWriter[w].at = "flushed" /\ auditWriter'[w].id = auditWriter[w].id
    <3>1. auditWriter[w] # Audit!Idle
      BY <2>1, IdleIs
    <3> QED
      BY <2>1, <3>1 DEF ChainInv, Writing
  <2>2. CASE auditWriter'[w].id = auditNextId
    <3>1. auditNextId \in Nat /\ ~(auditNextId < auditNextId)
      BY DEF ChainInv
    <3> QED
      BY <1>1, <2>2, <3>1 DEF ChainInv
  <2> QED
    BY <1>1, <2>1, <2>2
<1>2. \A w \in Writers : auditWriter'[w].at = "flushed" =>
           \/ auditWriter[w].at = "flushed" /\ auditWriter'[w].id = auditWriter[w].id
           \/ auditWriter'[w].id >= auditNextId
  <2>1. auditNextId \in Nat
    BY DEF ChainInv
  <2> QED
    BY <2>1
<1> QED
  BY <1>1, <1>2 DEF Grows

LEMMA ReadKeeps ==
  ASSUME ChainInv, NEW w \in Writers, NEW s \in Schools, NEW a, Audit!Read(w, s, a)
  PROVE  ChainInv'
<1>1. PICK r : r = [at |-> "read", school |-> s, action |-> a,
          previous |-> Audit!LinkTo(Audit!LinesOf(s))]
  OBVIOUS
<1>2. /\ r.at = "read" /\ r.school = s /\ r.previous = Audit!LinkTo(Audit!LinesOf(s))
           /\ r # Audit!Idle
      /\ auditWriter[w] = Audit!Idle /\ auditWriter' = [auditWriter EXCEPT ![w] = r]
      /\ auditCrossed'
           = (IF \E v \in Writers : auditWriter[v] # Audit!Idle /\ auditWriter[v].school = s
                          THEN auditCrossed \cup {s} ELSE auditCrossed)
      /\ UNCHANGED <<auditLines, auditNextId, auditTouched, auditAltered, auditRemoved>>
  BY <1>1, IdleIs DEF Audit!Read
<1>3. /\ auditWriter' = [v \in Writers |-> auditWriter'[v]]
      /\ \A v \in Writers : auditWriter'[v] = IF v = w THEN r ELSE auditWriter[v]
  BY <1>2 DEF ChainInv
<1>4. Grows
  <2>1. auditNextId' \in Nat /\ auditNextId <= auditNextId'
    BY <1>2 DEF ChainInv
  <2>2. \A v \in Writers : auditWriter'[v].at = "flushed" =>
          auditWriter[v].at = "flushed" /\ auditWriter'[v].id = auditWriter[v].id
    BY <1>2, <1>3, IdleIs
  <2> QED
    BY <1>2, <2>1, <2>2, GrowsFrom
<1>5. \A q : Audit!LinesOf(q)' = Audit!LinesOf(q)
          /\ \A i : Audit!Before(q, i)' = Audit!Before(q, i)
  BY <1>2 DEF Audit!LinesOf, Audit!Before
<1>6. ASSUME NEW v \in Writers, auditWriter'[v] # Audit!Idle PROVE Writing(v)'
  <2>1. CASE v # w
    <3>1. auditWriter'[v] = auditWriter[v] /\ auditWriter[v] # Audit!Idle
      BY <1>3, <1>6, <2>1
    <3>2. ASSUME auditWriter[v].school \notin auditCrossed'
          PROVE  /\ auditWriter[v].school \notin auditCrossed /\ auditWriter[v].school # s
                 /\ \A u \in Writers : auditWriter'[u] # Audit!Idle
                      /\ auditWriter'[u].school = auditWriter[v].school =>
                      auditWriter[u] # Audit!Idle
                          /\ auditWriter[u].school = auditWriter[v].school
      BY <1>2, <1>3, <3>1, <3>2
    <3> QED
      BY <1>2, <1>4, <1>5, <3>1, <3>2, WritingStays
  <2>2. CASE v = w
    <3>1. auditWriter'[v] = r
      BY <1>3, <2>2
    <3>2. PICK L : L = Audit!LinesOf(s)
      OBVIOUS
    <3>3. L \subseteq Audit!Ids /\ \A i \in L : auditLines[i] # Audit!NoLine
      BY <3>2 DEF Audit!LinesOf
    <3>4. PICK n \in 0..MaxLines :
            /\ RefersTo(r.previous, n) /\ n < auditNextId /\ \A j \in L : j <= n
            /\ n = 0 \/ n \in L
      <4>1. PICK p : p = Audit!LinkTo(L)
        OBVIOUS
      <4>2. r.previous = p /\ auditNextId \in Nat /\ auditNextId > 1 /\ MaxLines \in Nat
        BY <1>2, <3>2, <4>1, IdsAre DEF ChainInv
      <4>3. CASE L = {} /\ RefersTo(p, 0)
        BY <4>2, <4>3
      <4>4. CASE /\ L # {} /\ RefersTo(p, Audit!Last(L)) /\ Audit!Last(L) \in L
                 /\ \A j \in L : j <= Audit!Last(L)
        <5>1. PICK i : i = Audit!Last(L)
          OBVIOUS
        <5>2. i \in Audit!Ids /\ auditLines[i] # Audit!NoLine /\ i \in Nat /\ i <= MaxLines
          BY <3>3, <4>4, <5>1, IdsAre
        <5>3. i \in 0..MaxLines /\ i < auditNextId
          BY <4>2, <5>2 DEF ChainInv
        <5> QED
          BY <4>2, <4>4, <5>1, <5>3
      <4> QED
        BY <3>3, <4>1, <4>3, <4>4, LinkRefers
    <3>5. Follows(s, r.previous, L, auditNextId)
      BY <3>2, <3>4 DEF Follows
    <3>6. PICK m : m = auditNextId
      OBVIOUS
    <3>7. Follows(s, r.previous, L, m)'
      <4>1. m \in Nat /\ m <= m /\ Follows(s, r.previous, L, m) /\ L \subseteq L
        BY <3>5, <3>6 DEF ChainInv
      <4> QED
        BY <1>4, <4>1, FollowsStays
    <3>8. NumberedAs(v)' = m /\ Audit!LinesOf(s)' = L
      BY <1>2, <1>5, <3>1, <3>2, <3>6 DEF NumberedAs
    <3>9. r.previous = Audit!LinkTo(L)'
      BY <1>2, <3>2, <3>3, LinkSame
    <3>10. s \notin auditCrossed' => \A u \in Writers : auditWriter'[u] # Audit!Idle
               /\ auditWriter'[u].school = s => u = v
      BY <1>2, <1>3, <2>2
    <3> QED
      BY <1>2, <3>1, <3>7, <3>8, <3>9, <3>10 DEF Writing
  <2> QED
    BY <2>1, <2>2
<1>7. ASSUME NEW q \in Schools \ auditCrossed', NEW i \in Audit!LinesOf(q)',
          auditLines'[i].digest # <<>>
      PROVE  Linked(q, i)'
  <2>1. q \in Schools \ auditCrossed /\ i \in Audit!LinesOf(q) /\ Linked(q, i)
    BY <1>2, <1>5, <1>7 DEF ChainInv
  <2> QED
    BY <1>2, <1>4, <1>5, <2>1, LinkedStays
<1>8. \A i \in Audit!Ids : Signed(i) => Signed(i)'
  BY <1>2, SignedStays
<1> QED
  BY <1>2, <1>3, <1>6, <1>7, <1>8 DEF ChainInv

LEMMA RollBackKeeps ==
  ASSUME ChainInv, NEW w \in Writers, Audit!RollBack(w)
  PROVE  ChainInv'
<1>2. /\ auditWriter' = [auditWriter EXCEPT ![w] = Audit!Idle]
      /\ UNCHANGED <<auditLines, auditNextId, auditCrossed, auditTouched, auditAltered,
           auditRemoved>>
  BY DEF Audit!RollBack
<1>3. /\ auditWriter' = [v \in Writers |-> auditWriter'[v]]
      /\ \A v \in Writers : auditWriter'[v] = IF v = w THEN Audit!Idle ELSE auditWriter[v]
  BY <1>2 DEF ChainInv
<1>4. Grows
  <2>1. auditNextId' \in Nat /\ auditNextId <= auditNextId'
    BY <1>2 DEF ChainInv
  <2>2. \A v \in Writers : auditWriter'[v].at = "flushed" =>
          auditWriter[v].at = "flushed" /\ auditWriter'[v].id = auditWriter[v].id
    BY <1>2, <1>3, IdleIs
  <2> QED
    BY <1>2, <2>1, <2>2, GrowsFrom
<1>5. \A q : Audit!LinesOf(q)' = Audit!LinesOf(q)
          /\ \A i : Audit!Before(q, i)' = Audit!Before(q, i)
  BY <1>2 DEF Audit!LinesOf, Audit!Before
<1>6. ASSUME NEW v \in Writers, auditWriter'[v] # Audit!Idle PROVE Writing(v)'
  <2>1. auditWriter'[v] = auditWriter[v] /\ auditWriter[v] # Audit!Idle
    BY <1>3, <1>6
  <2>2. \A u \in Writers : auditWriter'[u] # Audit!Idle => auditWriter'[u] = auditWriter[u]
    BY <1>3
  <2> QED
    BY <1>2, <1>4, <1>5, <2>1, <2>2, WritingStays
<1>7. ASSUME NEW q \in Schools \ auditCrossed', NEW i \in Audit!LinesOf(q)',
          auditLines'[i].digest # <<>>
      PROVE  Linked(q, i)'
  <2>1. q \in Schools \ auditCrossed /\ i \in Audit!LinesOf(q) /\ Linked(q, i)
    BY <1>2, <1>5, <1>7 DEF ChainInv
  <2> QED
    BY <1>2, <1>4, <1>5, <2>1, LinkedStays
<1>8. \A i \in Audit!Ids : Signed(i) => Signed(i)'
  BY <1>2, SignedStays
<1> QED
  BY <1>2, <1>3, <1>6, <1>7, <1>8 DEF ChainInv

LEMMA FlushKeeps ==
  ASSUME ChainInv, NEW w \in Writers, Audit!Flush(w)
  PROVE  ChainInv'
<1>a. PICK o : o = auditWriter[w]
  OBVIOUS
<1>1. PICK r : r = [at |-> "flushed", school |-> o.school, action |-> o.action,
                    previous |-> o.previous, id |-> auditNextId]
  OBVIOUS
<1>2. /\ r.at = "flushed" /\ r.school = o.school /\ r.previous = o.previous
           /\ r.id = auditNextId
      /\ r # Audit!Idle /\ o.at = "read" /\ o # Audit!Idle /\ auditNextId <= MaxLines
           /\ auditNextId' = auditNextId + 1
      /\ auditWriter' = [auditWriter EXCEPT ![w] = r]
      /\ UNCHANGED <<auditLines, auditCrossed, auditTouched, auditAltered, auditRemoved>>
  <2>1. w \in DOMAIN auditWriter
    BY DEF ChainInv
  <2> QED
    BY <1>a, <1>1, <2>1, IdleIs DEF Audit!Flush
<1>3. /\ auditWriter' = [v \in Writers |-> auditWriter'[v]]
      /\ \A v \in Writers : auditWriter'[v] = IF v = w THEN r ELSE auditWriter[v]
  BY <1>2 DEF ChainInv
<1>b. auditNextId \in Nat /\ auditNextId > 1 /\ auditNextId' \in Nat
          /\ auditNextId \in Audit!Ids
      /\ auditLines[auditNextId] = Audit!NoLine
  <2>1. auditNextId \in Nat /\ auditNextId > 1
    BY DEF ChainInv
  <2>2. auditNextId \in Audit!Ids
    BY <1>2, <2>1, IdsAre DEF Audit!Ids
  <2> QED
    BY <1>2, <2>1, <2>2 DEF ChainInv
<1>4. Grows
  <2>1. auditNextId' \in Nat /\ auditNextId <= auditNextId'
    BY <1>2, <1>b
  <2>2. \A v \in Writers : auditWriter'[v].at = "flushed" =>
          \/ auditWriter[v].at = "flushed" /\ auditWriter'[v].id = auditWriter[v].id
          \/ auditWriter'[v].id = auditNextId
    BY <1>2, <1>3
  <2> QED
    BY <1>2, <2>1, <2>2, GrowsFrom
<1>5. \A q : Audit!LinesOf(q)' = Audit!LinesOf(q)
          /\ \A i : Audit!Before(q, i)' = Audit!Before(q, i)
  BY <1>2 DEF Audit!LinesOf, Audit!Before
<1>6. ASSUME NEW v \in Writers, auditWriter'[v] # Audit!Idle PROVE Writing(v)'
  <2>1. CASE v # w
    <3>1. auditWriter'[v] = auditWriter[v] /\ auditWriter[v] # Audit!Idle
      BY <1>3, <1>6, <2>1
    <3>2. \A u \in Writers : \A s : auditWriter'[u] # Audit!Idle
              /\ auditWriter'[u].school = s =>
                      auditWriter[u] # Audit!Idle /\ auditWriter[u].school = s
      BY <1>a, <1>2, <1>3
    <3> QED
      BY <1>2, <1>4, <1>5, <3>1, <3>2, WritingStays
  <2>2. CASE v = w
    <3>1. auditWriter'[v] = r
      BY <1>3, <2>2
    <3>2. PICK s : s = o.school
      OBVIOUS
    <3>3. PICK L : L = Audit!LinesOf(s)
      OBVIOUS
    <3>4. s \in Schools /\ (s \notin auditCrossed =>
            /\ \A u \in Writers : auditWriter[u] # Audit!Idle /\ auditWriter[u].school = s
                 => u = w
            /\ Follows(s, r.previous, L, NumberedAs(w))
            /\ s \notin auditTouched => r.previous = Audit!LinkTo(L))
      BY <1>a, <1>2, <3>2, <3>3 DEF ChainInv, Writing
    <3>5. PICK m : m = auditNextId
      OBVIOUS
    <3>6. m \in Nat /\ m <= m /\ L \subseteq L /\ NumberedAs(w) = m /\ NumberedAs(v)' = m
          /\ Audit!LinesOf(s)' = L /\ L \subseteq Audit!Ids
      BY <1>a, <1>2, <1>5, <1>b, <3>1, <3>3, <3>5 DEF NumberedAs, Audit!LinesOf
    <3>7. s \notin auditCrossed => Follows(s, r.previous, L, m)'
      BY <1>4, <3>4, <3>6, FollowsStays
    <3>8. s \notin auditCrossed /\ s \notin auditTouched => r.previous = Audit!LinkTo(L)'
      BY <1>2, <3>4, <3>6, LinkSame
    <3>9. s \notin auditCrossed => \A u \in Writers : auditWriter'[u] # Audit!Idle
              /\ auditWriter'[u].school = s => u = v
      BY <1>2, <1>3, <2>2, <3>4
    <3>10. /\ r.id \in Audit!Ids /\ r.id < auditNextId' /\ auditLines[r.id] = Audit!NoLine
           /\ r.id \notin auditAltered /\ \A g : <<g, r.id>> \notin auditRemoved
      BY <1>2, <1>b DEF ChainInv
    <3>11. ASSUME NEW u \in Writers, auditWriter'[u].at = "flushed", auditWriter'[u].id = r.id
           PROVE  u = v
      <4>1. CASE u # w
        <5>1. auditWriter[u].at = "flushed" /\ auditWriter[u].id = auditNextId
                  /\ auditWriter[u] # Audit!Idle
          BY <1>2, <1>3, <3>11, <4>1, IdleIs
        <5>2. auditWriter[u].id < auditNextId
          BY <5>1 DEF ChainInv, Writing
        <5> QED
          BY <1>b, <5>1, <5>2
      <4> QED
        BY <2>2, <4>1
    <3> QED
      BY <1>2, <3>1, <3>2, <3>4, <3>6, <3>7, <3>8, <3>9, <3>10, <3>11 DEF Writing
  <2> QED
    BY <2>1, <2>2
<1>7. ASSUME NEW q \in Schools \ auditCrossed', NEW i \in Audit!LinesOf(q)',
          auditLines'[i].digest # <<>>
      PROVE  Linked(q, i)'
  <2>1. q \in Schools \ auditCrossed /\ i \in Audit!LinesOf(q) /\ Linked(q, i)
    BY <1>2, <1>5, <1>7 DEF ChainInv
  <2> QED
    BY <1>2, <1>4, <1>5, <2>1, LinkedStays
<1>8. \A i \in Audit!Ids : Signed(i) => Signed(i)'
  BY <1>2, SignedStays
<1>9. \A i \in Audit!Ids : i < auditNextId => i < auditNextId'
  BY <1>2, <1>b, IdsAre
<1>10. /\ \A i \in auditAltered' : i \in Audit!Ids /\ i < auditNextId'
       /\ \A g, i : <<g, i>> \in auditRemoved' => i \in Audit!Ids /\ i < auditNextId'
  BY <1>2, <1>9 DEF ChainInv
<1>11. \A i \in Audit!Ids : auditLines'[i] # Audit!NoLine =>
         /\ i < auditNextId' /\ "action" \in DOMAIN auditLines'[i]
              /\ auditLines'[i].school \in Schools
         /\ auditLines'[i].digest # <<>> => Signed(i)'
  BY <1>2, <1>8, <1>9 DEF ChainInv
<1>12. auditNextId' \in Nat /\ auditNextId' > 1
           /\ auditLines' = [i \in Audit!Ids |-> auditLines'[i]]
  BY <1>2, <1>b DEF ChainInv
<1> QED
  BY <1>3, <1>6, <1>7, <1>10, <1>11, <1>12 DEF ChainInv

\* A line comes after all that were committed in its school.
LEMMA LineKeeps ==
  ASSUME ChainInv, NEW w \in Writers, Audit!Commit(w)
  PROVE  ChainInv'
<1>a. PICK r : r = auditWriter[w]
  OBVIOUS
<1>b. PICK l : l = [school |-> r.school, action |-> r.action, previous |-> r.previous,
                    digest |-> Audit!Digest(r.id, r.school, r.action, r.previous)]
  OBVIOUS
<1>c. PICK d : d = r.id
  OBVIOUS
<1>d. PICK s : s = r.school
  OBVIOUS
<1>1. /\ l.school = s /\ l.action = r.action /\ l.previous = r.previous
      /\ l.digest = Audit!Digest(d, l.school, l.action, l.previous)
      /\ "action" \in DOMAIN l /\ l # Audit!NoLine
  <2>1. "action" \notin DOMAIN Audit!NoLine
    BY DEF Audit!NoLine
  <2> QED
    BY <1>b, <1>c, <1>d, <2>1 DEF Audit!Digest
<1>2. /\ r.at = "flushed" /\ auditLines' = [auditLines EXCEPT ![d] = l]
      /\ auditWriter' = [auditWriter EXCEPT ![w] = Audit!Idle] /\ r # Audit!Idle
      /\ UNCHANGED <<auditNextId, auditCrossed, auditTouched, auditAltered, auditRemoved>>
  BY <1>a, <1>b, <1>c, IdleIs DEF Audit!Commit
<1>3. /\ d \in Audit!Ids /\ d < auditNextId /\ auditLines[d] = Audit!NoLine /\ s \in Schools
           /\ d \in Nat
      /\ d \notin auditAltered /\ \A g : <<g, d>> \notin auditRemoved
      /\ \A v \in Writers : auditWriter[v].at = "flushed" /\ auditWriter[v].id = d => v = w
  BY <1>a, <1>c, <1>d, <1>2, IdsAre DEF ChainInv, Writing
<1>4. /\ auditWriter' = [v \in Writers |-> auditWriter'[v]]
      /\ \A v \in Writers : auditWriter'[v] = IF v = w THEN Audit!Idle ELSE auditWriter[v]
      /\ auditLines' = [i \in Audit!Ids |-> auditLines'[i]]
      /\ \A i \in Audit!Ids : auditLines'[i] = IF i = d THEN l ELSE auditLines[i]
  BY <1>2 DEF ChainInv
<1>5. Grows
  <2>1. auditNextId' \in Nat /\ auditNextId <= auditNextId'
    BY <1>2 DEF ChainInv
  <2>2. \A v \in Writers : auditWriter'[v].at = "flushed" =>
          auditWriter[v].at = "flushed" /\ auditWriter'[v].id = auditWriter[v].id
    BY <1>4, IdleIs
  <2>3. ASSUME NEW i \in Audit!Ids
        PROVE  \/ auditLines'[i] = Audit!NoLine
               \/ auditLines[i] # Audit!NoLine /\ auditLines'[i].school = auditLines[i].school
               \/ \E v \in Writers : auditWriter[v].at = "flushed" /\ auditWriter[v].id = i
    <3>1. CASE i = d
      BY <1>a, <1>2, <1>c, <3>1
    <3>2. CASE i # d
      BY <1>4, <3>2
    <3> QED
      BY <3>1, <3>2
  <2>4. \A v \in Writers : auditWriter'[v].at = "flushed" =>
           \/ auditWriter[v].at = "flushed" /\ auditWriter'[v].id = auditWriter[v].id
           \/ auditWriter'[v].id = auditNextId
    BY <2>2
  <2>5. \A i \in Audit!Ids : \/ auditLines'[i] = Audit!NoLine
                             \/ auditLines[i] # Audit!NoLine
                                  /\ auditLines'[i].school = auditLines[i].school
                             \/ \E v \in Writers : auditWriter[v].at = "flushed"
                                  /\ auditWriter[v].id = i
    BY <2>3
  <2> QED
    BY <2>1, <2>4, <2>5, GrowsFrom
<1>6. /\ \A q : q # s => Audit!LinesOf(q)' = Audit!LinesOf(q)
      /\ Audit!LinesOf(s)' = Audit!LinesOf(s) \cup {d}
      /\ d \notin Audit!LinesOf(s) /\ \A q : d \notin Audit!LinesOf(q)
  BY <1>1, <1>3, <1>4 DEF Audit!LinesOf
<1>7. s \notin auditCrossed =>
        /\ \A v \in Writers : auditWriter[v] # Audit!Idle /\ auditWriter[v].school = s => v = w
        /\ Follows(s, l.previous, Audit!LinesOf(s), d)
        /\ s \notin auditTouched => l.previous = Audit!LinkTo(Audit!LinesOf(s))
        /\ \A j \in Audit!LinesOf(s) : j < d
  <2> SUFFICES ASSUME s \notin auditCrossed
               PROVE  /\ \A v \in Writers : auditWriter[v] # Audit!Idle
                           /\ auditWriter[v].school = s => v = w
                      /\ Follows(s, l.previous, Audit!LinesOf(s), d)
                      /\ s \notin auditTouched => l.previous = Audit!LinkTo(Audit!LinesOf(s))
                      /\ \A j \in Audit!LinesOf(s) : j < d
    OBVIOUS
  <2>1. /\ \A v \in Writers : auditWriter[v] # Audit!Idle /\ auditWriter[v].school = s => v = w
        /\ Follows(s, r.previous, Audit!LinesOf(s), NumberedAs(w))
        /\ s \notin auditTouched => r.previous = Audit!LinkTo(Audit!LinesOf(s))
    BY <1>a, <1>d, <1>2 DEF ChainInv, Writing
  <2>2. NumberedAs(w) = d
    BY <1>a, <1>c, <1>2 DEF NumberedAs
  <2>3. PICK n \in 0..MaxLines : n < d /\ \A j \in Audit!LinesOf(s) : j <= n
    BY <2>1, <2>2 DEF Follows
  <2>4. \A j \in Audit!LinesOf(s) : j < d
    <3> SUFFICES ASSUME NEW j \in Audit!LinesOf(s) PROVE j < d
      OBVIOUS
    <3>1. j \in Nat /\ n \in Nat /\ j <= n
      BY <2>3, IdsAre DEF Audit!LinesOf
    <3> QED
      BY <1>3, <2>3, <3>1
  <2> QED
    BY <1>1, <2>1, <2>2, <2>4
<1>8. ASSUME NEW q, NEW i \in Audit!LinesOf(q), q = s => s \notin auditCrossed
      PROVE  Audit!Before(q, i)' = Audit!Before(q, i) /\ auditLines'[i] = auditLines[i]
             /\ \A j \in Audit!Before(q, i) : auditLines'[j] = auditLines[j]
  <2>1. i \in Audit!Ids /\ i # d /\ i \in Nat
    BY <1>6, IdsAre DEF Audit!LinesOf
  <2>2. \A j \in Audit!LinesOf(q) : j # d /\ j \in Audit!Ids
    BY <1>6 DEF Audit!LinesOf
  <2>3. q = s => i < d
    BY <1>7, <1>8
  <2>4. q = s => ~(d < i)
    BY <1>3, <2>1, <2>3
  <2>5. Audit!Before(q, i)' = Audit!Before(q, i)
    BY <1>6, <2>4 DEF Audit!Before
  <2> QED
    BY <1>4, <2>1, <2>2, <2>5 DEF Audit!Before
<1>9. ASSUME NEW v \in Writers, auditWriter'[v] # Audit!Idle PROVE Writing(v)'
  <2>1. auditWriter'[v] = auditWriter[v] /\ auditWriter[v] # Audit!Idle /\ v # w
    BY <1>4, <1>9
  <2>2. auditWriter[v].school \notin auditCrossed => auditWriter[v].school # s
    BY <1>7, <2>1
  <2>3. \A u \in Writers : auditWriter'[u] # Audit!Idle => auditWriter'[u] = auditWriter[u]
    BY <1>4
  <2>4. \A i \in Audit!Ids : auditLines[i] = Audit!NoLine /\ auditLines'[i] # Audit!NoLine
            => i = d
    BY <1>4
  <2>5. auditWriter[v].at = "flushed" => auditWriter[v].id # d
    BY <1>3, <2>1
  <2>6. auditWriter[v].school \notin auditCrossed =>
          /\ Audit!LinesOf(auditWriter[v].school)' = Audit!LinesOf(auditWriter[v].school)
          /\ \A i \in Audit!LinesOf(auditWriter[v].school) : auditLines'[i] = auditLines[i]
    <3> SUFFICES ASSUME auditWriter[v].school \notin auditCrossed
                 PROVE  /\ Audit!LinesOf(auditWriter[v].school)'
                             = Audit!LinesOf(auditWriter[v].school)
                        /\ \A i \in Audit!LinesOf(auditWriter[v].school) :
                             auditLines'[i] = auditLines[i]
      OBVIOUS
    <3>1. PICK q : q = auditWriter[v].school
      OBVIOUS
    <3>2. Audit!LinesOf(q)' = Audit!LinesOf(q) /\ \A i \in Audit!LinesOf(q) :
              auditLines'[i] = auditLines[i]
      BY <1>4, <1>6, <2>2, <3>1 DEF Audit!LinesOf
    <3>3. auditWriter'[v].school = q
      BY <2>1, <3>1
    <3> QED
      BY <3>1, <3>2, <3>3
  <2> QED
    BY <1>2, <1>5, <2>1, <2>3, <2>4, <2>5, <2>6, WritingStays
<1>10. ASSUME NEW q \in Schools \ auditCrossed', NEW i \in Audit!LinesOf(q)',
           auditLines'[i].digest # <<>>
       PROVE  Linked(q, i)'
  <2>1. CASE i # d
    <3>1. q \in Schools \ auditCrossed /\ i \in Audit!LinesOf(q)
      BY <1>2, <1>6, <1>10, <2>1
    <3>2. auditLines'[i] = auditLines[i] /\ Audit!Before(q, i)' = Audit!Before(q, i)
          /\ \A j \in Audit!Before(q, i) : auditLines'[j] = auditLines[j]
      BY <1>8, <3>1
    <3>3. Linked(q, i)
      BY <1>10, <3>1, <3>2 DEF ChainInv
    <3> QED
      BY <1>2, <1>5, <3>1, <3>2, <3>3, LinkedStays
  <2>2. CASE i = d
    <3>1. q = s /\ s \notin auditCrossed /\ auditLines'[d] = l
      BY <1>1, <1>2, <1>3, <1>4, <1>10, <2>2 DEF Audit!LinesOf
    <3>2. PICK L : L = Audit!LinesOf(s)
      OBVIOUS
    <3>3. ~(d < d)
      BY <1>3
    <3>4. Audit!Before(s, d)' = L /\ L \subseteq Audit!Ids
      BY <1>6, <1>7, <3>1, <3>2, <3>3 DEF Audit!Before, Audit!LinesOf
    <3>5. d <= d /\ L \subseteq L /\ Follows(s, l.previous, L, d)
      BY <1>3, <1>7, <3>1, <3>2
    <3>6. Follows(s, l.previous, L, d)'
      BY <1>3, <1>5, <3>5, FollowsStays
    <3>7. s \notin auditTouched => l.previous = Audit!LinkTo(L)'
      <4>1. \A j \in L : auditLines'[j] = auditLines[j]
        BY <1>4, <1>6, <3>2, <3>4
      <4> QED
        BY <1>7, <3>1, <3>2, <3>4, <4>1, LinkSame
    <3>8. \A g : <<g, d>> \notin auditRemoved'
      BY <1>2, <1>3
    <3> QED
      BY <1>2, <2>2, <3>1, <3>4, <3>6, <3>7, <3>8 DEF Linked
  <2> QED
    BY <2>1, <2>2
<1>11. ASSUME NEW i \in Audit!Ids, auditLines'[i] # Audit!NoLine
       PROVE  /\ i < auditNextId' /\ "action" \in DOMAIN auditLines'[i]
                   /\ auditLines'[i].school \in Schools
              /\ auditLines'[i].digest # <<>> => Signed(i)'
  <2>1. CASE i = d
    <3>1. auditLines'[i] = l /\ i \notin auditAltered'
      BY <1>2, <1>3, <1>4, <2>1
    <3>2. Signed(i)'
      BY <1>1, <2>1, <3>1 DEF Signed, Audit!Digest
    <3> QED
      BY <1>1, <1>2, <1>3, <2>1, <3>1, <3>2
  <2>2. CASE i # d
    <3>1. auditLines'[i] = auditLines[i]
      BY <1>4, <2>2
    <3>2. Signed(i) => Signed(i)'
      BY <1>2, <3>1, SignedStays
    <3> QED
      BY <1>2, <1>11, <3>1, <3>2 DEF ChainInv
  <2> QED
    BY <2>1, <2>2
<1> QED
  BY <1>2, <1>4, <1>9, <1>10, <1>11 DEF ChainInv

LEMMA AlterKeeps ==
  ASSUME ChainInv, NEW d \in Audit!Ids, NEW a, Audit!Alter(d, a)
  PROVE  ChainInv'
<1>1. PICK l : l = [auditLines[d] EXCEPT !.action = a]
  OBVIOUS
<1>2. PICK s : s = auditLines[d].school
  OBVIOUS
<1>3. /\ auditLines[d] # Audit!NoLine /\ auditTouched' = auditTouched \cup {s}
           /\ auditLines[d].action # a
      /\ d \notin auditAltered /\ auditAltered' = auditAltered \cup {d}
      /\ auditLines' = [auditLines EXCEPT ![d] = l]
      /\ UNCHANGED <<auditNextId, auditWriter, auditCrossed, auditRemoved>>
  BY <1>1, <1>2 DEF Audit!Alter, Audit!Touch
<1>4. /\ "action" \in DOMAIN l /\ l.action = a /\ l.school = s /\ l # Audit!NoLine
      /\ l.previous = auditLines[d].previous /\ l.digest = auditLines[d].digest
      /\ d < auditNextId /\ s \in Schools
  <2>1. "action" \in DOMAIN auditLines[d] /\ d < auditNextId /\ s \in Schools
    BY <1>2, <1>3 DEF ChainInv
  <2>2. "action" \notin DOMAIN Audit!NoLine
    BY DEF Audit!NoLine
  <2> QED
    BY <1>1, <1>2, <2>1, <2>2
<1>5. /\ auditLines' = [i \in Audit!Ids |-> auditLines'[i]]
      /\ \A i \in Audit!Ids : auditLines'[i] = IF i = d THEN l ELSE auditLines[i]
  BY <1>3 DEF ChainInv
<1>6. Grows
  <2>1. auditNextId' \in Nat /\ auditNextId <= auditNextId'
    BY <1>3 DEF ChainInv
  <2>2. \A i \in Audit!Ids : auditLines'[i] = Audit!NoLine
                             \/ (auditLines[i] # Audit!NoLine
                                  /\ auditLines'[i].school = auditLines[i].school)
    BY <1>2, <1>3, <1>4, <1>5
  <2>3. \A v \in Writers : auditWriter'[v].at = "flushed" =>
          auditWriter[v].at = "flushed" /\ auditWriter'[v].id = auditWriter[v].id
    BY <1>3
  <2>4. \A v \in Writers : auditWriter'[v].at = "flushed" =>
           \/ auditWriter[v].at = "flushed" /\ auditWriter'[v].id = auditWriter[v].id
           \/ auditWriter'[v].id = auditNextId
    BY <2>3
  <2>5. \A i \in Audit!Ids : \/ auditLines'[i] = Audit!NoLine
                             \/ auditLines[i] # Audit!NoLine
                                  /\ auditLines'[i].school = auditLines[i].school
                             \/ \E v \in Writers : auditWriter[v].at = "flushed"
                                  /\ auditWriter[v].id = i
    BY <2>2
  <2> QED
    BY <2>1, <2>4, <2>5, GrowsFrom
<1>7. /\ \A q : Audit!LinesOf(q)' = Audit!LinesOf(q)
           /\ \A i : Audit!Before(q, i)' = Audit!Before(q, i)
      /\ \A q : q # s => d \notin Audit!LinesOf(q)
  BY <1>2, <1>3, <1>4, <1>5 DEF Audit!LinesOf, Audit!Before
<1>8. \A q : \A i \in Audit!LinesOf(q) : q \notin auditTouched'
          => auditLines'[i] = auditLines[i]
  BY <1>3, <1>5, <1>7 DEF Audit!LinesOf
<1>9. ASSUME NEW v \in Writers, auditWriter'[v] # Audit!Idle PROVE Writing(v)'
  <2>1. auditWriter'[v] = auditWriter[v] /\ auditWriter[v] # Audit!Idle
    BY <1>3, <1>9
  <2>2. \A i \in Audit!Ids : ~(auditLines[i] = Audit!NoLine /\ auditLines'[i] # Audit!NoLine)
    BY <1>3, <1>5
  <2>3. \A i \in auditAltered' : i \in auditAltered
            \/ (i \in Audit!Ids /\ auditLines[i] # Audit!NoLine)
    BY <1>3
  <2> QED
    BY <1>3, <1>6, <1>7, <1>8, <2>1, <2>2, <2>3, WritingStays
<1>10. ASSUME NEW q \in Schools \ auditCrossed', NEW i \in Audit!LinesOf(q)',
           auditLines'[i].digest # <<>>
       PROVE  Linked(q, i)'
  <2>1. q \in Schools \ auditCrossed /\ i \in Audit!LinesOf(q) /\ i \in Audit!Ids
    BY <1>3, <1>7, <1>10 DEF Audit!LinesOf
  <2>2. auditLines'[i].previous = auditLines[i].previous
            /\ auditLines'[i].digest = auditLines[i].digest
    BY <1>4, <1>5, <2>1
  <2>3. Linked(q, i)
    BY <1>10, <2>1, <2>2 DEF ChainInv
  <2>4. Audit!Before(q, i) \subseteq Audit!LinesOf(q)
    BY DEF Audit!Before
  <2> QED
    BY <1>3, <1>6, <1>7, <1>8, <2>1, <2>2, <2>3, <2>4, LinkedStays
<1>11. ASSUME NEW i \in Audit!Ids, auditLines'[i] # Audit!NoLine
       PROVE  /\ i < auditNextId' /\ "action" \in DOMAIN auditLines'[i]
                   /\ auditLines'[i].school \in Schools
              /\ auditLines'[i].digest # <<>> => Signed(i)'
  <2>1. CASE i = d
    <3>1. auditLines'[i] = l /\ i \in auditAltered'
      BY <1>3, <1>5, <2>1
    <3>2. ASSUME l.digest # <<>> PROVE Signed(i)'
      <4>1. PICK b : /\ auditLines[d].digest = Audit!Digest(d, auditLines[d].school, b,
                          auditLines[d].previous)
                     /\ d \in auditAltered <=> b # auditLines[d].action
        BY <1>3, <1>4, <3>2 DEF ChainInv, Signed
      <4>2. b # a
        BY <1>3, <4>1
      <4> QED
        BY <1>2, <1>3, <1>4, <2>1, <3>1, <4>1, <4>2 DEF Signed, Audit!Digest
    <3> QED
      BY <1>3, <1>4, <2>1, <3>1, <3>2
  <2>2. CASE i # d
    <3>1. auditLines'[i] = auditLines[i] /\ (i \in auditAltered' <=> i \in auditAltered)
              /\ auditTouched \subseteq auditTouched'
      BY <1>3, <1>5, <2>2
    <3>2. Signed(i) => Signed(i)'
      BY <3>1, SignedStays
    <3> QED
      BY <1>3, <1>11, <3>1, <3>2 DEF ChainInv
  <2> QED
    BY <2>1, <2>2
<1>12. \A i \in auditAltered' : i \in Audit!Ids /\ i < auditNextId'
  BY <1>3, <1>4 DEF ChainInv
<1> QED
  BY <1>3, <1>5, <1>9, <1>10, <1>11, <1>12 DEF ChainInv

\* What came before a line that is taken out is named by no line after it.
LEMMA RemoveKeeps ==
  ASSUME ChainInv, NEW d \in Audit!Ids, Audit!Remove(d)
  PROVE  ChainInv'
<1>1. PICK s : s = auditLines[d].school
  OBVIOUS
<1>2. PICK A : A = Audit!After(d)
  OBVIOUS
<1>3. /\ auditLines[d] # Audit!NoLine /\ auditTouched' = auditTouched \cup {s}
      /\ auditLines' = [auditLines EXCEPT ![d] = Audit!NoLine]
      /\ auditRemoved' = (IF A = {} THEN auditRemoved
           ELSE auditRemoved \cup {<<d, Audit!First(A)>>})
      /\ UNCHANGED <<auditNextId, auditWriter, auditCrossed, auditAltered>>
  BY <1>1, <1>2 DEF Audit!Remove, Audit!Touch
<1>4. d < auditNextId /\ s \in Schools /\ d \in Audit!LinesOf(s) /\ auditNextId \in Nat
          /\ d \in Nat
  BY <1>1, <1>3, IdsAre DEF ChainInv, Audit!LinesOf
<1>5. /\ auditLines' = [i \in Audit!Ids |-> auditLines'[i]]
      /\ \A i \in Audit!Ids : auditLines'[i] = IF i = d THEN Audit!NoLine ELSE auditLines[i]
  BY <1>3 DEF ChainInv
<1>6. Grows
  <2>1. auditNextId' \in Nat /\ auditNextId <= auditNextId'
    BY <1>3 DEF ChainInv
  <2>2. \A i \in Audit!Ids : \/ auditLines'[i] = Audit!NoLine
                             \/ auditLines[i] # Audit!NoLine
                                  /\ auditLines'[i].school = auditLines[i].school
                             \/ \E v \in Writers : auditWriter[v].at = "flushed"
                                  /\ auditWriter[v].id = i
    <3> SUFFICES ASSUME NEW i \in Audit!Ids, auditLines'[i] # Audit!NoLine
                 PROVE  auditLines[i] # Audit!NoLine
                     /\ auditLines'[i].school = auditLines[i].school
      OBVIOUS
    <3> QED
      BY <1>5
  <2>3. \A v \in Writers : auditWriter'[v].at = "flushed" =>
           \/ auditWriter[v].at = "flushed" /\ auditWriter'[v].id = auditWriter[v].id
           \/ auditWriter'[v].id = auditNextId
    BY <1>3
  <2> QED
    BY <2>1, <2>2, <2>3, GrowsFrom
<1>7. /\ \A q : q # s => Audit!LinesOf(q)' = Audit!LinesOf(q)
      /\ Audit!LinesOf(s)' = Audit!LinesOf(s) \ {d}
  BY <1>1, <1>5 DEF Audit!LinesOf
<1>8. \A q : \A i : Audit!Before(q, i)' \subseteq Audit!Before(q, i) /\ (q # s
          => Audit!Before(q, i)' = Audit!Before(q, i))
  BY <1>7 DEF Audit!Before
<1>9. \A q : q # s => \A i \in Audit!LinesOf(q) : auditLines'[i] = auditLines[i]
  BY <1>1, <1>5 DEF Audit!LinesOf
<1>10. A # {} => /\ Audit!First(A) \in Audit!Ids /\ auditLines[Audit!First(A)] # Audit!NoLine
                      /\ Audit!First(A) < auditNextId
                 /\ Audit!First(A) \in A /\ \A j \in A : Audit!First(A) <= j
  <2> SUFFICES ASSUME A # {}
               PROVE  /\ Audit!First(A) \in Audit!Ids /\ auditLines[Audit!First(A)]
                           # Audit!NoLine /\ Audit!First(A) < auditNextId
                      /\ Audit!First(A) \in A /\ \A j \in A : Audit!First(A) <= j
    OBVIOUS
  <2>1. A \subseteq Audit!Ids /\ A \subseteq Audit!LinesOf(s)
    BY <1>1, <1>2 DEF Audit!After, Audit!LinesOf
  <2>2. Audit!First(A) \in A /\ \A j \in A : Audit!First(A) <= j
    BY <2>1, FirstIs
  <2> QED
    BY <2>1, <2>2 DEF Audit!LinesOf, ChainInv
<1>11. \A g, i : <<g, i>> \in auditRemoved' =>
         <<g, i>> \in auditRemoved \/ (A # {} /\ g = d /\ i = Audit!First(A))
  BY <1>3
<1>12. ASSUME NEW v \in Writers, auditWriter'[v] # Audit!Idle PROVE Writing(v)'
  <2>1. auditWriter'[v] = auditWriter[v] /\ auditWriter[v] # Audit!Idle
    BY <1>3, <1>12
  <2>2. \A i \in Audit!Ids : ~(auditLines[i] = Audit!NoLine /\ auditLines'[i] # Audit!NoLine)
    BY <1>5
  <2>3. \A g, i : <<g, i>> \in auditRemoved' => <<g, i>> \in auditRemoved
                                                           \/ (i \in Audit!Ids
                                                                /\ auditLines[i]
                                                                     # Audit!NoLine)
    BY <1>10, <1>11
  <2>4. PICK q : q = auditWriter[v].school
    OBVIOUS
  <2>5. /\ Audit!LinesOf(q)' \subseteq Audit!LinesOf(q)
        /\ q \notin auditTouched' =>
             /\ q \notin auditTouched /\ Audit!LinesOf(q)' = Audit!LinesOf(q)
             /\ \A i \in Audit!LinesOf(q) : auditLines'[i] = auditLines[i]
    BY <1>3, <1>7, <1>9
  <2>6. auditWriter'[v].school = q
    BY <2>1, <2>4
  <2> QED
    BY <1>3, <1>6, <2>1, <2>2, <2>3, <2>4, <2>5, <2>6, WritingStays
<1>13. Gone(d)'
  <2>1. \A w \in Writers : auditWriter[w].at = "flushed" => auditWriter[w].id # d
    BY <1>3, IdleIs DEF ChainInv, Writing
  <2> QED
    BY <1>3, <1>4, <1>5, <2>1 DEF Gone
<1>14. ASSUME NEW q \in Schools \ auditCrossed', NEW i \in Audit!LinesOf(q)',
           auditLines'[i].digest # <<>>
       PROVE  Linked(q, i)'
  <2>1. /\ q \in Schools \ auditCrossed /\ i \in Audit!LinesOf(q) /\ i \in Audit!Ids /\ i # d
        /\ auditLines'[i] = auditLines[i] /\ i \in Nat
    BY <1>3, <1>5, <1>7, <1>14, IdsAre DEF Audit!LinesOf
  <2>2. Linked(q, i)
    BY <1>14, <2>1 DEF ChainInv
  <2>3. ASSUME NEW g, <<g, i>> \in auditRemoved', <<g, i>> \notin auditRemoved
        PROVE  \E n \in Audit!Ids : RefersTo(auditLines[i].previous, n) /\ Gone(n)'
    <3>1. A # {} /\ g = d /\ i = Audit!First(A)
      BY <1>11, <2>3
    <3>2. i \in A /\ \A j \in A : i <= j
      BY <1>10, <3>1
    <3>3. q = s /\ i > d
      BY <1>1, <1>2, <2>1, <3>2 DEF Audit!After, Audit!LinesOf
    <3>4. d \in Audit!Before(q, i)
      BY <1>4, <2>1, <3>3 DEF Audit!Before
    <3>5. PICK n \in 0..MaxLines :
            /\ RefersTo(auditLines[i].previous, n) /\ n < i /\ \A j \in Audit!Before(q, i) :
                 j <= n
            /\ n = 0 \/ n \in Audit!LinesOf(q) \/ Gone(n)
      BY <2>2 DEF Linked, Follows
    <3>6. n \in Nat /\ d <= n /\ d >= 1
      BY <3>4, <3>5, IdsAre
    <3>7. CASE Gone(n)
      <4>1. Gone(n)' /\ n \in Audit!Ids
        BY <1>6, <3>7, GoneStays DEF Gone
      <4> QED
        BY <3>5, <4>1
    <3>8. CASE n \in Audit!LinesOf(q)
      <4>1. n = d
        <5>1. ASSUME n # d PROVE FALSE
          <6>1. n > d
            BY <1>4, <3>6, <5>1
          <6>2. n \in A
            BY <1>1, <1>2, <3>3, <3>8, <6>1 DEF Audit!After
          <6>3. i <= n
            BY <3>2, <6>2
          <6> QED
            BY <2>1, <3>5, <3>6, <6>3
        <5> QED
          BY <5>1
      <4> QED
        BY <1>13, <3>5, <4>1
    <3> QED
      BY <1>4, <3>5, <3>6, <3>7, <3>8
  <2>4. q \notin auditTouched' =>
          /\ q \notin auditTouched /\ Audit!Before(q, i)' = Audit!Before(q, i)
          /\ \A j \in Audit!Before(q, i) : auditLines'[j] = auditLines[j]
    BY <1>3, <1>8, <1>9 DEF Audit!Before
  <2>5. Audit!Before(q, i)' \subseteq Audit!Before(q, i)
    BY <1>8
  <2> QED
    BY <1>6, <2>1, <2>2, <2>3, <2>4, <2>5, LinkedStays
<1>15. ASSUME NEW i \in Audit!Ids, auditLines'[i] # Audit!NoLine
       PROVE  /\ i < auditNextId' /\ "action" \in DOMAIN auditLines'[i]
                   /\ auditLines'[i].school \in Schools
              /\ auditLines'[i].digest # <<>> => Signed(i)'
  <2>1. auditLines'[i] = auditLines[i] /\ auditTouched \subseteq auditTouched'
    BY <1>3, <1>5, <1>15
  <2>2. Signed(i) => Signed(i)'
    BY <1>3, <2>1, SignedStays
  <2> QED
    BY <1>3, <1>15, <2>1, <2>2 DEF ChainInv
<1>16. \A g, i : <<g, i>> \in auditRemoved' => i \in Audit!Ids /\ i < auditNextId'
  BY <1>3, <1>10, <1>11 DEF ChainInv
<1> QED
  BY <1>3, <1>5, <1>12, <1>14, <1>15, <1>16 DEF ChainInv

LEMMA ChainStep == ChainInv /\ Audit!Next => ChainInv'
BY ReadKeeps, FlushKeeps, LineKeeps, RollBackKeeps, AlterKeeps, RemoveKeeps DEF Audit!Next

LEMMA ChainStays == ChainInv /\ UNCHANGED Audit!vars => ChainInv'
<1> SUFFICES ASSUME ChainInv, UNCHANGED Audit!vars PROVE ChainInv'
  OBVIOUS
<1>1. UNCHANGED <<auditLines, auditNextId, auditWriter, auditCrossed, auditTouched,
          auditAltered, auditRemoved>>
  BY DEF Audit!vars
<1>2. \A n : Gone(n)' = Gone(n)
  BY <1>1 DEF Gone
<1>3. \A s : Audit!LinesOf(s)' = Audit!LinesOf(s)
  BY <1>1 DEF Audit!LinesOf
<1>4. \A s, i : Audit!Before(s, i)' = Audit!Before(s, i)
  BY <1>1 DEF Audit!Before, Audit!LinesOf
<1>5. \A S : Audit!LinkTo(S)' = Audit!LinkTo(S)
  BY <1>1 DEF Audit!LinkTo
<1>6. \A s, p, S, m : Follows(s, p, S, m)' = Follows(s, p, S, m)
  BY <1>2, <1>3 DEF Follows
<1>7. \A w : NumberedAs(w)' = NumberedAs(w)
  BY <1>1 DEF NumberedAs
<1>8. \A i : Signed(i)' = Signed(i)
  BY <1>1 DEF Signed
<1>9. \A s, i : Linked(s, i) => Linked(s, i)'
  <2> SUFFICES ASSUME NEW s, NEW i, Linked(s, i) PROVE Linked(s, i)'
    OBVIOUS
  <2>1. PICK p : p = auditLines[i].previous
    OBVIOUS
  <2>2. PICK S : S = Audit!Before(s, i)
    OBVIOUS
  <2>3. auditLines'[i].previous = p /\ Audit!Before(s, i)' = S
    BY <1>1, <1>4, <2>1, <2>2
  <2>4. Follows(s, p, S, i)' /\ (s \notin auditTouched' => p = Audit!LinkTo(S)')
    BY <1>1, <1>5, <1>6, <2>1, <2>2 DEF Linked
  <2>5. \A g : <<g, i>> \in auditRemoved' => \E n \in Audit!Ids : RefersTo(p, n) /\ Gone(n)'
    BY <1>1, <1>2, <2>1 DEF Linked
  <2> QED
    BY <2>3, <2>4, <2>5 DEF Linked
<1>10. \A w : Writing(w) => Writing(w)'
  <2> SUFFICES ASSUME NEW w, Writing(w) PROVE Writing(w)'
    OBVIOUS
  <2>1. PICK r : r = auditWriter[w]
    OBVIOUS
  <2>2. PICK s : s = r.school
    OBVIOUS
  <2>3. PICK S : S = Audit!LinesOf(s)
    OBVIOUS
  <2>4. PICK m : m = NumberedAs(w)
    OBVIOUS
  <2>5. auditWriter'[w] = r /\ Audit!LinesOf(s)' = S /\ NumberedAs(w)' = m
    BY <1>1, <1>3, <1>7, <2>1, <2>3, <2>4
  <2>6. s \notin auditCrossed => Follows(s, r.previous, S, m)'
                                 /\ (s \notin auditTouched => r.previous = Audit!LinkTo(S)')
    BY <1>5, <1>6, <2>1, <2>2, <2>3, <2>4 DEF Writing
  <2> QED
    BY <1>1, <2>1, <2>2, <2>5, <2>6 DEF Writing
<1> QED
  BY <1>1, <1>3, <1>8, <1>9, <1>10 DEF ChainInv

LEMMA ChainTells == ChainInv => Audit!UntouchedIsValid /\ Audit!TouchingShows
<1> SUFFICES ASSUME ChainInv PROVE Audit!UntouchedIsValid /\ Audit!TouchingShows
  OBVIOUS
<1>1. \A s : Audit!Verified(s) \subseteq Audit!LinesOf(s)
  BY DEF Audit!Verified
<1>2. ASSUME NEW s \in Schools \ auditCrossed, NEW i \in Audit!LinesOf(s),
          auditLines[i].digest # <<>>
      PROVE  Linked(s, i) /\ Signed(i) /\ auditLines[i].school = s /\ i \in Audit!Ids
  BY <1>2 DEF ChainInv, Audit!LinesOf
<1>3. Audit!UntouchedIsValid
  <2> SUFFICES ASSUME NEW s \in Schools \ (auditCrossed \cup auditTouched),
          NEW i \in Audit!Verified(s),
                      auditLines[i].digest # <<>>
               PROVE  Audit!Sound(s, i)
    BY DEF Audit!UntouchedIsValid, Audit!Valid, Audit!Sound
  <2>1. Linked(s, i) /\ Signed(i) /\ auditLines[i].school = s /\ s \notin auditTouched
    BY <1>1, <1>2
  <2>2. auditLines[i].previous = Audit!LinkTo(Audit!Before(s, i))
    BY <2>1 DEF Linked
  <2>3. auditLines[i].digest = Audit!Digest(i, s, auditLines[i].action, auditLines[i].previous)
    BY <2>1 DEF Signed
  <2> QED
    BY <2>2, <2>3 DEF Audit!Sound
<1>4. Audit!TouchingShows
  <2> SUFFICES ASSUME NEW s \in Schools \ auditCrossed, NEW i \in Audit!Verified(s),
                      auditLines[i].digest # <<>>, Audit!Sound(s, i),
                      i \in auditAltered \/ \E g \in Audit!Ids : <<g, i>> \in auditRemoved
               PROVE  FALSE
    BY DEF Audit!TouchingShows, Audit!Valid
  <2>1. Linked(s, i) /\ Signed(i) /\ auditLines[i].school = s /\ i \in Audit!Ids
    BY <1>1, <1>2
  <2>2. PICK p : p = Audit!LinkTo(Audit!Before(s, i))
    OBVIOUS
  <2>3. auditLines[i].previous = p
            /\ auditLines[i].digest = Audit!Digest(i, s, auditLines[i].action, p)
    BY <2>2 DEF Audit!Sound
  <2>4. CASE i \in auditAltered
    <3>1. PICK a : auditLines[i].digest = Audit!Digest(i, s, a, p) /\ a # auditLines[i].action
      BY <2>1, <2>3, <2>4 DEF Signed
    <3> QED
      BY <2>3, <3>1 DEF Audit!Digest
  <2>5. CASE \E g \in Audit!Ids : <<g, i>> \in auditRemoved
    <3>1. PICK n \in Audit!Ids : RefersTo(p, n) /\ Gone(n)
      BY <2>1, <2>3, <2>5 DEF Linked
    <3>2. PICK B : B = Audit!Before(s, i)
      OBVIOUS
    <3>3. B \subseteq Audit!Ids /\ \A j \in B : auditLines[j] # Audit!NoLine
      BY <3>2 DEF Audit!Before, Audit!LinesOf
    <3>4. n # 0 /\ n \notin B
      BY <3>1, <3>3, IdsAre DEF Gone
    <3>5. \/ RefersTo(p, 0)
          \/ \E m \in B : RefersTo(p, m)
      BY <2>2, <3>2, <3>3, LinkRefers
    <3> QED
      BY <3>1, <3>4, <3>5, RefersOne
  <2> QED
    BY <2>4, <2>5
<1> QED
  BY <1>3, <1>4

---------------------------------------------------------------------------------
(* Incidents: who has seen none open may open one                               *)

RowType == [code : Codes \cup {NoRow}, from : Int, to : Int]

\* A call that is still opening, and may open an incident of code c
Opens(w) == w.op \in {"open", "remember"}
MayOpen(c) ==
  {r \in Requests : Opens(incWork[r]) /\ c \in incWork[r].left /\ ~Outages!Matches(r, c)}
OpenOf(c) == {i \in Outages!Open : incRows[i].code = c}

\* Each open incident of a code was opened by a request that had seen none, and until it is
\* closed no other comes to open one.
OutageInv ==
  /\ incRows \in Seq(RowType) /\ incClock \in Nat
  /\ incWork = [r \in Requests |-> incWork[r]]
  /\ \A r \in Requests : /\ "op" \in DOMAIN incWork[r]
                         /\ Opens(incWork[r]) => /\ incWork[r].seen \subseteq Outages!Rows
                                                 /\ incWork[r].left \subseteq Codes
                                                 /\ "left" \in DOMAIN incWork[r]
  /\ \A c \in Codes : /\ IsFiniteSet(OpenOf(c)) /\ Cardinality(OpenOf(c)) \in Nat
                      /\ Cardinality(OpenOf(c)) + Cardinality(MayOpen(c))
                           <= Cardinality(Requests)

LEMMA MayOpenFinite ==
  ASSUME NEW S \in SUBSET Requests
  PROVE  IsFiniteSet(S) /\ Cardinality(S) \in Nat /\ Cardinality(S) <= Cardinality(Requests)
         /\ Cardinality(Requests) \in Nat
BY RegistryAssumption, FS_Subset, FS_CardinalityType

LEMMA OutageInit == Outages!Init => OutageInv
<1> SUFFICES ASSUME Outages!Init PROVE OutageInv
  OBVIOUS
<1>1. Outages!Rows = {} /\ incRows \in Seq(RowType) /\ incClock \in Nat
  BY DEF Outages!Init, Outages!Rows
<1>2. incWork = [r \in Requests |-> Outages!Idle] /\ "op" \in DOMAIN Outages!Idle
          /\ ~Opens(Outages!Idle)
  BY DEF Outages!Init, Outages!Idle, Opens
<1>3. \A c : OpenOf(c) = {} /\ MayOpen(c) = {}
  BY <1>1, <1>2 DEF OpenOf, Outages!Open, MayOpen
<1>4. Cardinality({}) = 0 /\ IsFiniteSet({}) /\ Cardinality(Requests) \in Nat
  BY FS_EmptySet, MayOpenFinite
<1>5. \A c \in Codes :
        /\ IsFiniteSet(OpenOf(c)) /\ Cardinality(OpenOf(c)) \in Nat
        /\ Cardinality(OpenOf(c)) + Cardinality(MayOpen(c)) <= Cardinality(Requests)
  BY <1>3, <1>4
<1>6. \A r \in Requests : incWork[r] = Outages!Idle
  BY <1>2
<1>7. incWork = [r \in Requests |-> incWork[r]]
  BY <1>2
<1> QED
  BY <1>1, <1>2, <1>5, <1>6, <1>7 DEF OutageInv

\* A session that has no code left stops opening.
LEMMA OpeningIs ==
  ASSUME NEW w, "op" \in DOMAIN w
  PROVE  /\ "op" \in DOMAIN Outages!Opening(w)
         /\ Outages!Opening(w) = w \/ ~Opens(Outages!Opening(w))
<1>1. CASE w.left # {}
  BY <1>1 DEF Outages!Opening
<1>2. CASE w.left = {}
  <2>1. PICK x : x = [w EXCEPT !.op = "close", !.over = {}, !.row = 0,
                        !.seen = {i \in @ : incRows[i].code \notin w.over}]
    OBVIOUS
  <2>2. "op" \in DOMAIN x /\ x.op = "close"
    BY <2>1
  <2>3. Outages!Opening(w) = Outages!Closing(x)
    BY <1>2, <2>1 DEF Outages!Opening
  <2>4. Outages!Closing(x) = Outages!Idle \/ Outages!Closing(x) = x
    BY DEF Outages!Closing
  <2> QED
    BY <2>2, <2>3, <2>4 DEF Outages!Idle, Opens
<1> QED
  BY <1>1, <1>2

\* Fewer open incidents, and fewer that may open one
LEMMA FewerKeeps ==
  ASSUME OutageInv, incRows' \in Seq(RowType), incClock' \in Nat,
         incWork' = [r \in Requests |-> incWork'[r]],
         \A r \in Requests : /\ "op" \in DOMAIN incWork'[r]
                             /\ Opens(incWork'[r])
                                  => /\ incWork'[r].seen \subseteq Outages!Rows'
                                                      /\ incWork'[r].left \subseteq Codes
                                                      /\ "left" \in DOMAIN incWork'[r],
         \A c \in Codes : OpenOf(c)' \subseteq OpenOf(c) /\ MayOpen(c)' \subseteq MayOpen(c)
  PROVE  OutageInv'
<1>1. ASSUME NEW c \in Codes
      PROVE  /\ IsFiniteSet(OpenOf(c)') /\ Cardinality(OpenOf(c)') \in Nat
             /\ Cardinality(OpenOf(c)') + Cardinality(MayOpen(c)') <= Cardinality(Requests)
  <2>1. /\ IsFiniteSet(OpenOf(c)) /\ Cardinality(OpenOf(c)) \in Nat
        /\ Cardinality(OpenOf(c)) + Cardinality(MayOpen(c)) <= Cardinality(Requests)
    BY DEF OutageInv
  <2>2. MayOpen(c) \in SUBSET Requests
    BY DEF MayOpen
  <2>3. /\ IsFiniteSet(MayOpen(c)) /\ Cardinality(MayOpen(c)) \in Nat
        /\ Cardinality(Requests) \in Nat
    BY <2>2, MayOpenFinite
  <2>4. /\ IsFiniteSet(OpenOf(c)') /\ Cardinality(OpenOf(c)') \in Nat
        /\ Cardinality(OpenOf(c)') <= Cardinality(OpenOf(c))
    BY <2>1, FS_Subset, FS_CardinalityType
  <2>5. /\ IsFiniteSet(MayOpen(c)') /\ Cardinality(MayOpen(c)') \in Nat
        /\ Cardinality(MayOpen(c)') <= Cardinality(MayOpen(c))
    BY <2>3, FS_Subset, FS_CardinalityType
  <2> QED
    BY <2>1, <2>3, <2>4, <2>5
<1> QED
  BY <1>1 DEF OutageInv

\* A request whose session goes on to w, which opens no more than before
LEMMA SessionKeeps ==
  ASSUME OutageInv, NEW r \in Requests, NEW w, incWork' = [incWork EXCEPT ![r] = w],
         "op" \in DOMAIN w,
         Opens(w) => /\ Opens(incWork[r]) /\ w.seen = incWork[r].seen
                          /\ w.left \subseteq incWork[r].left
                     /\ "left" \in DOMAIN w,
         incRows' \in Seq(RowType), incClock' \in Nat, Outages!Rows \subseteq Outages!Rows',
         \A i \in Outages!Rows : incRows'[i].code = incRows[i].code,
         \A c \in Codes : OpenOf(c)' \subseteq OpenOf(c)
  PROVE  OutageInv'
<1>1. /\ incWork' = [q \in Requests |-> incWork'[q]]
      /\ \A q \in Requests : incWork'[q] = IF q = r THEN w ELSE incWork[q]
  BY DEF OutageInv
<1>2. ASSUME NEW c \in Codes PROVE MayOpen(c)' \subseteq MayOpen(c)
  <2> SUFFICES ASSUME NEW q \in Requests, Opens(incWork'[q]), c \in incWork'[q].left,
          ~Outages!Matches(q, c)'
               PROVE  Opens(incWork[q]) /\ c \in incWork[q].left /\ ~Outages!Matches(q, c)
    BY DEF MayOpen
  <2>1. Opens(incWork[q]) /\ c \in incWork[q].left /\ incWork'[q].seen = incWork[q].seen
    BY <1>1
  <2>2. incWork[q].seen \subseteq Outages!Rows
    BY <2>1 DEF OutageInv
  <2>3. ~Outages!Matches(q, c)
    BY <2>1, <2>2 DEF Outages!Matches
  <2> QED
    BY <2>1, <2>3
<1>3. \A q \in Requests : /\ "op" \in DOMAIN incWork'[q]
                          /\ Opens(incWork'[q]) => /\ incWork'[q].seen \subseteq Outages!Rows'
                                                   /\ incWork'[q].left \subseteq Codes
                                                   /\ "left" \in DOMAIN incWork'[q]
  BY <1>1 DEF OutageInv
<1> QED
  BY <1>1, <1>2, <1>3, FewerKeeps

LEMMA ClosedIs ==
  ASSUME OutageInv, NEW S
  PROVE  /\ Outages!Closed(S) \in Seq(RowType) /\ DOMAIN Outages!Closed(S) = Outages!Rows
         /\ \A i \in Outages!Rows : Outages!Closed(S)[i].code = incRows[i].code
                                    /\ (Outages!Closed(S)[i].to = Outages!None
                                         => incRows[i].to = Outages!None)
<1>1. /\ Outages!Rows = 1..Len(incRows) /\ Len(incRows) \in Nat /\ incClock \in Nat
      /\ \A i \in Outages!Rows : incRows[i] \in RowType
  BY DEF OutageInv, Outages!Rows
<1>2. ASSUME NEW x \in RowType
      PROVE  /\ [x EXCEPT !.to = incClock] \in RowType
                  /\ [x EXCEPT !.to = incClock].code = x.code
             /\ [x EXCEPT !.to = incClock].to = incClock /\ incClock # Outages!None
  BY <1>1 DEF RowType, Outages!None
<1>3. \A i \in Outages!Rows : Outages!Closed(S)[i] \in RowType
  BY <1>1, <1>2 DEF Outages!Closed
<1>4. Outages!Closed(S) \in Seq(RowType)
  <2>1. \A i \in 1..Len(incRows) : Outages!Closed(S)[i] \in RowType
    BY <1>1, <1>3
  <2>2. Outages!Closed(S) = [i \in 1..Len(incRows) |-> Outages!Closed(S)[i]]
    BY <1>1 DEF Outages!Closed
  <2> QED
    BY <1>1, <2>1, <2>2
<1> QED
  BY <1>1, <1>2, <1>4 DEF Outages!Closed

LEMMA AppendedIs ==
  ASSUME OutageInv, NEW c \in Codes \cup {NoRow}
  PROVE  /\ Append(incRows, Outages!Row(c)) \in Seq(RowType)
              /\ Len(incRows) + 1 \notin Outages!Rows
         /\ DOMAIN Append(incRows, Outages!Row(c)) = Outages!Rows \cup {Len(incRows) + 1}
         /\ \A i \in Outages!Rows : Append(incRows, Outages!Row(c))[i] = incRows[i]
         /\ Append(incRows, Outages!Row(c))[Len(incRows) + 1].code = c
<1>1. PICK x : x = Outages!Row(c)
  OBVIOUS
<1>2. x \in RowType /\ x.code = c
  BY <1>1 DEF Outages!Row, RowType, OutageInv, Outages!None
<1>3. Outages!Rows = 1..Len(incRows) /\ Len(incRows) \in Nat /\ incRows \in Seq(RowType)
  BY DEF OutageInv, Outages!Rows
<1>4. PICK y : y = Append(incRows, x)
  OBVIOUS
<1>5. /\ y \in Seq(RowType) /\ Len(y) = Len(incRows) + 1 /\ DOMAIN y = 1..(Len(incRows) + 1)
      /\ \A i \in 1..Len(incRows) : y[i] = incRows[i]
      /\ y[Len(incRows) + 1] = x
  BY <1>2, <1>3, <1>4
<1>6. 1..(Len(incRows) + 1) = (1..Len(incRows)) \cup {Len(incRows) + 1}
      /\ Len(incRows) + 1 \notin 1..Len(incRows)
  BY <1>3
<1> QED
  BY <1>1, <1>2, <1>3, <1>4, <1>5, <1>6

LEMMA OutageStep ==
  ASSUME OutageInv, Outages!Next
  PROVE  OutageInv'
<1>t. incRows \in Seq(RowType) /\ incClock \in Nat
  BY DEF OutageInv
<1>w. incWork = [r \in Requests |-> incWork[r]] /\ \A r \in Requests :
          "op" \in DOMAIN incWork[r]
  BY DEF OutageInv
<1>i. "op" \in DOMAIN Outages!Idle /\ ~Opens(Outages!Idle)
  BY DEF Outages!Idle, Opens
<1>o. \A c \in Codes : incRows' = incRows
          => OpenOf(c)' = OpenOf(c) /\ Outages!Rows' = Outages!Rows
  BY DEF OpenOf, Outages!Open, Outages!Rows
<1>r. incRows' = incRows => Outages!Rows \subseteq Outages!Rows'
  BY DEF Outages!Rows
<1>1. ASSUME NEW r \in Requests, Outages!Reconcile(r) PROVE OutageInv'
  <2>1. PICK over \in SUBSET Codes : incWork' = [incWork EXCEPT ![r] =
                                        Outages!Opening(Outages!Session(over,
                                            Outages!Open \intersect Outages!Automatic))]
    BY <1>1 DEF Outages!Reconcile, Outages!Continue
  <2>2. UNCHANGED <<incRows, incClock>>
    BY <1>1 DEF Outages!Reconcile
  <2>3. PICK x : x = Outages!Session(over, Outages!Open \intersect Outages!Automatic)
    OBVIOUS
  <2>4. "op" \in DOMAIN x /\ "left" \in DOMAIN x
            /\ x.seen = Outages!Open \intersect Outages!Automatic
        /\ x.left \subseteq Codes
    BY <2>3 DEF Outages!Session
  <2>5. PICK w : w = Outages!Opening(x)
    OBVIOUS
  <2>6. "op" \in DOMAIN w /\ (w = x \/ ~Opens(w))
    BY <2>4, <2>5, OpeningIs
  <2>7. /\ incWork' = [q \in Requests |-> incWork'[q]]
        /\ \A q \in Requests : incWork'[q] = IF q = r THEN w ELSE incWork[q]
    BY <1>w, <2>1, <2>3, <2>5
  <2>8. ASSUME NEW c \in Codes
        PROVE  /\ IsFiniteSet(OpenOf(c)') /\ Cardinality(OpenOf(c)') \in Nat
               /\ Cardinality(OpenOf(c)') + Cardinality(MayOpen(c)') <= Cardinality(Requests)
    <3>1. /\ IsFiniteSet(OpenOf(c)) /\ Cardinality(OpenOf(c)) \in Nat
          /\ Cardinality(OpenOf(c)) + Cardinality(MayOpen(c)) <= Cardinality(Requests)
      BY DEF OutageInv
    <3>2. OpenOf(c)' = OpenOf(c)
      BY <1>o, <2>2
    <3>3. MayOpen(c) \in SUBSET Requests /\ MayOpen(c)' \in SUBSET Requests
      BY DEF MayOpen
    <3>4. /\ IsFiniteSet(MayOpen(c)) /\ Cardinality(MayOpen(c)) \in Nat
          /\ Cardinality(MayOpen(c)') \in Nat /\ Cardinality(Requests) \in Nat
          /\ Cardinality(MayOpen(c)') <= Cardinality(Requests)
      BY <3>3, MayOpenFinite
    <3>5. CASE OpenOf(c) = {}
      <4>1. Cardinality(OpenOf(c)) = 0
        BY <3>5, FS_EmptySet
      <4> QED
        BY <3>1, <3>2, <3>4, <4>1
    <3>6. CASE OpenOf(c) # {}
      <4>1. PICK i \in OpenOf(c) : TRUE
        BY <3>6
      <4>2. i \in Outages!Open \intersect Outages!Automatic /\ incRows[i].code = c
        BY <4>1, OfficeAssumption DEF OpenOf, Outages!Open, Outages!Automatic,
           Outages!IncidentConstants
      <4>3. Opens(w) => Outages!Matches(r, c)'
        BY <2>2, <2>4, <2>6, <2>7, <4>2 DEF Outages!Matches
      <4>4. MayOpen(c)' \subseteq MayOpen(c)
        <5> SUFFICES ASSUME NEW q \in Requests, Opens(incWork'[q]), c \in incWork'[q].left,
                            ~Outages!Matches(q, c)'
                     PROVE  Opens(incWork[q]) /\ c \in incWork[q].left
                         /\ ~Outages!Matches(q, c)
          BY DEF MayOpen
        <5>1. q # r
          BY <2>7, <4>3
        <5> QED
          BY <2>2, <2>7, <5>1 DEF Outages!Matches
      <4>5. Cardinality(MayOpen(c)') <= Cardinality(MayOpen(c))
        BY <3>4, <4>4, FS_Subset
      <4> QED
        BY <3>1, <3>2, <3>4, <4>5
    <3> QED
      BY <3>5, <3>6
  <2>9. \A q \in Requests : /\ "op" \in DOMAIN incWork'[q]
                            /\ Opens(incWork'[q]) => /\ incWork'[q].seen \subseteq Outages!Rows
                                                     /\ incWork'[q].left \subseteq Codes
                                                     /\ "left" \in DOMAIN incWork'[q]
    BY <2>4, <2>6, <2>7 DEF OutageInv, Outages!Open
  <2>10. Outages!Rows' = Outages!Rows
    BY <2>2 DEF Outages!Rows
  <2> QED
    BY <1>t, <2>2, <2>7, <2>8, <2>9, <2>10 DEF OutageInv
<1>2. ASSUME NEW r \in Requests, Outages!OpenAutomatic(r) PROVE OutageInv'
  <2>1. PICK c \in incWork[r].left :
       LET session == [incWork[r] EXCEPT !.left = @ \ {c}] IN
       \/ /\ Outages!Matches(r, c)
          /\ Outages!Continue(r, Outages!Opening(session)) /\ UNCHANGED <<incRows, incRecent>>
       \/ /\ ~Outages!Matches(r, c)
          /\ incRecent' = [incRecent EXCEPT ![c] = Outages!Late(c)]
          /\ \/ Cardinality(Outages!Late(c)) >= MaxActions
                  /\ Outages!Continue(r, Outages!Opening(session)) /\ UNCHANGED incRows
             \/ /\ Cardinality(Outages!Late(c)) < MaxActions
                     /\ Cardinality(Outages!Rows) < MaxIncidents
                /\ incRows' = Append(incRows, Outages!Row(c))
                /\ Outages!Continue(r,
                     [session EXCEPT !.op = "remember", !.row = Len(incRows) + 1,
                         !.committed = TRUE])
    BY <1>2, SameCounts DEF Outages!OpenAutomatic
  <2>2. incWork[r].op = "open" /\ Opens(incWork[r]) /\ UNCHANGED incClock
    BY <1>2 DEF Outages!OpenAutomatic, Outages!Ready, Opens
  <2>3. incWork[r].seen \subseteq Outages!Rows /\ "left" \in DOMAIN incWork[r]
    BY <2>2 DEF OutageInv
  <2>4. PICK x : x = [incWork[r] EXCEPT !.left = @ \ {c}]
    OBVIOUS
  <2>5. /\ "op" \in DOMAIN x /\ "left" \in DOMAIN x /\ x.seen = incWork[r].seen
        /\ x.left = incWork[r].left \ {c} /\ x.op = "open"
    BY <1>w, <2>2, <2>3, <2>4
  <2>6. CASE Outages!Continue(r, Outages!Opening(x)) /\ UNCHANGED incRows
    <3>1. PICK w : w = Outages!Opening(x)
      OBVIOUS
    <3>2. "op" \in DOMAIN w /\ (w = x \/ ~Opens(w))
      BY <2>5, <3>1, OpeningIs
    <3>3. incWork' = [incWork EXCEPT ![r] = w]
      BY <2>6, <3>1 DEF Outages!Continue
    <3>4. Opens(w) => /\ Opens(incWork[r]) /\ w.seen = incWork[r].seen
                           /\ w.left \subseteq incWork[r].left
                      /\ "left" \in DOMAIN w
      BY <2>2, <2>5, <3>2
    <3>5. \A i \in Outages!Rows : incRows'[i].code = incRows[i].code
      BY <2>6
    <3>6. \A d \in Codes : OpenOf(d)' \subseteq OpenOf(d)
      BY <1>o, <2>6
    <3> QED
      BY <1>r, <1>t, <2>2, <2>6, <3>2, <3>3, <3>4, <3>5, <3>6, SessionKeeps
  <2>7. CASE /\ ~Outages!Matches(r, c) /\ incRows' = Append(incRows, Outages!Row(c))
             /\ Outages!Continue(r,
                  [x EXCEPT !.op = "remember", !.row = Len(incRows) + 1, !.committed = TRUE])
    <3>1. PICK w : w = [x EXCEPT !.op = "remember", !.row = Len(incRows) + 1,
              !.committed = TRUE]
      OBVIOUS
    <3>2. /\ "op" \in DOMAIN w /\ "left" \in DOMAIN w /\ w.seen = incWork[r].seen
          /\ w.left = incWork[r].left \ {c} /\ w.op = "remember"
      BY <2>5, <3>1
    <3>3. /\ incWork' = [q \in Requests |-> incWork'[q]]
          /\ \A q \in Requests : incWork'[q] = IF q = r THEN w ELSE incWork[q]
      BY <1>w, <2>7, <3>1 DEF Outages!Continue
    <3>4. PICK n : n = Len(incRows) + 1
      OBVIOUS
    <3>5. c \in Codes
      BY <2>2 DEF OutageInv
    <3>11. /\ incRows' \in Seq(RowType) /\ n \notin Outages!Rows
                /\ Outages!Rows' = Outages!Rows \cup {n}
           /\ \A i \in Outages!Rows : incRows'[i] = incRows[i]
           /\ incRows'[n].code = c
      BY <2>7, <3>4, <3>5, AppendedIs DEF Outages!Rows
    <3>12. ASSUME NEW q \in Requests, NEW d \in Codes, Opens(incWork[q]),
                  incWork'[q].seen = incWork[q].seen
           PROVE  Outages!Matches(q, d)' <=> Outages!Matches(q, d)
      <4>1. incWork[q].seen \subseteq Outages!Rows
        BY <3>12 DEF OutageInv
      <4> QED
        BY <3>11, <3>12, <4>1 DEF Outages!Matches
    <3>13. ASSUME NEW d \in Codes
           PROVE  MayOpen(d)' \subseteq MayOpen(d) /\ (d = c
               => MayOpen(d)' \subseteq MayOpen(d) \ {r})
      <4>1. \A q \in Requests : Opens(incWork'[q]) =>
              /\ Opens(incWork[q]) /\ incWork'[q].seen = incWork[q].seen
              /\ incWork'[q].left \subseteq incWork[q].left
              /\ q = r => c \notin incWork'[q].left
        BY <2>2, <3>2, <3>3
      <4> QED
        BY <3>12, <4>1 DEF MayOpen
    <3>14. r \in MayOpen(c)
      BY <2>2, <2>7 DEF MayOpen
    <3>15. ASSUME NEW d \in Codes
           PROVE  OpenOf(d)' \subseteq IF d = c THEN OpenOf(d) \cup {n} ELSE OpenOf(d)
      <4> SUFFICES ASSUME NEW i \in OpenOf(d)', ~(d = c /\ i = n) PROVE i \in OpenOf(d)
        OBVIOUS
      <4>1. i \in Outages!Rows' /\ incRows'[i].to = Outages!None /\ incRows'[i].code = d
        BY DEF OpenOf, Outages!Open
      <4>2. i \in Outages!Rows
        BY <3>11, <4>1
      <4> QED
        BY <3>11, <4>1, <4>2 DEF OpenOf, Outages!Open
    <3>16. ASSUME NEW d \in Codes
           PROVE  /\ IsFiniteSet(OpenOf(d)') /\ Cardinality(OpenOf(d)') \in Nat
                  /\ Cardinality(OpenOf(d)') + Cardinality(MayOpen(d)')
                       <= Cardinality(Requests)
      <4>1. /\ IsFiniteSet(OpenOf(d)) /\ Cardinality(OpenOf(d)) \in Nat
            /\ Cardinality(OpenOf(d)) + Cardinality(MayOpen(d)) <= Cardinality(Requests)
        BY DEF OutageInv
      <4>2. MayOpen(d) \in SUBSET Requests
        BY DEF MayOpen
      <4>3. /\ IsFiniteSet(MayOpen(d)) /\ Cardinality(MayOpen(d)) \in Nat
            /\ Cardinality(Requests) \in Nat
        BY <4>2, MayOpenFinite
      <4>4. /\ IsFiniteSet(MayOpen(d)') /\ Cardinality(MayOpen(d)') \in Nat
            /\ Cardinality(MayOpen(d)') <= Cardinality(MayOpen(d))
        BY <3>13, <4>3, FS_Subset, FS_CardinalityType
      <4>5. CASE d # c
        <5>1. OpenOf(d)' \subseteq OpenOf(d)
          BY <3>15, <4>5
        <5>2. IsFiniteSet(OpenOf(d)') /\ Cardinality(OpenOf(d)') \in Nat
              /\ Cardinality(OpenOf(d)') <= Cardinality(OpenOf(d))
          BY <4>1, <5>1, FS_Subset, FS_CardinalityType
        <5> QED
          BY <4>1, <4>3, <4>4, <5>2
      <4>6. CASE d = c
        <5>1. PICK S : S = OpenOf(d) \cup {n}
          OBVIOUS
        <5>2. IsFiniteSet(S) /\ Cardinality(S) \in Nat
              /\ Cardinality(S) <= Cardinality(OpenOf(d)) + 1
          <6>1. IsFiniteSet(S) /\ (Cardinality(S) = Cardinality(OpenOf(d))
                                   \/ Cardinality(S) = Cardinality(OpenOf(d)) + 1)
            BY <4>1, <5>1, FS_AddElement
          <6> QED
            BY <4>1, <6>1
        <5>3. OpenOf(d)' \subseteq S
          BY <3>15, <4>6, <5>1
        <5>4. IsFiniteSet(OpenOf(d)') /\ Cardinality(OpenOf(d)') \in Nat
              /\ Cardinality(OpenOf(d)') <= Cardinality(S)
          BY <5>2, <5>3, FS_Subset, FS_CardinalityType
        <5>5. PICK T : T = MayOpen(d) \ {r}
          OBVIOUS
        <5>6. IsFiniteSet(T) /\ Cardinality(T) = Cardinality(MayOpen(d)) - 1
          BY <3>14, <4>3, <4>6, <5>5, FS_RemoveElement
        <5>7. Cardinality(MayOpen(d)') <= Cardinality(T)
          BY <3>13, <4>6, <5>5, <5>6, FS_Subset
        <5> QED
          BY <4>1, <4>3, <4>4, <5>2, <5>4, <5>6, <5>7
      <4> QED
        BY <4>5, <4>6
    <3>17. \A q \in Requests : /\ "op" \in DOMAIN incWork'[q]
                               /\ Opens(incWork'[q])
                                    => /\ incWork'[q].seen \subseteq Outages!Rows'
                                                        /\ incWork'[q].left \subseteq Codes
                                                        /\ "left" \in DOMAIN incWork'[q]
      <4> SUFFICES ASSUME NEW q \in Requests
                   PROVE  /\ "op" \in DOMAIN incWork'[q]
                          /\ Opens(incWork'[q]) => /\ incWork'[q].seen \subseteq Outages!Rows'
                                                   /\ incWork'[q].left \subseteq Codes
                                                   /\ "left" \in DOMAIN incWork'[q]
        OBVIOUS
      <4>1. Outages!Rows \subseteq Outages!Rows'
        BY <3>11
      <4>2. incWork[r].left \subseteq Codes
        BY <2>2 DEF OutageInv
      <4>3. CASE q = r
        BY <2>3, <3>2, <3>3, <4>1, <4>2, <4>3
      <4>4. CASE q # r
        BY <3>3, <4>1, <4>4 DEF OutageInv
      <4> QED
        BY <4>3, <4>4
    <3> QED
      BY <1>t, <2>2, <3>3, <3>11, <3>16, <3>17 DEF OutageInv
  <2> QED
    BY <2>1, <2>4, <2>6, <2>7
<1>3. ASSUME NEW r \in Requests, Outages!Remember(r) PROVE OutageInv'
  <2>1. PICK x : x = [incWork[r] EXCEPT !.op = "open"]
    OBVIOUS
  <2>2. incWork' = [incWork EXCEPT ![r] = Outages!Opening(x)] /\ incWork[r].op = "remember"
        /\ UNCHANGED <<incRows, incClock>>
    BY <1>3, <2>1 DEF Outages!Remember, Outages!Continue, Outages!Ready
  <2>3. Opens(incWork[r]) /\ "left" \in DOMAIN incWork[r]
    BY <2>2 DEF OutageInv, Opens
  <2>4. /\ "op" \in DOMAIN x /\ "left" \in DOMAIN x /\ x.seen = incWork[r].seen
        /\ x.left = incWork[r].left
    BY <1>w, <2>1, <2>3
  <2>5. PICK w : w = Outages!Opening(x)
    OBVIOUS
  <2>6. "op" \in DOMAIN w /\ (w = x \/ ~Opens(w))
    BY <2>4, <2>5, OpeningIs
  <2>7. incWork' = [incWork EXCEPT ![r] = w]
    BY <2>2, <2>5
  <2>8. Opens(w) => /\ Opens(incWork[r]) /\ w.seen = incWork[r].seen
                         /\ w.left \subseteq incWork[r].left
                    /\ "left" \in DOMAIN w
    BY <2>3, <2>4, <2>6
  <2>9. \A i \in Outages!Rows : incRows'[i].code = incRows[i].code
    BY <2>2
  <2>10. \A d \in Codes : OpenOf(d)' \subseteq OpenOf(d)
    BY <1>o, <2>2
  <2> QED
    BY <1>r, <1>t, <2>2, <2>6, <2>7, <2>8, <2>9, <2>10, SessionKeeps
<1>c. ASSUME NEW S, incRows' = Outages!Closed(S)
      PROVE  /\ incRows' \in Seq(RowType) /\ Outages!Rows \subseteq Outages!Rows'
             /\ \A i \in Outages!Rows : incRows'[i].code = incRows[i].code
             /\ \A d \in Codes : OpenOf(d)' \subseteq OpenOf(d)
  <2>1. /\ incRows' \in Seq(RowType) /\ Outages!Rows' = Outages!Rows
        /\ \A i \in Outages!Rows : incRows'[i].code = incRows[i].code
                                   /\ (incRows'[i].to = Outages!None
                                        => incRows[i].to = Outages!None)
    BY <1>c, ClosedIs DEF Outages!Rows
  <2>2. \A d \in Codes : OpenOf(d)' \subseteq OpenOf(d)
    BY <2>1 DEF OpenOf, Outages!Open
  <2> QED
    BY <2>1, <2>2
<1>4. ASSUME NEW r \in Requests, Outages!Close(r) PROVE OutageInv'
  <2>1. PICK i \in incWork[r].seen :
       /\ incRows' = IF incWork[r].committed /\ i \notin Outages!Open THEN incRows
            ELSE Outages!Closed({i})
       /\ Outages!Continue(r,
            Outages!Closing([incWork[r] EXCEPT !.seen = @ \ {i}, !.committed = TRUE]))
    BY <1>4 DEF Outages!Close
  <2>2. incWork[r].op = "close" /\ UNCHANGED incClock
    BY <1>4 DEF Outages!Close, Outages!Ready
  <2>3. PICK x : x = [incWork[r] EXCEPT !.seen = @ \ {i}, !.committed = TRUE]
    OBVIOUS
  <2>4. "op" \in DOMAIN x /\ x.op = "close"
    BY <1>w, <2>2, <2>3
  <2>5. PICK w : w = Outages!Closing(x)
    OBVIOUS
  <2>6. "op" \in DOMAIN w /\ ~Opens(w) /\ incWork' = [incWork EXCEPT ![r] = w]
    BY <1>i, <2>1, <2>3, <2>4, <2>5 DEF Outages!Closing, Opens, Outages!Continue
  <2>7. incRows' = incRows \/ incRows' = Outages!Closed({i})
    BY <2>1
  <2>8. /\ incRows' \in Seq(RowType) /\ Outages!Rows \subseteq Outages!Rows'
        /\ \A j \in Outages!Rows : incRows'[j].code = incRows[j].code
        /\ \A d \in Codes : OpenOf(d)' \subseteq OpenOf(d)
    <3>1. CASE incRows' = incRows
      BY <1>o, <1>r, <1>t, <3>1
    <3>2. CASE incRows' = Outages!Closed({i})
      BY <1>c, <3>2
    <3> QED
      BY <2>7, <3>1, <3>2
  <2> QED
    BY <1>t, <2>2, <2>6, <2>8, SessionKeeps
<1>5. ASSUME NEW r \in Requests, NEW w, incWork' = [incWork EXCEPT ![r] = w],
          "op" \in DOMAIN w,
             ~Opens(w), UNCHANGED <<incClock, incRows>>
      PROVE  OutageInv'
  <2>1. \A i \in Outages!Rows : incRows'[i].code = incRows[i].code
    BY <1>5
  <2>2. \A d \in Codes : OpenOf(d)' \subseteq OpenOf(d)
    BY <1>o, <1>5
  <2> QED
    BY <1>5, <1>r, <1>t, <2>1, <2>2, SessionKeeps
<1>6. ASSUME NEW r \in Requests, Outages!Leave(r) PROVE OutageInv'
  BY <1>5, <1>6, <1>i DEF Outages!Leave, Outages!Continue
<1>7. ASSUME NEW r \in Requests, NEW i \in Outages!Open, Outages!ResolveRead(r, i)
          PROVE OutageInv'
  <2>1. PICK w : w = [Outages!Session({}, {i}) EXCEPT !.op = "close"]
    OBVIOUS
  <2>2. "op" \in DOMAIN w /\ w.op = "close"
    BY <2>1 DEF Outages!Session
  <2> QED
    BY <1>5, <1>7, <2>1, <2>2 DEF Outages!ResolveRead, Outages!Continue, Opens
<1>8. ASSUME UNCHANGED incWork, incRows' \in Seq(RowType), incClock' \in Nat,
          Outages!Rows \subseteq Outages!Rows',
             \A i \in Outages!Rows : incRows'[i].code = incRows[i].code,
             \A d \in Codes : OpenOf(d)' \subseteq OpenOf(d)
      PROVE  OutageInv'
  <2>1. \A d \in Codes : MayOpen(d)' \subseteq MayOpen(d)
    <3> SUFFICES ASSUME NEW d \in Codes, NEW q \in Requests, Opens(incWork[q]),
            d \in incWork[q].left,
                        ~Outages!Matches(q, d)'
                 PROVE  ~Outages!Matches(q, d)
      BY <1>8 DEF MayOpen
    <3>1. incWork[q].seen \subseteq Outages!Rows
      BY DEF OutageInv
    <3> QED
      BY <1>8, <3>1 DEF Outages!Matches
  <2>2. \A q \in Requests : /\ "op" \in DOMAIN incWork'[q]
                            /\ Opens(incWork'[q])
                                 => /\ incWork'[q].seen \subseteq Outages!Rows'
                                                     /\ incWork'[q].left \subseteq Codes
                                                     /\ "left" \in DOMAIN incWork'[q]
    BY <1>8 DEF OutageInv
  <2>3. incWork' = [q \in Requests |-> incWork'[q]]
    BY <1>8, <1>w
  <2> QED
    BY <1>8, <2>1, <2>2, <2>3, FewerKeeps
<1>9. CASE Outages!Report
  <2>1. incRows' = Append(incRows, Outages!Row(NoRow)) /\ UNCHANGED <<incClock, incWork>>
    BY <1>9 DEF Outages!Report
  <2>2. PICK n : n = Len(incRows) + 1
    OBVIOUS
  <2>3. /\ incRows' \in Seq(RowType) /\ Outages!Rows' = Outages!Rows \cup {n}
        /\ \A i \in Outages!Rows : incRows'[i] = incRows[i]
        /\ incRows'[n].code = NoRow
    BY <2>1, <2>2, AppendedIs DEF Outages!Rows
  <2>4. \A d \in Codes : OpenOf(d)' \subseteq OpenOf(d)
    <3>1. \A d \in Codes : d # NoRow
      BY OfficeAssumption DEF Outages!IncidentConstants
    <3> QED
      BY <2>3, <3>1 DEF OpenOf, Outages!Open
  <2> QED
    BY <1>8, <1>t, <2>1, <2>3, <2>4
<1>10. CASE Outages!Watch
  BY <1>8, <1>10, <1>c, <1>t DEF Outages!Watch
<1>11. CASE Outages!Tick
  <2>1. UNCHANGED <<incRows, incWork>> /\ incClock' \in Nat
    BY <1>11, <1>t DEF Outages!Tick
  <2>2. \A d \in Codes : OpenOf(d)' \subseteq OpenOf(d)
    BY <1>o, <2>1
  <2> QED
    BY <1>8, <1>r, <1>t, <2>1, <2>2
<1>12. CASE Outages!Restart
  <2>1. UNCHANGED <<incRows, incClock>> /\ incWork' = [r \in Requests |-> Outages!Idle]
    BY <1>12 DEF Outages!Restart
  <2>2. \A d \in Codes : OpenOf(d)' \subseteq OpenOf(d) /\ MayOpen(d)' \subseteq MayOpen(d)
    BY <1>i, <1>o, <2>1 DEF MayOpen
  <2>3. /\ incWork' = [r \in Requests |-> incWork'[r]]
        /\ \A r \in Requests : /\ "op" \in DOMAIN incWork'[r]
                               /\ Opens(incWork'[r])
                                    => /\ incWork'[r].seen \subseteq Outages!Rows'
                                                        /\ incWork'[r].left \subseteq Codes
                                                        /\ "left" \in DOMAIN incWork'[r]
    BY <1>i, <2>1
  <2> QED
    BY <1>t, <2>1, <2>2, <2>3, FewerKeeps
<1> QED
  BY <1>1, <1>2, <1>3, <1>4, <1>6, <1>7, <1>9, <1>10, <1>11, <1>12 DEF Outages!Next

LEMMA OutageStays == OutageInv /\ UNCHANGED Outages!vars => OutageInv'
<1> SUFFICES ASSUME OutageInv, UNCHANGED Outages!vars PROVE OutageInv'
  OBVIOUS
<1>1. UNCHANGED <<incClock, incRows, incWork>>
  BY DEF Outages!vars
<1>2. Outages!Rows' = Outages!Rows /\ \A c : OpenOf(c)' = OpenOf(c) /\ MayOpen(c)' = MayOpen(c)
  BY <1>1 DEF Outages!Rows, OpenOf, Outages!Open, MayOpen, Outages!Matches
<1> QED
  BY <1>1, <1>2 DEF OutageInv

LEMMA OneForEach == OutageInv => Outages!Deduplicated
<1> SUFFICES ASSUME OutageInv, NEW c \in Codes
             PROVE  Cardinality({i \in Outages!Open : incRows[i].code = c})
                 <= Cardinality(Requests)
  BY SameCounts DEF Outages!Deduplicated
<1>1. /\ Cardinality(OpenOf(c)) \in Nat
      /\ Cardinality(OpenOf(c)) + Cardinality(MayOpen(c)) <= Cardinality(Requests)
  BY DEF OutageInv
<1>2. Cardinality(MayOpen(c)) \in Nat /\ Cardinality(Requests) \in Nat
  BY MayOpenFinite DEF MayOpen
<1> QED
  BY <1>1, <1>2 DEF OpenOf


---------------------------------------------------------------------------------
(* Incidents: those opened lately are remembered, or about to be                *)

LateRows(c) ==
  {i \in Outages!Rows : /\ i > incBorn /\ incRows[i].code = c
                        /\ incRows[i].from >= incClock - Cooldown}
\* The call that opened i is at the line that remembers it.
InHand(i) == \E r \in Requests : incWork[r].op = "remember" /\ incWork[r].row = i
Noted(c, i) == \E x \in incRecent[c] : x.row = i /\ x.at >= incRows[i].from

RecentOf == [row : Int, at : Int]

\* The process knows of each incident that it opened lately: it remembers it, or a call has
\* it in hand.
BreakInv ==
  /\ incBorn \in Nat
  /\ incRecent \in [Codes -> SUBSET RecentOf]
  /\ \A c \in Codes : IsFiniteSet(incRecent[c])
  /\ \A i \in Outages!Rows : incRows[i].from <= incClock
  /\ \A r \in Requests : /\ Opens(incWork[r]) => "row" \in DOMAIN incWork[r]
                         /\ incWork[r].op = "remember" => incWork[r].row \in Outages!Rows
  /\ \A c \in Codes : \A i \in LateRows(c) : Noted(c, i) \/ InHand(i)
  /\ \A c \in Codes : Cardinality(LateRows(c)) <= MaxActions + Cardinality(Requests) - 1

LEMMA RowsFinite ==
  ASSUME OutageInv
  PROVE  /\ Outages!Rows = 1..Len(incRows) /\ Len(incRows) \in Nat
         /\ IsFiniteSet(Outages!Rows) /\ Cardinality(Outages!Rows) = Len(incRows)
         /\ \A i \in Outages!Rows : i \in Nat /\ i > 0 /\ incRows[i] \in RowType
<1>1. Outages!Rows = 1..Len(incRows) /\ Len(incRows) \in Nat
      /\ \A i \in Outages!Rows : incRows[i] \in RowType
  BY DEF OutageInv, Outages!Rows
<1>2. IsFiniteSet(1..Len(incRows)) /\ Cardinality(1..Len(incRows)) = Len(incRows)
  <2>1. 1 \in Int /\ Len(incRows) \in Int
    BY <1>1
  <2>2. IsFiniteSet(1..Len(incRows))
        /\ Cardinality(1..Len(incRows)) = IF 1 > Len(incRows) THEN 0 ELSE Len(incRows) - 1 + 1
    BY <2>1, FS_Interval
  <2> QED
    BY <1>1, <2>2
<1> QED
  BY <1>1, <1>2

LEMMA ImageIs ==
  ASSUME NEW S, IsFiniteSet(S), NEW f, f = [x \in S |-> f[x]]
  PROVE  IsFiniteSet({f[x] : x \in S}) /\ Cardinality({f[x] : x \in S}) <= Cardinality(S)
<1> DEFINE T == {f[x] : x \in S}
<1>1. f \in Surjection(S, T)
  BY DEF Surjection
<1> HIDE DEF T
<1>2. IsFiniteSet(T) /\ Cardinality(T) <= Cardinality(S)
  BY <1>1, FS_Surjection
<1> QED
  BY <1>2 DEF T

LEMMA LateFinite ==
  ASSUME OutageInv, NEW c
  PROVE  IsFiniteSet(LateRows(c)) /\ Cardinality(LateRows(c)) \in Nat
BY RowsFinite, FS_Subset, FS_CardinalityType DEF LateRows

\* What one more than the limit would need is in hand or remembered: fewer than MaxActions
\* late ones, and a call beside this one for each of the rest.
LEMMA LateCounted ==
  ASSUME OutageInv, BreakInv, NEW c \in Codes, NEW r \in Requests,
         incWork[r].op # "remember", Cardinality(Outages!Late(c)) < MaxActions
  PROVE  Cardinality(LateRows(c)) <= MaxActions + Cardinality(Requests) - 2
<1> DEFINE late == Outages!Late(c)
           busy == Requests \ {r}
           A == {x.row : x \in late}
           B == {incWork[q].row : q \in busy}
<1>1. IsFiniteSet(late) /\ Cardinality(late) \in Nat
  <2>1. IsFiniteSet(incRecent[c]) /\ late \subseteq incRecent[c]
    BY DEF BreakInv, Outages!Late
  <2> HIDE DEF late
  <2> QED
    BY <2>1, FS_Subset, FS_CardinalityType
<1>2. IsFiniteSet(busy) /\ Cardinality(busy) = Cardinality(Requests) - 1
      /\ Cardinality(Requests) \in Nat
  BY RegistryAssumption, FS_RemoveElement, FS_CardinalityType
<1>3. IsFiniteSet(A) /\ Cardinality(A) <= Cardinality(late)
  <2>1. PICK f : f = [x \in late |-> x.row]
    OBVIOUS
  <2>2. A = {f[x] : x \in late} /\ f = [x \in late |-> f[x]]
    BY <2>1
  <2> HIDE DEF late, A
  <2> QED
    BY <1>1, <2>2, ImageIs
<1>4. IsFiniteSet(B) /\ Cardinality(B) <= Cardinality(busy)
  <2>1. PICK f : f = [q \in busy |-> incWork[q].row]
    OBVIOUS
  <2>2. B = {f[q] : q \in busy} /\ f = [q \in busy |-> f[q]]
    BY <2>1
  <2> HIDE DEF busy, B
  <2> QED
    BY <1>2, <2>2, ImageIs
<1>5. LateRows(c) \subseteq A \cup B
  <2> SUFFICES ASSUME NEW i \in LateRows(c), i \notin B PROVE i \in A
    OBVIOUS
  <2>1. ~InHand(i)
    BY DEF InHand
  <2>2. PICK x \in incRecent[c] : x.row = i /\ x.at >= incRows[i].from
    BY <2>1 DEF BreakInv, Noted
  <2>3. /\ x.at \in Int /\ incRows[i].from \in Int /\ incClock \in Nat /\ Cooldown \in Nat
        /\ incRows[i].from >= incClock - Cooldown
    <3>1. incRows[i] \in RowType /\ incRows[i].from >= incClock - Cooldown
      BY RowsFinite DEF LateRows
    <3>2. x \in RecentOf
      BY DEF BreakInv
    <3> QED
      BY <3>1, <3>2, OfficeAssumption DEF RowType, RecentOf, OutageInv,
         Outages!IncidentConstants
  <2>4. x \in late
    BY <2>2, <2>3 DEF Outages!Late
  <2> QED
    BY <2>2, <2>4
<1>l. Cardinality(late) < MaxActions
  OBVIOUS
<1> HIDE DEF A, B, late, busy
<1>6. IsFiniteSet(A \cup B) /\ Cardinality(A \cup B) <= Cardinality(A) + Cardinality(B)
  <2>1. /\ IsFiniteSet(A \cup B) /\ IsFiniteSet(A \cap B)
        /\ Cardinality(A \cup B) = Cardinality(A) + Cardinality(B) - Cardinality(A \cap B)
    BY <1>3, <1>4, FS_Union, FS_Intersection
  <2>2. /\ Cardinality(A) \in Nat /\ Cardinality(B) \in Nat /\ Cardinality(A \cap B) \in Nat
    BY <1>3, <1>4, <2>1, FS_CardinalityType
  <2> QED
    BY <2>1, <2>2
<1>7. Cardinality(LateRows(c)) <= Cardinality(A \cup B)
  BY <1>5, <1>6, FS_Subset
<1>8. /\ Cardinality(A) \in Nat /\ Cardinality(B) \in Nat /\ Cardinality(A \cup B) \in Nat
      /\ Cardinality(LateRows(c)) \in Nat /\ MaxActions \in Nat
  BY <1>3, <1>4, <1>6, FS_CardinalityType, LateFinite, OfficeAssumption
     DEF Outages!IncidentConstants
<1> QED
  BY <1>1, <1>2, <1>3, <1>4, <1>6, <1>7, <1>8, <1>l

\* A step that opens none
LEMMA NoneOpened ==
  ASSUME OutageInv, BreakInv,
         incBorn' \in Nat, incRecent' \in [Codes -> SUBSET RecentOf],
         \A c \in Codes : IsFiniteSet(incRecent'[c]),
         \A i \in Outages!Rows' : incRows'[i].from <= incClock',
         \A r \in Requests : /\ Opens(incWork'[r]) => "row" \in DOMAIN incWork'[r]
                             /\ incWork'[r].op = "remember"
                                  => incWork'[r].row \in Outages!Rows',
         \A c \in Codes : LateRows(c)' \subseteq LateRows(c),
         \A c \in Codes : \A i \in LateRows(c)' : Noted(c, i)' \/ InHand(i)'
  PROVE  BreakInv'
<1>1. ASSUME NEW c \in Codes
      PROVE  Cardinality(LateRows(c)') <= MaxActions + Cardinality(Requests) - 1
  <2>1. /\ IsFiniteSet(LateRows(c)) /\ Cardinality(LateRows(c)) \in Nat
        /\ Cardinality(LateRows(c)) <= MaxActions + Cardinality(Requests) - 1
    BY LateFinite DEF BreakInv
  <2>2. /\ IsFiniteSet(LateRows(c)') /\ Cardinality(LateRows(c)') <= Cardinality(LateRows(c))
    BY <2>1, FS_Subset
  <2>3. /\ Cardinality(LateRows(c)') \in Nat /\ MaxActions \in Nat
        /\ Cardinality(Requests) \in Nat
    BY <2>2, FS_CardinalityType, RegistryAssumption, OfficeAssumption
       DEF Outages!IncidentConstants
  <2> QED
    BY <2>1, <2>2, <2>3
<1> QED
  BY <1>1 DEF BreakInv

\* Rows that are closed, or entered by hand, and sessions that go on
LEMMA OthersBreak ==
  ASSUME OutageInv, OutageInv', BreakInv, UNCHANGED <<incBorn, incRecent>>,
         incClock' >= incClock,
         \A i \in Outages!Rows : i \in Outages!Rows' /\ incRows'[i].code = incRows[i].code
                                 /\ incRows'[i].from = incRows[i].from,
         \A i \in Outages!Rows' \ Outages!Rows : incRows'[i].code = NoRow
                                                 /\ incRows'[i].from <= incClock',
         \A r \in Requests :
           \/ incWork'[r] = incWork[r]
           \/ /\ incWork[r].op # "remember" /\ incWork'[r].op # "remember"
              /\ Opens(incWork'[r]) => "row" \in DOMAIN incWork'[r]
  PROVE  BreakInv'
<1>1. incClock \in Nat /\ incClock' \in Nat /\ Cooldown \in Nat /\ NoRow \notin Codes
  BY OfficeAssumption DEF OutageInv, Outages!IncidentConstants
<1>2. /\ \A i \in Outages!Rows : incRows[i].from \in Int
      /\ \A i \in Outages!Rows' : incRows'[i].from \in Int
  <2>1. incRows \in Seq(RowType) /\ incRows' \in Seq(RowType)
    BY DEF OutageInv, RowType
  <2>2. \A x \in RowType : x.from \in Int
    BY DEF RowType
  <2> QED
    BY <2>1, <2>2 DEF Outages!Rows
<1>3. \A i \in Outages!Rows' : incRows'[i].from <= incClock'
  BY <1>1, <1>2 DEF BreakInv
<1>4. \A c \in Codes : LateRows(c)' \subseteq LateRows(c)
  BY <1>1, <1>2 DEF LateRows
<1>5. ASSUME NEW c \in Codes, NEW i \in LateRows(c)' PROVE Noted(c, i)' \/ InHand(i)'
  <2>1. i \in LateRows(c) /\ i \in Outages!Rows
    BY <1>4 DEF LateRows
  <2>2. CASE Noted(c, i)
    BY <2>1, <2>2 DEF Noted
  <2>3. CASE InHand(i)
    BY <2>3 DEF InHand
  <2> QED
    BY <2>1, <2>2, <2>3 DEF BreakInv
<1>6. \A r \in Requests : /\ Opens(incWork'[r]) => "row" \in DOMAIN incWork'[r]
                          /\ incWork'[r].op = "remember"
                                  => incWork'[r].row \in Outages!Rows'
  BY DEF BreakInv
<1>7. /\ incBorn' \in Nat /\ incRecent' \in [Codes -> SUBSET RecentOf]
      /\ \A c \in Codes : IsFiniteSet(incRecent'[c])
  BY DEF BreakInv
<1> QED
  BY <1>3, <1>4, <1>5, <1>6, <1>7, NoneOpened

LEMMA OpeningHasRow ==
  ASSUME NEW w, "op" \in DOMAIN w, "row" \in DOMAIN w, w.op = "open"
  PROVE  /\ Outages!Opening(w).op # "remember"
         /\ Opens(Outages!Opening(w)) => "row" \in DOMAIN Outages!Opening(w)
<1>1. CASE w.left # {}
  BY <1>1 DEF Outages!Opening
<1>2. CASE w.left = {}
  <2>1. PICK x : x = [w EXCEPT !.op = "close", !.over = {}, !.row = 0,
                        !.seen = {i \in @ : incRows[i].code \notin w.over}]
    OBVIOUS
  <2>2. "op" \in DOMAIN x /\ x.op = "close"
    BY <2>1
  <2>3. Outages!Opening(w) = Outages!Closing(x)
    BY <1>2, <2>1 DEF Outages!Opening
  <2>4. Outages!Closing(x) = Outages!Idle \/ Outages!Closing(x) = x
    BY DEF Outages!Closing
  <2>5. Outages!Idle.op = "none"
    BY DEF Outages!Idle
  <2>6. Outages!Opening(w).op \notin {"open", "remember"}
    BY <2>2, <2>3, <2>4, <2>5
  <2> QED
    BY <2>6 DEF Opens
<1> QED
  BY <1>1, <1>2

LEMMA BreakInit == Outages!Init => BreakInv
<1> SUFFICES ASSUME Outages!Init PROVE BreakInv
  OBVIOUS
<1>1. Outages!Rows = {} /\ incBorn \in Nat /\ incRecent = [c \in Codes |-> {}]
  BY DEF Outages!Init, Outages!Rows
<1>2. \A r \in Requests : incWork[r].op = "none"
  BY DEF Outages!Init, Outages!Idle
<1>3. \A c : LateRows(c) = {}
  BY <1>1 DEF LateRows
<1>4. Cardinality({}) = 0 /\ IsFiniteSet({})
  BY FS_EmptySet
<1>5. 0 <= MaxActions + Cardinality(Requests) - 1
  <2>1. MaxActions \in Nat /\ MaxActions >= 1 /\ Cardinality(Requests) \in Nat
    BY OfficeAssumption, RegistryAssumption, FS_CardinalityType DEF Outages!IncidentConstants
  <2> QED
    BY <2>1
<1>6. incRecent \in [Codes -> SUBSET RecentOf] /\ \A c \in Codes : IsFiniteSet(incRecent[c])
  BY <1>1, <1>4
<1>7. \A c \in Codes : Cardinality(LateRows(c)) <= MaxActions + Cardinality(Requests) - 1
  BY <1>3, <1>4, <1>5
<1> QED
  BY <1>1, <1>2, <1>3, <1>6, <1>7 DEF BreakInv, Opens

\* The commit of an incident
LEMMA OpenedKeeps ==
  ASSUME OutageInv, OutageInv', BreakInv, NEW r \in Requests, NEW c \in Codes,
         incWork[r].op = "open", Cardinality(Outages!Late(c)) < MaxActions,
         incRecent' = [incRecent EXCEPT ![c] = Outages!Late(c)],
         NEW n, n = Len(incRows) + 1, incRows' = Append(incRows, Outages!Row(c)),
         incWork'[r].op = "remember", "row" \in DOMAIN incWork'[r], incWork'[r].row = n,
         \A q \in Requests \ {r} : incWork'[q] = incWork[q],
         UNCHANGED <<incClock, incBorn>>
  PROVE  BreakInv'
<1>1. /\ Outages!Rows' = Outages!Rows \cup {n} /\ n \notin Outages!Rows
      /\ \A i \in Outages!Rows : incRows'[i] = incRows[i]
      /\ incRows'[n].code = c /\ incRows'[n].from = incClock
  <2>1. PICK x : x = Outages!Row(c)
    OBVIOUS
  <2>2. x \in RowType /\ x.from = incClock /\ x.code = c
    BY <2>1 DEF Outages!Row, RowType, OutageInv, Outages!None
  <2>3. Append(incRows, x)[Len(incRows) + 1] = x
    BY <2>2 DEF OutageInv
  <2> QED
    BY <2>1, <2>2, <2>3, AppendedIs DEF Outages!Rows
<1>2. incClock \in Nat /\ Cooldown \in Nat /\ MaxActions \in Nat
      /\ Cardinality(Requests) \in Nat
  BY OfficeAssumption, RegistryAssumption, FS_CardinalityType
     DEF OutageInv, Outages!IncidentConstants
<1>3. /\ incRecent' \in [Codes -> SUBSET RecentOf]
      /\ \A d \in Codes : IsFiniteSet(incRecent'[d])
      /\ \A d \in Codes : d # c => incRecent'[d] = incRecent[d]
      /\ incRecent'[c] = Outages!Late(c)
  <2>1. Outages!Late(c) \subseteq incRecent[c]
    BY DEF Outages!Late
  <2>2. incRecent \in [Codes -> SUBSET RecentOf] /\ \A d \in Codes : IsFiniteSet(incRecent[d])
    BY DEF BreakInv
  <2>3. IsFiniteSet(Outages!Late(c)) /\ Outages!Late(c) \in SUBSET RecentOf
    BY <2>1, <2>2, FS_Subset
  <2> QED
    BY <2>2, <2>3
<1>4. ASSUME NEW d \in Codes
      PROVE  LateRows(d)' \subseteq IF d = c THEN LateRows(d) \cup {n} ELSE LateRows(d)
  BY <1>1 DEF LateRows
<1>5. ASSUME NEW d \in Codes, NEW i \in LateRows(d)' PROVE Noted(d, i)' \/ InHand(i)'
  <2>1. CASE i = n
    BY <2>1 DEF InHand
  <2>2. CASE i # n
    <3>1. i \in LateRows(d) /\ i \in Outages!Rows /\ incRows'[i] = incRows[i]
      BY <1>1, <1>4, <2>2 DEF LateRows
    <3>2. CASE InHand(i)
      BY <3>2 DEF InHand
    <3>3. CASE Noted(d, i)
      <4>1. PICK x \in incRecent[d] : x.row = i /\ x.at >= incRows[i].from
        BY <3>3 DEF Noted
      <4>2. /\ x.at \in Int /\ incRows[i].from \in Int
            /\ incRows[i].from >= incClock - Cooldown
        <5>1. incRows[i] \in RowType /\ incRows[i].from >= incClock - Cooldown
          BY <3>1, RowsFinite DEF LateRows
        <5>2. x \in RecentOf
          BY DEF BreakInv
        <5> QED
          BY <5>1, <5>2 DEF RowType, RecentOf
      <4>3. d = c => x \in Outages!Late(c)
        BY <1>2, <4>1, <4>2 DEF Outages!Late
      <4>4. x \in incRecent'[d]
        BY <1>3, <4>3
      <4> QED
        BY <3>1, <4>1, <4>4 DEF Noted
    <3> QED
      BY <3>1, <3>2, <3>3 DEF BreakInv
  <2> QED
    BY <2>1, <2>2
<1>6. ASSUME NEW d \in Codes
      PROVE  Cardinality(LateRows(d)') <= MaxActions + Cardinality(Requests) - 1
  <2>1. IsFiniteSet(LateRows(d)) /\ Cardinality(LateRows(d)) \in Nat
    BY LateFinite
  <2>2. CASE d # c
    <3>1. Cardinality(LateRows(d)) <= MaxActions + Cardinality(Requests) - 1
      BY DEF BreakInv
    <3>2. LateRows(d)' \subseteq LateRows(d)
      BY <1>4, <2>2
    <3>3. Cardinality(LateRows(d)') <= Cardinality(LateRows(d))
          /\ Cardinality(LateRows(d)') \in Nat
      BY <2>1, <3>2, FS_Subset, FS_CardinalityType
    <3> QED
      BY <1>2, <2>1, <3>1, <3>3
  <2>3. CASE d = c
    <3>1. Cardinality(LateRows(d)) <= MaxActions + Cardinality(Requests) - 2
      BY <2>3, LateCounted
    <3>2. PICK S : S = LateRows(d) \cup {n}
      OBVIOUS
    <3>3. IsFiniteSet(S) /\ Cardinality(S) \in Nat
          /\ Cardinality(S) <= Cardinality(LateRows(d)) + 1
      <4>1. IsFiniteSet(S) /\ (Cardinality(S) = Cardinality(LateRows(d))
                               \/ Cardinality(S) = Cardinality(LateRows(d)) + 1)
        BY <2>1, <3>2, FS_AddElement
      <4> QED
        BY <2>1, <4>1
    <3>4. LateRows(d)' \subseteq S
      BY <1>4, <2>3, <3>2
    <3>5. Cardinality(LateRows(d)') <= Cardinality(S) /\ Cardinality(LateRows(d)') \in Nat
      BY <3>3, <3>4, FS_Subset, FS_CardinalityType
    <3> QED
      BY <1>2, <2>1, <3>1, <3>3, <3>5
  <2> QED
    BY <2>2, <2>3
<1>7. ASSUME NEW i \in Outages!Rows' PROVE incRows'[i].from <= incClock'
  <2>1. CASE i = n
    BY <1>1, <1>2, <2>1
  <2>2. CASE i \in Outages!Rows
    BY <1>1, <2>2 DEF BreakInv
  <2> QED
    BY <1>1, <2>1, <2>2
<1>8. \A q \in Requests : /\ Opens(incWork'[q]) => "row" \in DOMAIN incWork'[q]
                          /\ incWork'[q].op = "remember"
                               => incWork'[q].row \in Outages!Rows'
  BY <1>1 DEF BreakInv
<1>9. incBorn' \in Nat
  BY DEF BreakInv
<1> QED
  BY <1>3, <1>5, <1>6, <1>7, <1>8, <1>9 DEF BreakInv

LEMMA BreakStep ==
  ASSUME OutageInv, OutageInv', BreakInv, Outages!Next
  PROVE  BreakInv'
<1>w. incWork = [r \in Requests |-> incWork[r]] /\ \A r \in Requests :
          "op" \in DOMAIN incWork[r]
  BY DEF OutageInv
<1>t. incClock \in Nat
  BY DEF OutageInv
<1>i. Outages!Idle.op = "none" /\ ~Opens(Outages!Idle)
  BY DEF Outages!Idle, Opens
<1>c. ASSUME NEW S, incRows' = Outages!Closed(S)
      PROVE  /\ Outages!Rows' = Outages!Rows
             /\ \A i \in Outages!Rows : incRows'[i].code = incRows[i].code
                                        /\ incRows'[i].from = incRows[i].from
  <2>1. \A x \in RowType : [x EXCEPT !.to = incClock].code = x.code
                           /\ [x EXCEPT !.to = incClock].from = x.from
    BY DEF RowType
  <2>2. \A i \in Outages!Rows : incRows[i] \in RowType
    BY RowsFinite
  <2> QED
    BY <1>c, <2>1, <2>2 DEF Outages!Closed, Outages!Rows
<1>k. ASSUME NEW r \in Requests, NEW w, incWork' = [incWork EXCEPT ![r] = w],
             incWork[r].op # "remember", w.op # "remember", Opens(w) => "row" \in DOMAIN w,
             UNCHANGED <<incBorn, incRecent, incClock>>,
             incRows' = incRows \/ \E S : incRows' = Outages!Closed(S)
      PROVE  BreakInv'
  <2>1. /\ Outages!Rows' = Outages!Rows
        /\ \A i \in Outages!Rows : incRows'[i].code = incRows[i].code
                                   /\ incRows'[i].from = incRows[i].from
    <3>1. CASE incRows' = incRows
      BY <3>1 DEF Outages!Rows
    <3> QED
      BY <1>c, <1>k, <3>1
  <2>2. \A q \in Requests : incWork'[q] = IF q = r THEN w ELSE incWork[q]
    BY <1>k, <1>w
  <2> QED
    BY <1>k, <1>t, <2>1, <2>2, OthersBreak
<1>1. ASSUME NEW r \in Requests, Outages!Reconcile(r) PROVE BreakInv'
  <2>1. PICK over \in SUBSET Codes : incWork' = [incWork EXCEPT ![r] =
          Outages!Opening(Outages!Session(over, Outages!Open \intersect Outages!Automatic))]
    BY <1>1 DEF Outages!Reconcile, Outages!Continue
  <2>2. PICK x : x = Outages!Session(over, Outages!Open \intersect Outages!Automatic)
    OBVIOUS
  <2>3. "op" \in DOMAIN x /\ "row" \in DOMAIN x /\ x.op = "open"
    BY <2>2 DEF Outages!Session
  <2>4. PICK w : w = Outages!Opening(x)
    OBVIOUS
  <2>5. w.op # "remember" /\ (Opens(w) => "row" \in DOMAIN w)
    BY <2>3, <2>4, OpeningHasRow
  <2>6. incWork[r].op = "none" /\ UNCHANGED <<incClock, incRows, incRecent, incBorn>>
    BY <1>1 DEF Outages!Reconcile, Outages!Ready
  <2> QED
    BY <1>k, <2>1, <2>2, <2>4, <2>5, <2>6
<1>2. ASSUME NEW r \in Requests, Outages!OpenAutomatic(r) PROVE BreakInv'
  <2>1. PICK c \in incWork[r].left :
       LET session == [incWork[r] EXCEPT !.left = @ \ {c}] IN
       \/ /\ Outages!Matches(r, c)
          /\ Outages!Continue(r, Outages!Opening(session)) /\ UNCHANGED <<incRows, incRecent>>
       \/ /\ ~Outages!Matches(r, c)
          /\ incRecent' = [incRecent EXCEPT ![c] = Outages!Late(c)]
          /\ \/ Cardinality(Outages!Late(c)) >= MaxActions
                  /\ Outages!Continue(r, Outages!Opening(session)) /\ UNCHANGED incRows
             \/ /\ Cardinality(Outages!Late(c)) < MaxActions
                     /\ Cardinality(Outages!Rows) < MaxIncidents
                /\ incRows' = Append(incRows, Outages!Row(c))
                /\ Outages!Continue(r,
                     [session EXCEPT !.op = "remember", !.row = Len(incRows) + 1,
                                     !.committed = TRUE])
    BY <1>2, SameCounts DEF Outages!OpenAutomatic
  <2>2. incWork[r].op = "open" /\ UNCHANGED <<incClock, incBorn>>
    BY <1>2 DEF Outages!OpenAutomatic, Outages!Ready
  <2>3. c \in Codes /\ "row" \in DOMAIN incWork[r] /\ "op" \in DOMAIN incWork[r]
    BY <1>w, <2>1, <2>2 DEF OutageInv, BreakInv, Opens
  <2>4. PICK x : x = [incWork[r] EXCEPT !.left = @ \ {c}]
    OBVIOUS
  <2>5. "op" \in DOMAIN x /\ "row" \in DOMAIN x /\ x.op = "open"
    BY <2>2, <2>3, <2>4
  <2>6. PICK w : w = Outages!Opening(x)
    OBVIOUS
  <2>7. w.op # "remember" /\ (Opens(w) => "row" \in DOMAIN w)
    BY <2>5, <2>6, OpeningHasRow
  <2>8. CASE Outages!Continue(r, Outages!Opening(x)) /\ UNCHANGED <<incRows, incRecent>>
    BY <1>k, <2>2, <2>6, <2>7, <2>8 DEF Outages!Continue
  <2>9. CASE /\ incRecent' = [incRecent EXCEPT ![c] = Outages!Late(c)]
             /\ Outages!Continue(r, Outages!Opening(x)) /\ UNCHANGED incRows
    <3>1. /\ incRecent' \in [Codes -> SUBSET RecentOf]
          /\ \A d \in Codes : IsFiniteSet(incRecent'[d])
               /\ incRecent'[d] \subseteq incRecent[d]
          /\ \A d \in Codes : d # c => incRecent'[d] = incRecent[d]
          /\ incRecent'[c] = Outages!Late(c)
      <4>1. Outages!Late(c) \subseteq incRecent[c]
        BY DEF Outages!Late
      <4>2. /\ incRecent \in [Codes -> SUBSET RecentOf]
            /\ \A d \in Codes : IsFiniteSet(incRecent[d])
        BY DEF BreakInv
      <4>3. IsFiniteSet(Outages!Late(c)) /\ Outages!Late(c) \in SUBSET RecentOf
        BY <2>3, <4>1, <4>2, FS_Subset
      <4> QED
        BY <2>3, <2>9, <4>1, <4>2, <4>3
    <3>2. \A q \in Requests : incWork'[q] = IF q = r THEN w ELSE incWork[q]
      BY <1>w, <2>6, <2>9 DEF Outages!Continue
    <3>3. Outages!Rows' = Outages!Rows /\ \A d : LateRows(d)' = LateRows(d)
      BY <2>2, <2>9 DEF Outages!Rows, LateRows
    <3>4. ASSUME NEW d \in Codes, NEW i \in LateRows(d)' PROVE Noted(d, i)' \/ InHand(i)'
      <4>1. i \in LateRows(d)
        BY <3>3
      <4>2. CASE InHand(i)
        BY <2>2, <3>2, <4>2 DEF InHand
      <4>3. CASE Noted(d, i)
        <5>1. PICK y \in incRecent[d] : y.row = i /\ y.at >= incRows[i].from
          BY <4>3 DEF Noted
        <5>2. /\ y.at \in Int /\ incRows[i].from \in Int /\ Cooldown \in Nat
              /\ incRows[i].from >= incClock - Cooldown
          <6>1. incRows[i] \in RowType /\ incRows[i].from >= incClock - Cooldown
            BY <4>1, RowsFinite DEF LateRows
          <6>2. y \in RecentOf
            BY DEF BreakInv
          <6> QED
            BY <6>1, <6>2, OfficeAssumption DEF RowType, RecentOf, Outages!IncidentConstants
        <5>3. d = c => y \in Outages!Late(c)
          BY <1>t, <5>1, <5>2 DEF Outages!Late
        <5>4. y \in incRecent'[d]
          BY <3>1, <5>3
        <5> QED
          BY <2>9, <5>1, <5>4 DEF Noted
      <4> QED
        BY <4>1, <4>2, <4>3 DEF BreakInv
    <3>5. \A q \in Requests : /\ Opens(incWork'[q]) => "row" \in DOMAIN incWork'[q]
                              /\ incWork'[q].op = "remember"
                                   => incWork'[q].row \in Outages!Rows'
      BY <2>7, <3>2, <3>3 DEF BreakInv
    <3>6. incBorn' \in Nat /\ \A i \in Outages!Rows' : incRows'[i].from <= incClock'
      BY <2>2, <2>9, <3>3 DEF BreakInv
    <3> QED
      BY <3>1, <3>3, <3>4, <3>5, <3>6, NoneOpened
  <2>10. CASE /\ incRecent' = [incRecent EXCEPT ![c] = Outages!Late(c)]
              /\ Cardinality(Outages!Late(c)) < MaxActions
              /\ incRows' = Append(incRows, Outages!Row(c))
              /\ Outages!Continue(r, [x EXCEPT !.op = "remember", !.row = Len(incRows) + 1,
                                               !.committed = TRUE])
    <3>1. PICK v : v = [x EXCEPT !.op = "remember", !.row = Len(incRows) + 1,
              !.committed = TRUE]
      OBVIOUS
    <3>2. v.op = "remember" /\ "row" \in DOMAIN v /\ v.row = Len(incRows) + 1
      BY <2>5, <3>1
    <3>3. \A q \in Requests : incWork'[q] = IF q = r THEN v ELSE incWork[q]
      BY <1>w, <2>10, <3>1 DEF Outages!Continue
    <3>4. PICK n : n = Len(incRows) + 1
      OBVIOUS
    <3> QED
      BY <2>2, <2>3, <2>10, <3>2, <3>3, <3>4, OpenedKeeps
  <2> QED
    BY <2>1, <2>4, <2>8, <2>9, <2>10
<1>3. ASSUME NEW r \in Requests, Outages!Remember(r) PROVE BreakInv'
  <2>1. PICK i : i = incWork[r].row
    OBVIOUS
  <2>2. PICK c : c = incRows[i].code
    OBVIOUS
  <2>3. PICK e : e = [row |-> i, at |-> incClock]
    OBVIOUS
  <2>4. /\ incRecent' = [incRecent EXCEPT ![c] = @ \cup {e}]
        /\ incWork[r].op = "remember" /\ UNCHANGED <<incClock, incRows, incBorn>>
        /\ incWork' = [incWork EXCEPT ![r]
             = Outages!Opening([incWork[r] EXCEPT !.op = "open"])]
    BY <1>3, <2>1, <2>2, <2>3 DEF Outages!Remember, Outages!Ready, Outages!Continue
  <2>5. i \in Outages!Rows /\ "row" \in DOMAIN incWork[r] /\ "op" \in DOMAIN incWork[r]
    BY <1>w, <2>1, <2>4 DEF BreakInv, Opens
  <2>6. e \in RecentOf /\ e.row = i /\ e.at = incClock
    BY <1>t, <2>3, <2>5, RowsFinite DEF RecentOf
  <2>7. PICK x : x = [incWork[r] EXCEPT !.op = "open"]
    OBVIOUS
  <2>8. "op" \in DOMAIN x /\ "row" \in DOMAIN x /\ x.op = "open"
    BY <2>5, <2>7
  <2>9. PICK w : w = Outages!Opening(x)
    OBVIOUS
  <2>10. w.op # "remember" /\ (Opens(w) => "row" \in DOMAIN w)
    BY <2>8, <2>9, OpeningHasRow
  <2>11. \A q \in Requests : incWork'[q] = IF q = r THEN w ELSE incWork[q]
    BY <1>w, <2>4, <2>7, <2>9
  <2>12. /\ incRecent' \in [Codes -> SUBSET RecentOf]
         /\ \A d \in Codes : IsFiniteSet(incRecent'[d]) /\ incRecent[d] \subseteq incRecent'[d]
         /\ c \in Codes => e \in incRecent'[c]
    <3>1. /\ incRecent \in [Codes -> SUBSET RecentOf]
          /\ \A d \in Codes : IsFiniteSet(incRecent[d])
      BY DEF BreakInv
    <3>2. \A d \in Codes : IsFiniteSet(incRecent[d] \cup {e})
      BY <3>1, FS_AddElement
    <3> QED
      BY <2>4, <2>6, <3>1, <3>2
  <2>13. Outages!Rows' = Outages!Rows /\ \A d : LateRows(d)' = LateRows(d)
    BY <2>4 DEF Outages!Rows, LateRows
  <2>14. incRows[i].from <= incClock
    BY <2>5 DEF BreakInv
  <2>15. ASSUME NEW d \in Codes, NEW j \in LateRows(d)' PROVE Noted(d, j)' \/ InHand(j)'
    <3>1. j \in LateRows(d)
      BY <2>13
    <3>2. CASE Noted(d, j)
      BY <2>4, <2>12, <3>2 DEF Noted
    <3>3. CASE InHand(j) /\ j # i
      BY <2>1, <2>11, <3>3 DEF InHand
    <3>4. CASE j = i
      <4>1. d = c
        BY <2>2, <3>1, <3>4 DEF LateRows
      <4>2. incRows[i].from \in Int /\ e.at >= incRows[i].from
        <5>1. incRows[i] \in RowType
          BY <2>5, RowsFinite
        <5> QED
          BY <1>t, <2>6, <2>14, <5>1 DEF RowType
      <4> QED
        BY <2>4, <2>6, <2>12, <3>4, <4>1, <4>2 DEF Noted
    <3> QED
      BY <3>1, <3>2, <3>3, <3>4 DEF BreakInv
  <2>16. \A q \in Requests : /\ Opens(incWork'[q]) => "row" \in DOMAIN incWork'[q]
                             /\ incWork'[q].op = "remember"
                                  => incWork'[q].row \in Outages!Rows'
    BY <2>10, <2>11, <2>13 DEF BreakInv
  <2>17. incBorn' \in Nat /\ \A j \in Outages!Rows' : incRows'[j].from <= incClock'
    BY <2>4, <2>13 DEF BreakInv
  <2> QED
    BY <2>12, <2>13, <2>15, <2>16, <2>17, NoneOpened
<1>4. ASSUME NEW r \in Requests, Outages!Close(r) PROVE BreakInv'
  <2>1. PICK i \in incWork[r].seen :
       /\ incRows' = IF incWork[r].committed /\ i \notin Outages!Open THEN incRows
            ELSE Outages!Closed({i})
       /\ Outages!Continue(r,
            Outages!Closing([incWork[r] EXCEPT !.seen = @ \ {i}, !.committed = TRUE]))
    BY <1>4 DEF Outages!Close
  <2>2. incWork[r].op = "close" /\ UNCHANGED <<incClock, incRecent, incBorn>>
    BY <1>4 DEF Outages!Close, Outages!Ready
  <2>3. PICK x : x = [incWork[r] EXCEPT !.seen = @ \ {i}, !.committed = TRUE]
    OBVIOUS
  <2>4. "op" \in DOMAIN x /\ x.op = "close"
    BY <1>w, <2>2, <2>3
  <2>5. PICK w : w = Outages!Closing(x)
    OBVIOUS
  <2>6. w.op # "remember" /\ ~Opens(w) /\ incWork' = [incWork EXCEPT ![r] = w]
    BY <1>i, <2>1, <2>3, <2>4, <2>5 DEF Outages!Closing, Opens, Outages!Continue
  <2>7. incRows' = incRows \/ \E S : incRows' = Outages!Closed(S)
    BY <2>1
  <2> QED
    BY <1>k, <2>2, <2>6, <2>7
<1>5. ASSUME NEW r \in Requests, Outages!Leave(r) PROVE BreakInv'
  BY <1>5, <1>i, <1>k DEF Outages!Leave, Outages!Continue
<1>6. ASSUME NEW r \in Requests, NEW i \in Outages!Open, Outages!ResolveRead(r, i)
      PROVE BreakInv'
  <2>1. PICK w : w = [Outages!Session({}, {i}) EXCEPT !.op = "close"]
    OBVIOUS
  <2>2. w.op = "close"
    BY <2>1 DEF Outages!Session
  <2> QED
    BY <1>6, <1>i, <1>k, <2>1, <2>2 DEF Outages!ResolveRead, Outages!Continue, Opens
<1>7. CASE Outages!Report
  <2>1. incRows' = Append(incRows, Outages!Row(NoRow))
        /\ UNCHANGED <<incClock, incWork, incRecent, incBorn>>
    BY <1>7 DEF Outages!Report
  <2>2. PICK n : n = Len(incRows) + 1
    OBVIOUS
  <2>3. /\ Outages!Rows' = Outages!Rows \cup {n} /\ n \notin Outages!Rows
        /\ \A i \in Outages!Rows : incRows'[i] = incRows[i]
        /\ incRows'[n].code = NoRow /\ incRows'[n].from = incClock
    <3>1. PICK x : x = Outages!Row(NoRow)
      OBVIOUS
    <3>2. x \in RowType /\ x.from = incClock
      BY <3>1 DEF Outages!Row, RowType, OutageInv, Outages!None
    <3>3. Append(incRows, x)[Len(incRows) + 1] = x
      BY <3>2 DEF OutageInv
    <3> QED
      BY <2>1, <2>2, <3>1, <3>2, <3>3, AppendedIs DEF Outages!Rows
  <2>4. \A i \in Outages!Rows' \ Outages!Rows : incRows'[i].code = NoRow
                                                 /\ incRows'[i].from <= incClock'
    <3>1. incRows'[n].from <= incClock'
      <4>1. incClock <= incClock
        BY <1>t
      <4>2. incRows'[n].from = incClock /\ incClock' = incClock
        BY <2>1, <2>3
      <4> QED
        BY <4>1, <4>2
    <3>2. \A i \in Outages!Rows' \ Outages!Rows : i = n
      BY <2>3
    <3> QED
      BY <2>3, <3>1, <3>2
  <2>5. \A i \in Outages!Rows : i \in Outages!Rows' /\ incRows'[i].code = incRows[i].code
                                 /\ incRows'[i].from = incRows[i].from
    BY <2>3
  <2>6. incClock' >= incClock
    BY <1>t, <2>1
  <2> QED
    BY <2>1, <2>4, <2>5, <2>6, OthersBreak
<1>8. CASE Outages!Watch
  <2>1. /\ \E S : incRows' = Outages!Closed(S)
        /\ UNCHANGED <<incClock, incWork, incRecent, incBorn>>
    BY <1>8 DEF Outages!Watch
  <2>2. /\ Outages!Rows' = Outages!Rows
        /\ \A i \in Outages!Rows : incRows'[i].code = incRows[i].code
                                   /\ incRows'[i].from = incRows[i].from
    BY <1>c, <2>1
  <2> QED
    BY <1>t, <2>1, <2>2, OthersBreak
<1>9. CASE Outages!Tick
  <2>1. /\ UNCHANGED <<incRows, incWork, incRecent, incBorn>> /\ incClock' >= incClock
    BY <1>9, <1>t DEF Outages!Tick
  <2> QED
    BY <2>1, OthersBreak DEF Outages!Rows
<1>10. CASE Outages!Restart
  <2>1. /\ UNCHANGED <<incRows, incClock>> /\ incWork' = [r \in Requests |-> Outages!Idle]
        /\ incBorn' = Cardinality(Outages!Rows) /\ incRecent' = [c \in Codes |-> {}]
    BY <1>10, SameCounts DEF Outages!Restart
  <2>2. Outages!Rows' = Outages!Rows /\ incBorn' \in Nat
        /\ \A i \in Outages!Rows : i \in Nat /\ ~(i > incBorn')
    BY <2>1, RowsFinite DEF Outages!Rows
  <2>3. \A c : LateRows(c)' = {}
    BY <2>2 DEF LateRows
  <2>4. incRecent' \in [Codes -> SUBSET RecentOf] /\ \A c \in Codes :
            IsFiniteSet(incRecent'[c])
    BY <2>1, FS_EmptySet
  <2>5. \A q \in Requests : incWork'[q].op = "none" /\ ~Opens(incWork'[q])
    BY <1>i, <2>1
  <2>6. \A i \in Outages!Rows' : incRows'[i].from <= incClock'
    BY <2>1, <2>2 DEF BreakInv
  <2> QED
    BY <2>2, <2>3, <2>4, <2>5, <2>6, NoneOpened
<1> QED
  BY <1>1, <1>2, <1>3, <1>4, <1>5, <1>6, <1>7, <1>8, <1>9, <1>10 DEF Outages!Next

LEMMA BreakStays == BreakInv /\ UNCHANGED Outages!vars => BreakInv'
<1> SUFFICES ASSUME BreakInv, UNCHANGED Outages!vars PROVE BreakInv'
  OBVIOUS
<1>1. UNCHANGED <<incClock, incRows, incWork, incRecent, incBorn>>
  BY DEF Outages!vars
<1>2. Outages!Rows' = Outages!Rows
  BY <1>1 DEF Outages!Rows
<1>3. \A c : LateRows(c)' = LateRows(c)
  BY <1>1, <1>2 DEF LateRows
<1>4. \A c, i : (Noted(c, i)' <=> Noted(c, i)) /\ (InHand(i)' <=> InHand(i))
  BY <1>1 DEF Noted, InHand
<1> QED
  BY <1>1, <1>2, <1>3, <1>4 DEF BreakInv

LEMMA NotWithoutEnd == BreakInv => Outages!BreakerHolds
BY SameCounts DEF BreakInv, LateRows, Outages!BreakerHolds

---------------------------------------------------------------------------------
(* Incidents: the months add up to what they lasted                              *)

LEMMA SmallestSet ==
  ASSUME NEW K, IsFiniteSet(K), NEW Bad \in SUBSET SUBSET K, Bad # {}
  PROVE  \E T \in Bad : \A U \in SUBSET T : U # T => U \notin Bad
<1>1. Bad \subseteq FiniteSubsetsOf(K)
  BY FS_Subset DEF FiniteSubsetsOf
<1>2. PICK T \in Bad : \A U \in Bad : ~(<<U, T>> \in StrictSubsetOrdering(K))
  BY <1>1, FS_StrictSubsetOrderingWellFounded, WFMin
<1>3. ASSUME NEW U \in SUBSET T, U # T, U \in Bad PROVE FALSE
  BY <1>2, <1>3 DEF StrictSubsetOrdering
<1> QED
  BY <1>3

Taken(T) == CHOOSE x \in T : TRUE

\* f gives the sum of each subset of K.
Sums(a, K, f) ==
  /\ f = [T \in SUBSET K |-> f[T]]
  /\ \A T \in SUBSET K : f[T] = IF T = {} THEN 0 ELSE a[Taken(T)] + f[T \ {Taken(T)}]

LEMMA TakenIs ==
  ASSUME NEW T, T # {}
  PROVE  Taken(T) \in T /\ T \ {Taken(T)} # T
BY DEF Taken

LEMMA SumsAt ==
  ASSUME NEW K, NEW a, NEW f, Sums(a, K, f), NEW T \in SUBSET K
  PROVE  f[T] = IF T = {} THEN 0 ELSE a[Taken(T)] + f[T \ {Taken(T)}]
BY DEF Sums

LEMMA SumsOnce ==
  ASSUME NEW K, IsFiniteSet(K), NEW a, NEW f, NEW g, Sums(a, K, f), Sums(a, K, g)
  PROVE  f = g
<1> DEFINE Bad == {T \in SUBSET K : f[T] # g[T]}
<1>1. SUFFICES ASSUME Bad # {} PROVE FALSE
  <2>1. f = [T \in SUBSET K |-> f[T]] /\ g = [T \in SUBSET K |-> g[T]]
    BY DEF Sums
  <2>2. Bad = {} => \A T \in SUBSET K : f[T] = g[T]
    OBVIOUS
  <2> HIDE DEF Bad
  <2> QED
    BY <2>1, <2>2
<1>2. PICK T \in SUBSET K : f[T] # g[T] /\ \A U \in SUBSET T : U # T => f[U] = g[U]
  <2>1. Bad \in SUBSET SUBSET K
    OBVIOUS
  <2>2. PICK T \in Bad : \A U \in SUBSET T : U # T => U \notin Bad
    <3> HIDE DEF Bad
    <3> QED
      BY <1>1, <2>1, SmallestSet
  <2> QED
    BY <2>2
<1> HIDE DEF Bad
<1>3. CASE T = {}
  BY <1>2, <1>3, SumsAt
<1>4. CASE T # {}
  <2>1. PICK x \in T : x = Taken(T) /\ T \ {x} # T
    BY <1>4, TakenIs
  <2>2. f[T \ {x}] = g[T \ {x}]
    BY <1>2, <2>1
  <2>3. f[T] = a[x] + f[T \ {x}]
    BY <1>4, <2>1, SumsAt
  <2>4. g[T] = a[x] + g[T \ {x}]
    BY <1>4, <2>1, SumsAt
  <2> QED
    BY <1>2, <2>2, <2>3, <2>4
<1> QED
  BY <1>3, <1>4

\* The sums of the subsets of a part of K
LEMMA SumsOfPart ==
  ASSUME NEW K, NEW a, NEW f, Sums(a, K, f), NEW L \in SUBSET K,
         NEW g, g = [T \in SUBSET L |-> f[T]]
  PROVE  Sums(a, L, g)
<1>1. \A T \in SUBSET L : g[T] = f[T] /\ T \in SUBSET K /\ T \ {Taken(T)} \in SUBSET L
  OBVIOUS
<1>2. ASSUME NEW T \in SUBSET L
      PROVE  g[T] = IF T = {} THEN 0 ELSE a[Taken(T)] + g[T \ {Taken(T)}]
  <2>1. f[T] = IF T = {} THEN 0 ELSE a[Taken(T)] + f[T \ {Taken(T)}]
    BY <1>1 DEF Sums
  <2> QED
    BY <1>1, <2>1
<1>3. g = [T \in SUBSET L |-> g[T]]
  OBVIOUS
<1> QED
  BY <1>2, <1>3 DEF Sums

\* Over the smallest set that has no sums, the sums of its parts give them.
LEMMA SumsExist ==
  ASSUME NEW K, IsFiniteSet(K), NEW a
  PROVE  \E f : Sums(a, K, f)
<1> DEFINE Has(L) == \E f : Sums(a, L, f)
           Bad == {L \in SUBSET K : ~Has(L)}
<1>1. SUFFICES ASSUME Bad # {} PROVE FALSE
  BY DEF Bad
<1>2. PICK L \in SUBSET K : ~Has(L) /\ \A U \in SUBSET L : U # L => Has(U)
  <2>1. Bad \in SUBSET SUBSET K
    OBVIOUS
  <2>2. PICK T \in Bad : \A U \in SUBSET T : U # T => U \notin Bad
    <3> HIDE DEF Bad
    <3> QED
      BY <1>1, <2>1, SmallestSet
  <2> HIDE DEF Has
  <2> QED
    BY <2>2
<1> HIDE DEF Bad
<1>3. PICK v : v = [U \in SUBSET L |-> CHOOSE n : \E f : Sums(a, U, f) /\ f[U] = n]
  OBVIOUS
<1>4. ASSUME NEW U \in SUBSET L, U # L, NEW f, Sums(a, U, f) PROVE v[U] = f[U]
  <2>1. \A g : Sums(a, U, g) => g = f
    <3>1. IsFiniteSet(U)
      BY <1>2, FS_Subset
    <3> QED
      BY <1>4, <3>1, SumsOnce
  <2>2. v[U] = CHOOSE n : \E g : Sums(a, U, g) /\ g[U] = n
    BY <1>3
  <2> QED
    BY <1>4, <2>1, <2>2
<1>5. ASSUME NEW U \in SUBSET L, U # L
      PROVE  v[U] = IF U = {} THEN 0 ELSE a[Taken(U)] + v[U \ {Taken(U)}]
  <2>1. PICK f : Sums(a, U, f)
    BY <1>2, <1>5
  <2>2. v[U] = f[U]
    BY <1>4, <1>5, <2>1
  <2>3. U \in SUBSET U
    OBVIOUS
  <2>4. f[U] = IF U = {} THEN 0 ELSE a[Taken(U)] + f[U \ {Taken(U)}]
    BY <2>1, <2>3, SumsAt
  <2>5. CASE U = {}
    BY <2>2, <2>4, <2>5
  <2>6. CASE U # {}
    <3>1. PICK M \in SUBSET U : M = U \ {Taken(U)} /\ M # U
      <4>1. U \ {Taken(U)} # U /\ U \ {Taken(U)} \in SUBSET U
        BY <2>6, TakenIs
      <4> QED
        BY <4>1
    <3>2. M \in SUBSET L /\ M # L
      BY <3>1
    <3>3. PICK g : g = [T \in SUBSET M |-> f[T]]
      OBVIOUS
    <3>4. Sums(a, M, g)
      BY <2>1, <3>1, <3>3, SumsOfPart
    <3>5. g[M] = f[M]
      BY <3>3
    <3>6. v[M] = f[M]
      BY <1>4, <3>2, <3>4, <3>5
    <3> QED
      BY <2>2, <2>4, <2>6, <3>1, <3>6
  <2> QED
    BY <2>5, <2>6
<1>6. PICK top : top = IF L = {} THEN 0 ELSE a[Taken(L)] + v[L \ {Taken(L)}]
  OBVIOUS
<1>7. PICK g : g = [U \in SUBSET L |-> IF U = L THEN top ELSE v[U]]
  OBVIOUS
<1>8. g[L] = top /\ \A U \in SUBSET L : U # L => g[U] = v[U]
  BY <1>7
<1>9. ASSUME NEW U \in SUBSET L
      PROVE  g[U] = IF U = {} THEN 0 ELSE a[Taken(U)] + g[U \ {Taken(U)}]
  <2>1. U # {} => g[U \ {Taken(U)}] = v[U \ {Taken(U)}]
    <3>1. U # {} => U \ {Taken(U)} \in SUBSET L /\ U \ {Taken(U)} # L
      BY TakenIs
    <3> QED
      BY <1>8, <3>1
  <2>2. CASE U = L
    BY <1>6, <1>8, <2>1, <2>2
  <2>3. CASE U # L
    BY <1>5, <1>8, <2>1, <2>3
  <2> QED
    BY <2>2, <2>3
<1>10. g = [U \in SUBSET L |-> g[U]]
  BY <1>7
<1>11. Sums(a, L, g)
  BY <1>9, <1>10 DEF Sums
<1> QED
  BY <1>2, <1>11

\* A sum is a number.
LEMMA SumsAreNat ==
  ASSUME NEW K, IsFiniteSet(K), NEW a \in [K -> Nat], NEW f, Sums(a, K, f)
  PROVE  \A T \in SUBSET K : f[T] \in Nat
<1> DEFINE Bad == {T \in SUBSET K : f[T] \notin Nat}
<1>1. SUFFICES ASSUME Bad # {} PROVE FALSE
  OBVIOUS
<1>2. PICK T \in SUBSET K : f[T] \notin Nat /\ \A U \in SUBSET T : U # T => f[U] \in Nat
  <2>1. Bad \in SUBSET SUBSET K
    OBVIOUS
  <2>2. PICK T \in Bad : \A U \in SUBSET T : U # T => U \notin Bad
    <3> HIDE DEF Bad
    <3> QED
      BY <1>1, <2>1, SmallestSet
  <2> QED
    BY <2>2
<1> HIDE DEF Bad
<1>3. CASE T = {}
  <2>1. f[T] = 0
    BY <1>3, SumsAt
  <2> QED
    BY <1>2, <2>1
<1>4. CASE T # {}
  <2>1. PICK x \in T : x = Taken(T) /\ T \ {x} # T
    BY <1>4, TakenIs
  <2>2. f[T \ {x}] \in Nat /\ a[x] \in Nat
    BY <1>2, <2>1
  <2>3. f[T] = a[x] + f[T \ {x}]
    BY <1>4, <2>1, SumsAt
  <2> QED
    BY <1>2, <2>2, <2>3
<1> QED
  BY <1>3, <1>4

\* A sum of a set is that of the others and of any of its members.
LEMMA SumsAdd ==
  ASSUME NEW K, IsFiniteSet(K), NEW a \in [K -> Nat], NEW f, Sums(a, K, f)
  PROVE  \A T \in SUBSET K : \A x \in K \ T : f[T \cup {x}] = f[T] + a[x]
<1> DEFINE Adds(T) == \A x \in K \ T : f[T \cup {x}] = f[T] + a[x]
           Bad == {T \in SUBSET K : ~Adds(T)}
<1>1. SUFFICES ASSUME Bad # {} PROVE FALSE
  OBVIOUS
<1>2. PICK T \in SUBSET K : ~Adds(T) /\ \A U \in SUBSET T : U # T => Adds(U)
  <2>1. Bad \in SUBSET SUBSET K
    OBVIOUS
  <2>2. PICK T \in Bad : \A U \in SUBSET T : U # T => U \notin Bad
    <3> HIDE DEF Bad
    <3> QED
      BY <1>1, <2>1, SmallestSet
  <2> HIDE DEF Adds
  <2> QED
    BY <2>2
<1> HIDE DEF Bad
<1>3. PICK x \in K \ T : f[T \cup {x}] # f[T] + a[x]
  BY <1>2
<1>4. \A U \in SUBSET K : f[U] \in Nat
  BY SumsAreNat
<1>5. PICK U \in SUBSET K : U = T \cup {x}
  OBVIOUS
<1>6. PICK y \in U : y = Taken(U) /\ f[U] = a[y] + f[U \ {y}]
  BY <1>5, TakenIs, SumsAt
<1>7. CASE y = x
  <2>1. U \ {y} = T
    BY <1>3, <1>5, <1>7
  <2>2. f[U] = a[x] + f[T] /\ a[x] \in Nat /\ f[T] \in Nat
    BY <1>4, <1>6, <1>7, <2>1
  <2>3. f[U] = f[T] + a[x]
    BY <2>2
  <2> QED
    BY <1>3, <1>5, <2>3
<1>8. CASE y # x
  <2>1. PICK M : M = T \ {y}
    OBVIOUS
  <2>2. y \in T /\ M \in SUBSET T /\ M # T /\ x \in K \ M /\ y \in K \ M
    BY <1>3, <1>5, <1>6, <1>8, <2>1
  <2>3. M \cup {y} = T /\ M \cup {x} = U \ {y}
    BY <1>3, <1>5, <1>8, <2>1, <2>2
  <2>4. f[M \cup {y}] = f[M] + a[y] /\ f[M \cup {x}] = f[M] + a[x]
    BY <1>2, <2>2
  <2>5. f[M] \in Nat /\ a[x] \in Nat /\ a[y] \in Nat
    BY <1>4, <2>2
  <2>6. f[T] = f[M] + a[y] /\ f[U] = a[y] + (f[M] + a[x])
    BY <1>6, <2>3, <2>4
  <2>7. f[U] = f[T] + a[x]
    BY <2>5, <2>6
  <2> QED
    BY <1>3, <1>5, <2>7
<1> QED
  BY <1>7, <1>8

\* Term by term, the sum of two sums
LEMMA SumsTogether ==
  ASSUME NEW K, IsFiniteSet(K), NEW a \in [K -> Nat], NEW b \in [K -> Nat],
      NEW d \in [K -> Nat],
         NEW f, NEW g, NEW h, Sums(a, K, f), Sums(b, K, g), Sums(d, K, h)
  PROVE  (\A k \in K : d[k] = a[k] + b[k]) => h[K] = f[K] + g[K]
<1>f. \A T \in SUBSET K : f[T] = IF T = {} THEN 0 ELSE a[Taken(T)] + f[T \ {Taken(T)}]
  BY DEF Sums
<1>g. \A T \in SUBSET K : g[T] = IF T = {} THEN 0 ELSE b[Taken(T)] + g[T \ {Taken(T)}]
  BY DEF Sums
<1>h. \A T \in SUBSET K : h[T] = IF T = {} THEN 0 ELSE d[Taken(T)] + h[T \ {Taken(T)}]
  BY DEF Sums
<1>3. \A U \in SUBSET K : f[U] \in Nat /\ g[U] \in Nat /\ h[U] \in Nat
  <2>1. \A U \in SUBSET K : f[U] \in Nat
    BY SumsAreNat
  <2>2. \A U \in SUBSET K : g[U] \in Nat
    BY SumsAreNat
  <2>3. \A U \in SUBSET K : h[U] \in Nat
    BY SumsAreNat
  <2> QED
    BY <2>1, <2>2, <2>3
<1> SUFFICES ASSUME \A k \in K : d[k] = a[k] + b[k] PROVE h[K] = f[K] + g[K]
  OBVIOUS
<1> DEFINE Bad == {T \in SUBSET K : h[T] # f[T] + g[T]}
<1>1. SUFFICES ASSUME Bad # {} PROVE FALSE
  OBVIOUS
<1>2. PICK T \in SUBSET K :
        h[T] # f[T] + g[T] /\ \A U \in SUBSET T : U # T => h[U] = f[U] + g[U]
  <2>1. Bad \in SUBSET SUBSET K
    OBVIOUS
  <2>2. PICK T \in Bad : \A U \in SUBSET T : U # T => U \notin Bad
    <3> HIDE DEF Bad
    <3> QED
      BY <1>1, <2>1, SmallestSet
  <2> QED
    BY <2>2
<1> HIDE DEF Bad
<1>4. CASE T = {}
  <2>1. f[T] = 0
    BY <1>4, <1>f
  <2>2. g[T] = 0
    BY <1>4, <1>g
  <2>3. h[T] = 0
    BY <1>4, <1>h
  <2> QED
    BY <1>2, <2>1, <2>2, <2>3
<1>5. CASE T # {}
  <2>1. PICK x \in T : x = Taken(T) /\ T \ {x} # T
    BY <1>5, TakenIs
  <2>2. PICK U \in SUBSET K : U = T \ {x}
    OBVIOUS
  <2>3. /\ f[T] = a[x] + f[U]
        /\ g[T] = b[x] + g[U]
        /\ h[T] = d[x] + h[U]
    <3>1. f[T] = a[x] + f[U]
      BY <1>5, <2>1, <2>2, <1>f
    <3>2. g[T] = b[x] + g[U]
      BY <1>5, <2>1, <2>2, <1>g
    <3>3. h[T] = d[x] + h[U]
      BY <1>5, <2>1, <2>2, <1>h
    <3> QED
      BY <3>1, <3>2, <3>3
  <2>4. h[U] = f[U] + g[U] /\ d[x] = a[x] + b[x]
    BY <1>2, <2>1, <2>2
  <2>5. f[U] \in Nat /\ g[U] \in Nat /\ a[x] \in Nat /\ b[x] \in Nat
    BY <1>3
  <2> QED
    BY <1>2, <2>3, <2>4, <2>5
<1> QED
  BY <1>4, <1>5

\* Terms that are zero do not count.
LEMMA SumsWithout ==
  ASSUME NEW K, IsFiniteSet(K), NEW a \in [K -> Nat], NEW f, Sums(a, K, f),
         NEW L \in SUBSET K
  PROVE  (\A k \in K \ L : a[k] = 0) => f[K] = f[L]
<1>a. ASSUME NEW W \in SUBSET K, NEW y \in K \ W PROVE f[W \cup {y}] = f[W] + a[y]
  BY SumsAdd
<1> SUFFICES ASSUME \A k \in K \ L : a[k] = 0 PROVE f[K] = f[L]
  OBVIOUS
<1> DEFINE Bad == {T \in SUBSET K : f[T] # f[T \cap L]}
<1>1. SUFFICES ASSUME Bad # {} PROVE FALSE
  <2>1. K \cap L = L
    OBVIOUS
  <2> QED
    BY <2>1
<1>2. PICK T \in SUBSET K :
        f[T] # f[T \cap L] /\ \A U \in SUBSET T : U # T => f[U] = f[U \cap L]
  <2>1. Bad \in SUBSET SUBSET K
    OBVIOUS
  <2>2. PICK T \in Bad : \A U \in SUBSET T : U # T => U \notin Bad
    <3> HIDE DEF Bad
    <3> QED
      BY <1>1, <2>1, SmallestSet
  <2> QED
    BY <2>2
<1> HIDE DEF Bad
<1>3. \A U \in SUBSET K : f[U] \in Nat
  BY SumsAreNat
<1>4. T # {}
  <2>1. {} \cap L = {}
    OBVIOUS
  <2> QED
    BY <1>2, <2>1
<1>5. PICK x \in T : x = Taken(T) /\ T \ {x} # T
  BY <1>4, TakenIs
<1>6. PICK U \in SUBSET K : U = T \ {x}
  OBVIOUS
<1>7. f[T] = a[x] + f[U] /\ f[U] = f[U \cap L] /\ a[x] \in Nat
  BY <1>2, <1>4, <1>5, <1>6, SumsAt
<1>8. CASE x \in L
  <2>1. PICK V \in SUBSET K : V = U \cap L
    OBVIOUS
  <2>2. V \cup {x} = T \cap L /\ x \in K \ V
    BY <1>6, <1>8, <2>1
  <2>3. f[T \cap L] = f[V] + a[x]
    <3>1. f[V \cup {x}] = f[V] + a[x]
      BY <1>a, <2>2
    <3> QED
      BY <2>2, <3>1
  <2>4. f[V] \in Nat
    BY <1>3
  <2> QED
    BY <1>2, <1>7, <2>1, <2>3, <2>4
<1>9. CASE x \notin L
  <2>1. U \cap L = T \cap L /\ a[x] = 0
    BY <1>6, <1>9
  <2>2. f[U] \in Nat
    BY <1>3
  <2> QED
    BY <1>2, <1>7, <2>1, <2>2
<1> QED
  BY <1>8, <1>9

LEMMA SumsSame ==
  ASSUME NEW K, IsFiniteSet(K), NEW a, NEW b, \A k \in K : a[k] = b[k], NEW f,
         NEW g, Sums(a, K, f), Sums(b, K, g)
  PROVE  f = g
<1>1. \A T \in SUBSET K : T # {} => a[Taken(T)] = b[Taken(T)]
  BY TakenIs
<1>2. Sums(a, K, g)
  BY <1>1 DEF Sums
<1> QED
  BY <1>2, SumsOnce

\* As the module adds up
LEMMA SpentIs ==
  ASSUME NEW s, NEW K, IsFiniteSet(K), K = {i \in Outages!Rows : incRows[i].from < s + Month},
         NEW b, \A i \in K : b[i] = Outages!InMonth(i, s), NEW f, Sums(b, K, f)
  PROVE  Outages!Spent(s) = f[K]
<1> DEFINE Chosen == CHOOSE g : g = [T \in SUBSET K |->
             IF T = {} THEN 0
             ELSE Outages!InMonth(CHOOSE x \in T : TRUE, s) + g[T \ {CHOOSE x \in T : TRUE}]]
<1>1. ASSUME NEW g
      PROVE  Sums(b, K, g) <=> g = [T \in SUBSET K |->
               IF T = {} THEN 0
               ELSE Outages!InMonth(CHOOSE x \in T : TRUE, s) + g[T \ {CHOOSE x \in T : TRUE}]]
  <2>1. \A T \in SUBSET K : T # {} =>
          b[CHOOSE x \in T : TRUE] = Outages!InMonth(CHOOSE x \in T : TRUE, s)
    OBVIOUS
  <2>2. \A T \in SUBSET K :
          (IF T = {} THEN 0 ELSE b[Taken(T)] + g[T \ {Taken(T)}])
            = (IF T = {} THEN 0
               ELSE Outages!InMonth(CHOOSE x \in T : TRUE, s)
                      + g[T \ {CHOOSE x \in T : TRUE}])
    BY <2>1 DEF Taken
  <2>3. ASSUME Sums(b, K, g)
        PROVE  g = [T \in SUBSET K |->
               IF T = {} THEN 0
               ELSE Outages!InMonth(CHOOSE x \in T : TRUE, s) + g[T \ {CHOOSE x \in T : TRUE}]]
    <3>1. g = [T \in SUBSET K |-> g[T]]
      BY <2>3 DEF Sums
    <3>2. \A T \in SUBSET K : g[T] = IF T = {} THEN 0
               ELSE Outages!InMonth(CHOOSE x \in T : TRUE, s) + g[T \ {CHOOSE x \in T : TRUE}]
      BY <2>2, <2>3 DEF Sums
    <3> QED
      BY <3>1, <3>2
  <2>4. ASSUME g = [T \in SUBSET K |->
               IF T = {} THEN 0
               ELSE Outages!InMonth(CHOOSE x \in T : TRUE, s) + g[T \ {CHOOSE x \in T : TRUE}]]
        PROVE  Sums(b, K, g)
    <3>1. g = [T \in SUBSET K |-> g[T]]
      BY <2>4
    <3>2. \A T \in SUBSET K : g[T] = IF T = {} THEN 0
               ELSE Outages!InMonth(CHOOSE x \in T : TRUE, s) + g[T \ {CHOOSE x \in T : TRUE}]
      BY <2>4
    <3>3. \A T \in SUBSET K : g[T] = IF T = {} THEN 0 ELSE b[Taken(T)] + g[T \ {Taken(T)}]
      BY <2>2, <3>2
    <3> QED
      BY <3>1, <3>3 DEF Sums
  <2> QED
    BY <2>3, <2>4
<1>2. \A g : Sums(b, K, g) => g = f
  BY SumsOnce
<1>3. Chosen = f
  BY <1>1, <1>2
<1>4. Outages!Spent(s) = Chosen[K]
  BY DEF Outages!Spent, Outages!MapThenSumSet, Outages!MapThenFoldSet
<1> QED
  BY <1>3, <1>4

---------------------------------------------------------------------------------
Span(i) == Outages!Until(i) - incRows[i].from
FirstDays == {m \in 0..MaxTicks : m % Month = 0}

\* An incident ends after it began, and the clock is within its bound.
SpanInv ==
  /\ incClock <= MaxTicks
  /\ \A i \in Outages!Rows :
       /\ 0 <= incRows[i].from /\ incRows[i].from <= incClock
       /\ incRows[i].to # Outages!None
            => incRows[i].from <= incRows[i].to /\ incRows[i].to <= incClock

LEMMA SpanInit == Outages!Init => SpanInv
BY OfficeAssumption DEF Outages!Init, SpanInv, Outages!Rows, Outages!IncidentConstants

LEMMA SpanStep ==
  ASSUME OutageInv, OutageInv', SpanInv, Outages!Next
  PROVE  SpanInv'
<1>t. incRows \in Seq(RowType) /\ incClock \in Nat /\ MaxTicks \in Nat
      /\ \A i \in Outages!Rows : incRows[i] \in RowType
  BY RowsFinite, OfficeAssumption DEF OutageInv, Outages!IncidentConstants
<1>1. ASSUME UNCHANGED <<incRows, incClock>> PROVE SpanInv'
  BY <1>1 DEF SpanInv, Outages!Rows
<1>2. ASSUME NEW S, incRows' = Outages!Closed(S), UNCHANGED incClock PROVE SpanInv'
  <2>1. DOMAIN incRows' = DOMAIN incRows
    BY <1>2 DEF Outages!Closed, Outages!Rows
  <2>2. \A x \in RowType : [x EXCEPT !.to = incClock].to = incClock
                           /\ [x EXCEPT !.to = incClock].from = x.from /\ x.from \in Int
    BY DEF RowType
  <2>3. \A i \in Outages!Rows : /\ incRows'[i].from = incRows[i].from
                                /\ incRows'[i].to \in {incRows[i].to, incClock}
    BY <1>2, <1>t, <2>2 DEF Outages!Closed
  <2>4. \A i \in Outages!Rows : incRows[i].from \in Int
    BY <1>t DEF RowType
  <2>5. incClock <= incClock
    BY <1>t
  <2> QED
    BY <1>2, <1>t, <2>1, <2>3, <2>4, <2>5 DEF SpanInv, Outages!Rows
<1>3. ASSUME NEW c \in Codes \cup {NoRow}, incRows' = Append(incRows, Outages!Row(c)),
             UNCHANGED incClock
      PROVE  SpanInv'
  <2>1. PICK x : x = Outages!Row(c)
    OBVIOUS
  <2>2. x \in RowType /\ x.from = incClock /\ x.to = Outages!None
    BY <1>t, <2>1 DEF Outages!Row, RowType, Outages!None
  <2>3. PICK n : n = Len(incRows) + 1
    OBVIOUS
  <2>4. Append(incRows, x)[n] = x
    BY <1>t, <2>2, <2>3
  <2>5. Outages!Rows' = Outages!Rows \cup {n} /\ incRows'[n] = x
        /\ \A i \in Outages!Rows : incRows'[i] = incRows[i]
    BY <1>3, <2>1, <2>3, <2>4, AppendedIs DEF Outages!Rows
  <2>6. 0 <= incClock /\ incClock <= incClock
    BY <1>t
  <2>7. ASSUME NEW i \in Outages!Rows'
        PROVE  /\ 0 <= incRows'[i].from /\ incRows'[i].from <= incClock
               /\ incRows'[i].to # Outages!None
                    => incRows'[i].from <= incRows'[i].to /\ incRows'[i].to <= incClock
    <3>1. CASE i = n
      BY <2>2, <2>5, <2>6, <3>1
    <3>2. CASE i \in Outages!Rows
      BY <2>5, <3>2 DEF SpanInv
    <3> QED
      BY <2>5, <3>1, <3>2
  <2> QED
    BY <1>3, <2>7 DEF SpanInv, Outages!None
<1>4. ASSUME NEW r \in Requests, Outages!OpenAutomatic(r) PROVE SpanInv'
  <2>1. incWork[r].left \subseteq Codes
    BY <1>4 DEF Outages!OpenAutomatic, Outages!Ready, OutageInv, Opens
  <2>2. incRows' = incRows \/ \E c \in incWork[r].left :
            incRows' = Append(incRows, Outages!Row(c))
    BY <1>4 DEF Outages!OpenAutomatic
  <2>3. UNCHANGED incClock
    BY <1>4 DEF Outages!OpenAutomatic
  <2> QED
    BY <1>1, <1>3, <2>1, <2>2, <2>3
<1>5. ASSUME NEW r \in Requests, Outages!Close(r) PROVE SpanInv'
  BY <1>1, <1>2, <1>5 DEF Outages!Close
<1>6. CASE Outages!Report
  BY <1>3, <1>6 DEF Outages!Report
<1>7. CASE Outages!Watch
  BY <1>2, <1>7 DEF Outages!Watch
<1>8. CASE Outages!Tick
  <2>1. UNCHANGED incRows /\ incClock < MaxTicks /\ incClock' = incClock + 1
    BY <1>8 DEF Outages!Tick
  <2>2. \A i \in Outages!Rows : incRows[i].from \in Int /\ incRows[i].to \in Int
    BY <1>t DEF RowType
  <2> QED
    BY <1>t, <2>1, <2>2 DEF SpanInv, Outages!Rows
<1> QED
  BY <1>1, <1>4, <1>5, <1>6, <1>7, <1>8
     DEF Outages!Next, Outages!Reconcile, Outages!Remember, Outages!Leave,
         Outages!ResolveRead, Outages!Restart

LEMMA SpanStays == SpanInv /\ UNCHANGED Outages!vars => SpanInv'
BY DEF Outages!vars, SpanInv, Outages!Rows

LEMMA SpanIs ==
  ASSUME OutageInv, SpanInv, NEW i \in Outages!Rows
  PROVE  /\ incRows[i].from \in Nat /\ Outages!Until(i) \in Nat /\ Span(i) \in Nat
         /\ incRows[i].from <= Outages!Until(i) /\ Outages!Until(i) <= MaxTicks
<1>1. incRows[i].from \in Int /\ incRows[i].to \in Int /\ incClock \in Nat
          /\ MaxTicks \in Nat
  BY RowsFinite, OfficeAssumption DEF RowType, OutageInv, Outages!IncidentConstants
<1> QED
  BY <1>1 DEF SpanInv, Span, Outages!Until

---------------------------------------------------------------------------------
LEMMA FirstDaysAre ==
  /\ Month \in Nat /\ Month > 0 /\ MaxTicks \in Nat
  /\ IsFiniteSet(FirstDays)
  /\ \A m \in FirstDays : m \in Nat /\ m <= MaxTicks /\ \E k \in Nat : m = k * Month
  /\ \A k \in Nat : k * Month <= MaxTicks => k * Month \in FirstDays
  /\ \E q \in Nat : q * Month <= MaxTicks /\ MaxTicks < (q + 1) * Month
<1>1. Month \in Nat /\ Month > 0 /\ MaxTicks \in Nat
  BY OfficeAssumption DEF Outages!IncidentConstants
<1>2. IsFiniteSet(FirstDays)
  <2>1. IsFiniteSet(0..MaxTicks)
    BY <1>1, FS_Interval
  <2> QED
    BY <2>1, FS_Subset DEF FirstDays
<1>3. ASSUME NEW m \in Nat, m % Month = 0 PROVE \E k \in Nat : m = k * Month
  BY <1>1, <1>3
<1>4. ASSUME NEW k \in Nat PROVE (k * Month) % Month = 0 /\ k * Month \in Nat
  BY <1>1
<1>5. ASSUME NEW k \in Nat, k * Month <= MaxTicks PROVE k * Month \in FirstDays
  BY <1>1, <1>4, <1>5 DEF FirstDays
<1>6. \E q \in Nat : q * Month <= MaxTicks /\ MaxTicks < (q + 1) * Month
  <2>1. PICK q \in Nat : q = MaxTicks \div Month
    BY <1>1
  <2>2. MaxTicks = Month * (MaxTicks \div Month) + (MaxTicks % Month)
        /\ MaxTicks % Month \in 0..(Month - 1)
    BY <1>1
  <2>3. q * Month \in Nat /\ (q + 1) * Month = q * Month + Month /\ Month * q = q * Month
    BY <1>1
  <2> QED
    BY <1>1, <2>1, <2>2, <2>3
<1>7. \A m \in FirstDays : m \in Nat /\ m <= MaxTicks /\ \E k \in Nat : m = k * Month
  BY <1>1, <1>3 DEF FirstDays
<1> QED
  BY <1>1, <1>2, <1>5, <1>6, <1>7

\* What an incident lasted before b
LEMMA LastedBefore ==
  ASSUME NEW from \in Nat, NEW until \in Nat, from <= until, NEW b \in Nat
  PROVE  LET Before(e) == Outages!Most(0, Outages!Least(until, e) - from)
         IN  /\ Before(b) \in Nat /\ Before(0) = 0 /\ (until <= b => Before(b) = until - from)
BY DEF Outages!Most, Outages!Least

\* The months together count an incident for as long as it lasted.
LEMMA MonthsOfOne ==
  ASSUME OutageInv, SpanInv, NEW i \in Outages!Rows,
         NEW a \in [FirstDays -> Nat], NEW f, Sums(a, FirstDays, f)
  PROVE  (\A m \in FirstDays : a[m] = Outages!InMonth(i, m)) => f[FirstDays] = Span(i)
<1> DEFINE M == FirstDays
           from == incRows[i].from
           until == Outages!Until(i)
           First(k) == {m \in FirstDays : m < k * Month}
           Before(b) == Outages!Most(0, Outages!Least(until, b) - from)
<1>a. ASSUME NEW W \in SUBSET FirstDays, NEW y \in FirstDays \ W
      PROVE  f[W \cup {y}] = f[W] + a[y]
  BY FirstDaysAre, SumsAdd
<1>e. f[{}] = 0
  BY DEF Sums
<1>n. from \in Nat /\ until \in Nat /\ from <= until /\ until <= MaxTicks
      /\ Span(i) = until - from
  BY SpanIs DEF Span
<1> SUFFICES ASSUME \A m \in FirstDays : a[m] = Outages!InMonth(i, m)
             PROVE  f[FirstDays] = Span(i)
  OBVIOUS
<1>1. ASSUME NEW k \in Nat, k > 0, (k - 1) * Month <= MaxTicks
      PROVE  /\ (k - 1) * Month \in Nat /\ k * Month = (k - 1) * Month + Month
             /\ First(k) = First(k - 1) \cup {(k - 1) * Month}
             /\ (k - 1) * Month \in FirstDays \ First(k - 1)
  <2>1. k - 1 \in Nat /\ (k - 1) * Month \in Nat /\ k * Month = (k - 1) * Month + Month
    BY <1>1, FirstDaysAre
  <2>2. (k - 1) * Month \in FirstDays /\ ~((k - 1) * Month < (k - 1) * Month)
        /\ (k - 1) * Month < k * Month
    <3>1. PICK b \in Nat : b = (k - 1) * Month
      BY <2>1
    <3>2. ~(b < b) /\ b < b + Month
      BY FirstDaysAre
    <3>3. (k - 1) * Month \in FirstDays
      BY <1>1, <2>1, FirstDaysAre
    <3> QED
      BY <2>1, <3>1, <3>2, <3>3
  <2>3. ASSUME NEW m \in FirstDays, m < k * Month, m # (k - 1) * Month
        PROVE  m < (k - 1) * Month
    <3>1. PICK j \in Nat : m = j * Month
      BY <2>3, FirstDaysAre
    <3>2. Month \in Nat /\ Month > 0
      BY FirstDaysAre
    <3>3. j <= k - 1
      BY <2>3, <3>1, <3>2
    <3>4. j * Month <= (k - 1) * Month
      BY <2>1, <3>2, <3>3
    <3> QED
      BY <2>1, <2>3, <3>1, <3>2, <3>4
  <2>4. \A m \in FirstDays : m < (k - 1) * Month => m < k * Month
    BY <2>1, FirstDaysAre
  <2> QED
    BY <2>1, <2>2, <2>3, <2>4
<1>2. ASSUME NEW k \in Nat, k > 0, (k - 1) * Month <= MaxTicks,
             f[First(k - 1)] = Before((k - 1) * Month)
      PROVE  f[First(k)] = Before(k * Month)
  <2>1. PICK b \in Nat : b = (k - 1) * Month
    BY <1>1, <1>2
  <2>2. /\ First(k) = First(k - 1) \cup {b} /\ b \in FirstDays \ First(k - 1)
        /\ k * Month = b + Month
    BY <1>1, <1>2, <2>1
  <2>3. f[First(k)] = f[First(k - 1)] + a[b]
    <3>1. First(k - 1) \in SUBSET FirstDays
      OBVIOUS
    <3> HIDE DEF First
    <3> QED
      BY <1>a, <2>2, <3>1
  <2>4. a[b] = Outages!Most(0, Outages!Least(until, b + Month) - Outages!Most(from, b))
    BY <2>2 DEF Outages!InMonth
  <2>5. Before(b + Month)
          = Outages!Most(0,
              Outages!Least(until, b + Month) - Outages!Most(from, b)) + Before(b)
        /\ Before(b) \in Nat
    <3>1. PICK x, y, n \in Nat : x = from /\ y = until /\ n = Month /\ n > 0 /\ x <= y
      BY <1>n, FirstDaysAre
    <3>2. /\ Outages!Most(0, Outages!Least(y, b + n) - x)
               = Outages!Most(0, Outages!Least(y, b + n) - Outages!Most(x, b))
                   + Outages!Most(0, Outages!Least(y, b) - x)
          /\ Outages!Most(0, Outages!Least(y, b) - x) \in Nat
      BY <3>1 DEF Outages!Most, Outages!Least
    <3> QED
      BY <3>1, <3>2
  <2>6. a[b] \in Nat
    BY <2>2
  <2>7. f[First(k - 1)] = Before(b)
    BY <1>2, <2>1
  <2> HIDE DEF Before, First
  <2> QED
    BY <2>2, <2>3, <2>4, <2>5, <2>6, <2>7
<1>3. First(0) = {} /\ Before(0) = 0
  <2>1. \A m \in FirstDays : ~(m < 0 * Month)
    BY FirstDaysAre
  <2>2. Before(0) = 0
    BY <1>n, LastedBefore, FirstDaysAre
  <2> QED
    BY <2>1, <2>2
<1>4. ASSUME NEW k \in Nat, k = 0 \/ (k - 1) * Month <= MaxTicks
      PROVE  f[First(k)] = Before(k * Month)
  <2> DEFINE Bad == {j \in Nat : (j = 0 \/ (j - 1) * Month <= MaxTicks)
                                 /\ f[First(j)] # Before(j * Month)}
  <2> SUFFICES ASSUME Bad # {} PROVE FALSE
    BY <1>4
  <2>1. PICK j \in Bad : \A l \in Bad : j <= l
    <3>1. Bad \subseteq Nat
      OBVIOUS
    <3> HIDE DEF Bad
    <3> QED
      BY <3>1, LeastOfNat
  <2>2. 0 * Month = 0
    BY FirstDaysAre
  <2>3. j # 0
    BY <1>3, <1>e, <2>2
  <2>4. j - 1 \in Nat /\ j > 0 /\ (j - 1) * Month <= MaxTicks /\ j - 1 \notin Bad
    BY <2>1, <2>3
  <2>5. j - 1 = 0 \/ ((j - 1) - 1) * Month <= MaxTicks
    <3>1. ((j - 1) - 1) * Month = (j - 1) * Month - Month /\ (j - 1) * Month \in Int
      BY <2>4, FirstDaysAre
    <3> QED
      BY <2>4, <3>1, FirstDaysAre
  <2>6. f[First(j - 1)] = Before((j - 1) * Month)
    BY <2>4, <2>5
  <2>7. f[First(j)] = Before(j * Month)
    BY <1>2, <2>4, <2>6
  <2> QED
    BY <2>7
<1>5. PICK q \in Nat : q * Month <= MaxTicks /\ MaxTicks < (q + 1) * Month
  BY FirstDaysAre
<1>6. PICK b \in Nat : b = (q + 1) * Month
  BY FirstDaysAre
<1>7. f[First(q + 1)] = Before(b)
  <2>1. q + 1 \in Nat /\ (q + 1) - 1 = q
    OBVIOUS
  <2> HIDE DEF First, Before
  <2> QED
    BY <1>4, <1>5, <1>6, <2>1
<1>8. First(q + 1) = FirstDays
  BY <1>5, <1>6, FirstDaysAre
<1>9. Before(b) = until - from
  <2>1. until <= b
    BY <1>5, <1>6, <1>n, FirstDaysAre
  <2> QED
    BY <1>n, <2>1, LastedBefore, FirstDaysAre
<1> HIDE DEF First, Before
<1> QED
  BY <1>7, <1>8, <1>9, <1>n

\* As the module adds up the months, and the incidents
LEMMA TotalsAre ==
  ASSUME NEW K, IsFiniteSet(K), NEW L, IsFiniteSet(L), FirstDays = K, Outages!Rows = L,
         NEW b, \A m \in K : b[m] = Outages!Minutes(m), NEW f, Sums(b, K, f),
         NEW d, \A i \in L : d[i] = Span(i), NEW g, Sums(d, L, g)
  PROVE  Outages!Counted = f[K] /\ Outages!Lasted = g[L]
<1> DEFINE Left(h) == [T \in SUBSET K |->
             IF T = {} THEN 0
             ELSE Outages!Minutes(CHOOSE x \in T : TRUE) + h[T \ {CHOOSE x \in T : TRUE}]]
           Right(h) == [T \in SUBSET L |->
             IF T = {} THEN 0
             ELSE (Outages!Until(CHOOSE x \in T : TRUE) - incRows[CHOOSE x \in T : TRUE].from)
                    + h[T \ {CHOOSE x \in T : TRUE}]]
<1>1. ASSUME NEW h PROVE Sums(b, K, h) <=> h = Left(h)
  <2>1. \A T \in SUBSET K : T # {} =>
          b[CHOOSE x \in T : TRUE] = Outages!Minutes(CHOOSE x \in T : TRUE)
    OBVIOUS
  <2>2. \A T \in SUBSET K :
          (IF T = {} THEN 0 ELSE b[Taken(T)] + h[T \ {Taken(T)}])
            = (IF T = {} THEN 0
               ELSE Outages!Minutes(CHOOSE x \in T : TRUE) + h[T \ {CHOOSE x \in T : TRUE}])
    BY <2>1 DEF Taken
  <2>3. ASSUME Sums(b, K, h) PROVE h = Left(h)
    <3>1. h = [T \in SUBSET K |-> h[T]]
      BY <2>3 DEF Sums
    <3>2. \A T \in SUBSET K : h[T] = IF T = {} THEN 0
               ELSE Outages!Minutes(CHOOSE x \in T : TRUE) + h[T \ {CHOOSE x \in T : TRUE}]
      BY <2>2, <2>3 DEF Sums
    <3> QED
      BY <3>1, <3>2
  <2>4. ASSUME h = Left(h) PROVE Sums(b, K, h)
    <3>1. h = [T \in SUBSET K |-> h[T]]
      BY <2>4
    <3>2. \A T \in SUBSET K : h[T] = IF T = {} THEN 0
               ELSE Outages!Minutes(CHOOSE x \in T : TRUE) + h[T \ {CHOOSE x \in T : TRUE}]
      BY <2>4
    <3>3. \A T \in SUBSET K : h[T] = IF T = {} THEN 0 ELSE b[Taken(T)] + h[T \ {Taken(T)}]
      BY <2>2, <3>2
    <3> QED
      BY <3>1, <3>3 DEF Sums
  <2> QED
    BY <2>3, <2>4
<1>2. ASSUME NEW h PROVE Sums(d, L, h) <=> h = Right(h)
  <2>1. \A T \in SUBSET L : T # {} =>
          d[CHOOSE x \in T : TRUE]
            = Outages!Until(CHOOSE x \in T : TRUE) - incRows[CHOOSE x \in T : TRUE].from
    BY DEF Span
  <2>2. \A T \in SUBSET L :
          (IF T = {} THEN 0 ELSE d[Taken(T)] + h[T \ {Taken(T)}])
            = (IF T = {} THEN 0
               ELSE (Outages!Until(CHOOSE x \in T : TRUE) - incRows[CHOOSE x
                   \in T : TRUE].from)
                      + h[T \ {CHOOSE x \in T : TRUE}])
    BY <2>1 DEF Taken
  <2>3. ASSUME Sums(d, L, h) PROVE h = Right(h)
    <3>1. h = [T \in SUBSET L |-> h[T]]
      BY <2>3 DEF Sums
    <3>2. \A T \in SUBSET L : h[T] = IF T = {} THEN 0
               ELSE (Outages!Until(CHOOSE x \in T : TRUE) - incRows[CHOOSE x
                   \in T : TRUE].from)
                      + h[T \ {CHOOSE x \in T : TRUE}]
      BY <2>2, <2>3 DEF Sums
    <3> QED
      BY <3>1, <3>2
  <2>4. ASSUME h = Right(h) PROVE Sums(d, L, h)
    <3>1. h = [T \in SUBSET L |-> h[T]]
      BY <2>4
    <3>2. \A T \in SUBSET L : h[T] = IF T = {} THEN 0
               ELSE (Outages!Until(CHOOSE x \in T : TRUE) - incRows[CHOOSE x
                   \in T : TRUE].from)
                      + h[T \ {CHOOSE x \in T : TRUE}]
      BY <2>4
    <3>3. \A T \in SUBSET L : h[T] = IF T = {} THEN 0 ELSE d[Taken(T)] + h[T \ {Taken(T)}]
      BY <2>2, <3>2
    <3> QED
      BY <3>1, <3>3 DEF Sums
  <2> QED
    BY <2>3, <2>4
<1>3. (CHOOSE h : h = Left(h)) = f
  <2>1. \A h : Sums(b, K, h) => h = f
    BY SumsOnce
  <2> HIDE DEF Left
  <2>2. \A h : h = Left(h) <=> h = f
    BY <1>1, <2>1
  <2> QED
    BY <2>2
<1>4. (CHOOSE h : h = Right(h)) = g
  <2>1. \A h : Sums(d, L, h) => h = g
    BY SumsOnce
  <2> HIDE DEF Right
  <2>2. \A h : h = Right(h) <=> h = g
    BY <1>2, <2>1
  <2> QED
    BY <2>2
<1>5. /\ Outages!Counted = (CHOOSE h : h = Left(h))[K]
      /\ Outages!Lasted = (CHOOSE h : h = Right(h))[L]
  BY DEF Outages!Counted, Outages!Lasted, Outages!MapThenSumSet, Outages!MapThenFoldSet,
     FirstDays, Outages!Months
<1> QED
  BY <1>3, <1>4, <1>5

\* Rounding moves a time by half a minute at most.
LEMMA RoundedIs ==
  /\ PerMinute \in Nat /\ PerMinute > 0 /\ Outages!Rounded(0) = 0
  /\ \A x \in Nat : /\ Outages!Rounded(x) \in Nat
                    /\ -PerMinute <= 2 * (PerMinute * Outages!Rounded(x) - x)
                    /\ 2 * (PerMinute * Outages!Rounded(x) - x) <= PerMinute
<1>1. PerMinute \in Nat /\ PerMinute > 0
  BY OfficeAssumption DEF Outages!IncidentConstants
<1>2. Outages!Rounded(0) = 0
  BY <1>1 DEF Outages!Rounded
<1>3. ASSUME NEW x \in Nat
      PROVE  /\ Outages!Rounded(x) \in Nat
             /\ -PerMinute <= 2 * (PerMinute * Outages!Rounded(x) - x)
             /\ 2 * (PerMinute * Outages!Rounded(x) - x) <= PerMinute
  <2>1. PICK d \in Nat, e \in Nat : d = x \div PerMinute /\ e = x % PerMinute
    BY <1>1
  <2>2. x = PerMinute * d + e /\ e < PerMinute
    BY <1>1, <2>1
  <2>3. PICK n \in Nat : n = PerMinute * d
    BY <1>1
  <2>4. PerMinute * (d + 1) = n + PerMinute
    BY <1>1, <2>3
  <2>5. \/ Outages!Rounded(x) = d /\ 2 * e <= PerMinute
        \/ Outages!Rounded(x) = d + 1 /\ 2 * e >= PerMinute
    BY <1>1, <2>1 DEF Outages!Rounded
  <2> QED
    BY <1>1, <2>2, <2>3, <2>4, <2>5
<1> QED
  BY <1>1, <1>2, <1>3

\* Terms that are rounded one by one are off by half a minute each.
LEMMA RoundedSums ==
  ASSUME NEW K, IsFiniteSet(K), NEW a \in [K -> Nat], NEW b \in [K -> Nat], NEW f, NEW g,
         Sums(a, K, f), Sums(b, K, g), \A k \in K : b[k] = Outages!Rounded(a[k])
  PROVE  \A T \in SUBSET K :
           2 * (PerMinute * g[T] - f[T])
             \in -(PerMinute * Cardinality(T))..PerMinute * Cardinality(T)
<1> DEFINE Off(T) == 2 * (PerMinute * g[T] - f[T])
           Near(T) == Off(T) \in -(PerMinute * Cardinality(T))..PerMinute * Cardinality(T)
           Bad == {T \in SUBSET K : ~Near(T)}
<1>p. PerMinute \in Nat
  BY RoundedIs
<1>n. \A T \in SUBSET K : f[T] \in Nat /\ g[T] \in Nat
  <2>1. \A T \in SUBSET K : f[T] \in Nat
    BY SumsAreNat
  <2>2. \A T \in SUBSET K : g[T] \in Nat
    BY SumsAreNat
  <2> QED
    BY <2>1, <2>2
<1>1. SUFFICES ASSUME Bad # {} PROVE FALSE
  OBVIOUS
<1>2. PICK T \in SUBSET K : ~Near(T) /\ \A U \in SUBSET T : U # T => Near(U)
  <2> HIDE DEF Near
  <2>1. Bad \in SUBSET SUBSET K
    OBVIOUS
  <2>2. PICK T \in Bad : \A U \in SUBSET T : U # T => U \notin Bad
    <3> HIDE DEF Bad
    <3> QED
      BY <1>1, <2>1, SmallestSet
  <2> QED
    BY <2>2
<1> HIDE DEF Bad
<1>3. CASE T = {}
  <2>1. f[T] = 0 /\ g[T] = 0 /\ Cardinality(T) = 0
    <3>1. f[T] = 0 /\ g[T] = 0
      BY <1>3 DEF Sums
    <3> QED
      BY <1>3, <3>1, FS_EmptySet
  <2> QED
    BY <1>2, <1>p, <2>1
<1>4. CASE T # {}
  <2>1. PICK x \in T : x = Taken(T) /\ T \ {x} # T
    BY <1>4, TakenIs
  <2>2. PICK U \in SUBSET K : U = T \ {x}
    OBVIOUS
  <2>3. f[T] = a[x] + f[U] /\ g[T] = b[x] + g[U]
    <3>1. f[T] = a[x] + f[U]
      BY <1>4, <2>1, <2>2, SumsAt
    <3>2. g[T] = b[x] + g[U]
      BY <1>4, <2>1, <2>2, SumsAt
    <3> QED
      BY <3>1, <3>2
  <2>4. /\ Cardinality(U) \in Nat /\ Cardinality(T) = Cardinality(U) + 1
        /\ Near(U)
    <3>1. IsFiniteSet(T)
      BY FS_Subset
    <3>2. Cardinality(U) = Cardinality(T) - 1 /\ Cardinality(T) \in Nat
            /\ Cardinality(U) \in Nat
      BY <2>2, <3>1, FS_RemoveElement, FS_CardinalityType
    <3> QED
      BY <1>2, <2>1, <2>2, <3>2
  <2>5. /\ a[x] \in Nat /\ b[x] \in Nat
        /\ -PerMinute <= 2 * (PerMinute * b[x] - a[x])
        /\ 2 * (PerMinute * b[x] - a[x]) <= PerMinute
    BY RoundedIs
  <2>6. PICK n \in Nat, u \in Nat, v \in Nat, w \in Nat, y \in Nat, z \in Nat :
          /\ n = PerMinute * Cardinality(U) /\ u = PerMinute * b[x]
          /\ v = PerMinute * g[U] /\ w = f[U] /\ y = a[x] /\ z = PerMinute
    BY <1>n, <1>p, <2>4, <2>5
  <2>7. /\ PerMinute * Cardinality(T) = n + z
        /\ PerMinute * g[T] = u + v /\ f[T] = y + w
    <3>1. PerMinute * (Cardinality(U) + 1) = n + z
      BY <1>p, <2>4, <2>6
    <3>2. PerMinute * (b[x] + g[U]) = u + v
      BY <1>n, <1>p, <2>5, <2>6
    <3> QED
      BY <2>3, <2>4, <2>6, <3>1, <3>2
  <2>8. 2 * (v - w) \in -n..n /\ -z <= 2 * (u - y) /\ 2 * (u - y) <= z
    BY <2>4, <2>5, <2>6
  <2>9. 2 * ((u + v) - (y + w)) \in -(n + z)..(n + z)
    BY <2>8
  <2>10. Near(T)
    BY <2>7, <2>9
  <2> QED
    BY <1>2, <2>10
<1> QED
  BY <1>3, <1>4

\* What all months spent is what one incident did and what the others did; told, each month
\* is rounded.
LEMMA MonthsAreOnce == OutageInv /\ SpanInv => Outages!MonthsAddUp
<1> SUFFICES ASSUME OutageInv, SpanInv PROVE Outages!MonthsAddUp
  OBVIOUS
<1> DEFINE Rows_ == Outages!Rows
           M == FirstDays
<1>r. IsFiniteSet(Rows_) /\ IsFiniteSet(M) /\ Month \in Nat /\ Month > 0
  BY RowsFinite, FirstDaysAre
<1>1. PICK minutes \in [M -> [Rows_ -> Nat]] :
        \A m \in M : \A i \in Rows_ : minutes[m][i] = Outages!InMonth(i, m)
  <2>1. ASSUME NEW m \in M, NEW i \in Rows_ PROVE Outages!InMonth(i, m) \in Nat
    <3>1. incRows[i].from \in Nat /\ Outages!Until(i) \in Nat /\ m \in Nat /\ Month \in Nat
      BY <1>r, SpanIs, FirstDaysAre
    <3> QED
      BY <3>1 DEF Outages!InMonth, Outages!Most, Outages!Least
  <2>2. PICK f : f = [m \in M |-> [i \in Rows_ |-> Outages!InMonth(i, m)]]
    OBVIOUS
  <2>3. f \in [M -> [Rows_ -> Nat]]
    BY <2>1, <2>2
  <2> QED
    BY <2>2, <2>3
<1>2. PICK sum : \A m \in M : Sums(minutes[m], Rows_, sum[m])
  <2>1. \A m \in M : \E f : Sums(minutes[m], Rows_, f)
    BY <1>r, SumsExist
  <2>2. PICK s : s = [m \in M |-> CHOOSE f : Sums(minutes[m], Rows_, f)]
    OBVIOUS
  <2> QED
    BY <2>1, <2>2
<1>3. ASSUME NEW m \in M PROVE \A T \in SUBSET Rows_ : sum[m][T] \in Nat
  <2>1. minutes[m] \in [Rows_ -> Nat] /\ Sums(minutes[m], Rows_, sum[m])
    BY <1>1, <1>2
  <2> QED
    BY <1>r, <2>1, SumsAreNat
<1>4. ASSUME NEW m \in M PROVE Outages!Spent(m) = sum[m][Rows_]
  <2>1. minutes[m] \in [Rows_ -> Nat] /\ Sums(minutes[m], Rows_, sum[m])
    BY <1>1, <1>2
  <2>2. PICK K \in SUBSET Rows_ : K = {i \in Rows_ : incRows[i].from < m + Month}
    OBVIOUS
  <2>3. IsFiniteSet(K)
    BY <1>r, FS_Subset
  <2>4. \A i \in Rows_ \ K : minutes[m][i] = 0
    <3> SUFFICES ASSUME NEW i \in Rows_, ~(incRows[i].from < m + Month)
                 PROVE  Outages!InMonth(i, m) = 0
      BY <1>1, <2>2
    <3>1. incRows[i].from \in Nat /\ Outages!Until(i) \in Nat /\ m \in Nat /\ Month \in Nat
      BY <1>r, SpanIs, FirstDaysAre
    <3> QED
      BY <3>1 DEF Outages!InMonth, Outages!Most, Outages!Least
  <2>5. sum[m][Rows_] = sum[m][K]
    BY <1>r, <2>1, <2>4, SumsWithout
  <2>6. PICK g : g = [T \in SUBSET K |-> sum[m][T]]
    OBVIOUS
  <2>7. Sums(minutes[m], K, g) /\ g[K] = sum[m][K]
    BY <2>1, <2>6, SumsOfPart
  <2>8. Outages!Spent(m) = g[K]
    <3>1. \A i \in K : minutes[m][i] = Outages!InMonth(i, m)
      BY <1>1
    <3> QED
      BY <2>2, <2>3, <2>7, <3>1, SpentIs
  <2> QED
    BY <2>5, <2>7, <2>8
<1>5. PICK span \in [Rows_ -> Nat] : \A i \in Rows_ : span[i] = Span(i)
  <2>1. [i \in Rows_ |-> Span(i)] \in [Rows_ -> Nat]
    BY SpanIs
  <2> QED
    BY <2>1
<1>6. PICK spans : Sums(span, Rows_, spans)
  BY <1>r, SumsExist
<1>7. \A T \in SUBSET Rows_ : spans[T] \in Nat
  BY <1>6, <1>r, SumsAreNat
\* Over the months, what they count of the incidents of T
<1> DEFINE Each(T) == [m \in M |-> sum[m][T]]
           Right(T) == \A f : Sums(Each(T), M, f) => f[M] = spans[T]
<1>8. ASSUME NEW T \in SUBSET Rows_ PROVE Each(T) \in [M -> Nat]
  BY <1>3
<1>9. ASSUME NEW T \in SUBSET Rows_, \A U \in SUBSET T : U # T => Right(U)
      PROVE  Right(T)
  <2> SUFFICES ASSUME NEW f, Sums(Each(T), M, f) PROVE f[M] = spans[T]
    OBVIOUS
  <2>f. f[M] \in Nat /\ spans[T] \in Nat
    <3>1. Each(T) \in [M -> Nat]
      BY <1>8
    <3> HIDE DEF Each
    <3>2. \A L \in SUBSET M : f[L] \in Nat
      BY <1>r, <3>1, SumsAreNat
    <3> QED
      BY <1>7, <3>2
  <2>1. CASE T = {}
    <3>1. ASSUME NEW m \in M PROVE Each(T)[m] = 0
      <4>1. Sums(minutes[m], Rows_, sum[m])
        BY <1>2
      <4>2. sum[m][T] = 0
        BY <2>1, <4>1 DEF Sums
      <4> QED
        BY <4>2
    <3>2. spans[T] = 0
      BY <1>6, <2>1, SumsAt
    <3>3. f[{}] = 0
      BY DEF Sums
    <3>4. f[M] = f[{}]
      <4>1. Each(T) \in [M -> Nat] /\ {} \in SUBSET M /\ \A m \in M \ {} : Each(T)[m] = 0
        BY <1>8, <3>1
      <4> HIDE DEF Each
      <4> QED
        BY <1>r, <4>1, SumsWithout
    <3> QED
      BY <3>2, <3>3, <3>4
  <2>2. CASE T # {}
    <3>1. PICK x \in T : x = Taken(T) /\ T \ {x} # T
      BY <2>2, TakenIs
    <3>2. PICK U \in SUBSET T : U = T \ {x} /\ U # T
      <4>1. T \ {x} \in SUBSET T
        OBVIOUS
      <4> QED
        BY <3>1, <4>1
    <3>3. U \in SUBSET Rows_ /\ x \in Rows_ /\ Right(U)
      BY <1>9, <3>2
    <3>4. PICK one \in [M -> Nat] : \A m \in M : one[m] = minutes[m][x]
      <4>1. [m \in M |-> minutes[m][x]] \in [M -> Nat]
        BY <1>1, <3>3
      <4> QED
        BY <4>1
    <3>5. \A m \in M : Each(T)[m] = one[m] + Each(U)[m]
      <4> SUFFICES ASSUME NEW m \in M PROVE sum[m][T] = one[m] + sum[m][U]
        OBVIOUS
      <4>1. Sums(minutes[m], Rows_, sum[m])
        BY <1>2
      <4>2. sum[m][T] = minutes[m][x] + sum[m][U]
        BY <2>2, <3>1, <3>2, <4>1 DEF Sums
      <4> QED
        BY <3>4, <4>2
    <3>6. spans[T] = span[x] + spans[U]
      BY <1>6, <2>2, <3>1, <3>2, SumsAt
    <3>7. PICK g : Sums(one, M, g)
      BY <1>r, SumsExist
    <3>8. PICK h : Sums(Each(U), M, h)
      <4> HIDE DEF Each
      <4> QED
        BY <1>r, SumsExist
    <3>9. f[M] = g[M] + h[M]
      <4>1. Each(T) \in [M -> Nat] /\ Each(U) \in [M -> Nat]
        BY <1>8, <3>3
      <4> HIDE DEF Each
      <4> QED
        BY <1>r, <3>5, <3>7, <3>8, <4>1, SumsTogether
    <3>10. g[M] = Span(x)
      <4>1. \A m \in M : one[m] = Outages!InMonth(x, m)
        BY <1>1, <3>3, <3>4
      <4> QED
        BY <3>3, <3>7, <4>1, MonthsOfOne
    <3>11. h[M] = spans[U]
      BY <3>3, <3>8
    <3> QED
      BY <1>5, <3>3, <3>6, <3>9, <3>10, <3>11
  <2> QED
    BY <2>1, <2>2
<1>10. Right(Rows_)
  <2> DEFINE Bad == {T \in SUBSET Rows_ : ~Right(T)}
  <2> HIDE DEF Right, Each
  <2> SUFFICES ASSUME Bad # {} PROVE FALSE
    OBVIOUS
  <2>1. Bad \in SUBSET SUBSET Rows_
    OBVIOUS
  <2>2. PICK T \in Bad : \A U \in SUBSET T : U # T => U \notin Bad
    <3> HIDE DEF Bad
    <3> QED
      BY <1>r, <2>1, SmallestSet
  <2>3. T \in SUBSET Rows_ /\ ~Right(T) /\ \A U \in SUBSET T : U # T => Right(U)
    BY <2>2
  <2> HIDE DEF Bad
  <2> QED
    BY <1>9, <2>3
<1>11. PICK b \in [M -> Nat] : b = Each(Rows_) /\ \A m \in M : b[m] = Outages!Spent(m)
  <2>1. \A m \in M : Each(Rows_)[m] = Outages!Spent(m)
    BY <1>4
  <2>2. Each(Rows_) \in [M -> Nat]
    BY <1>8
  <2> HIDE DEF Each
  <2> QED
    BY <2>1, <2>2
<1>12. PICK f : Sums(b, M, f)
  BY <1>r, SumsExist
<1>13. f[M] = spans[Rows_]
  BY <1>10, <1>11, <1>12
<1> HIDE DEF Each, Right
\* What is told of each month, and of them together
<1>14. PICK told \in [M -> Nat] : \A m \in M : told[m] = Outages!Minutes(m)
  <2>1. \A m \in M : Outages!Minutes(m) \in Nat
    BY <1>11, RoundedIs DEF Outages!Minutes
  <2>2. PICK t : t = [m \in M |-> Outages!Minutes(m)]
    OBVIOUS
  <2> QED
    BY <2>1, <2>2
<1>15. PICK g : Sums(told, M, g)
  BY <1>r, SumsExist
<1>16. Outages!Counted = g[M] /\ Outages!Lasted = f[M]
  BY <1>5, <1>6, <1>13, <1>14, <1>15, <1>r, TotalsAre
<1>17. PICK Hit \in SUBSET M : Hit = {m \in Outages!Months : Outages!Spent(m) > 0}
  BY DEF Outages!Months, FirstDays
<1>18. f[M] = f[Hit] /\ g[M] = g[Hit]
  <2>1. \A m \in M \ Hit : b[m] = 0
    BY <1>11, <1>17 DEF Outages!Months, FirstDays
  <2>2. \A m \in M \ Hit : told[m] = 0
    BY <1>11, <1>14, <2>1, RoundedIs DEF Outages!Minutes
  <2>3. f[M] = f[Hit]
    <3>1. b \in [M -> Nat] /\ Sums(b, M, f) /\ Hit \in SUBSET M /\ IsFiniteSet(M)
      BY <1>r, <1>11, <1>12
    <3> HIDE DEF M
    <3> QED
      BY <2>1, <3>1, SumsWithout
  <2>4. g[M] = g[Hit]
    BY <1>r, <1>15, <2>2, SumsWithout
  <2> QED
    BY <2>3, <2>4
<1>19. 2 * (PerMinute * g[Hit] - f[Hit])
         \in -(PerMinute * Cardinality(Hit))..PerMinute * Cardinality(Hit)
  <2>1. \A m \in M : told[m] = Outages!Rounded(b[m])
    BY <1>11, <1>14 DEF Outages!Minutes
  <2> QED
    BY <1>r, <1>12, <1>15, <2>1, RoundedSums
<1> QED
  BY <1>16, <1>17, <1>18, <1>19, SameCounts DEF Outages!MonthsAddUp

---------------------------------------------------------------------------------
(* The theorems: first the register's                                            *)

LEMMA OfficeStarts ==
  OfficeInit =>
    /\ Init /\ Login!Init /\ Attempts!Init /\ RightsInit /\ Library!Init /\ Audit!Init
    /\ Outages!Init
BY DEF OfficeInit

LEMMA OfficeSteps ==
  [OfficeNext]_<<people, written, part>> =>
    /\ [Next]_vars /\ [Login!Next]_Login!vars /\ [Attempts!Next]_Attempts!vars
    /\ [Rights!Next]_Rights!vars /\ [Library!Next]_Library!vars /\ [Audit!Next]_Audit!vars
    /\ [Outages!Next]_Outages!vars
<1>1. UNCHANGED people =>
        /\ UNCHANGED vars /\ UNCHANGED Login!vars /\ UNCHANGED Attempts!vars
        /\ UNCHANGED Rights!vars
  BY DEF people, register, accounts, attempts, rights, Login!vars, Attempts!vars, Rights!vars
<1>2. UNCHANGED written =>
        UNCHANGED Library!vars /\ UNCHANGED Audit!vars /\ UNCHANGED Outages!vars
  BY DEF written, index, chain, outages, Library!vars, Audit!vars, Outages!vars
<1>3. ASSUME \/ Next /\ UNCHANGED <<accounts, attempts, rights>>
             \/ Login!Next /\ UNCHANGED <<register, attempts, rights>>
             \/ Attempts!Next /\ UNCHANGED <<register, accounts, rights>>
             \/ Rights!Next /\ UNCHANGED <<register, accounts, attempts>>
      PROVE  /\ [Next]_vars /\ [Login!Next]_Login!vars /\ [Attempts!Next]_Attempts!vars
             /\ [Rights!Next]_Rights!vars
  BY <1>3 DEF register, accounts, attempts, rights, Login!vars, Attempts!vars, Rights!vars
<1>4. ASSUME \/ Library!Next /\ UNCHANGED <<chain, outages>>
             \/ Audit!Next /\ UNCHANGED <<index, outages>>
             \/ Outages!Next /\ UNCHANGED <<index, chain>>
      PROVE  /\ [Library!Next]_Library!vars /\ [Audit!Next]_Audit!vars
             /\ [Outages!Next]_Outages!vars
  BY <1>4 DEF index, chain, outages, Library!vars, Audit!vars, Outages!vars
<1>5. ASSUME OfficeNext PROVE
        \/ /\ UNCHANGED written
           /\ \/ Next /\ UNCHANGED <<accounts, attempts, rights>>
              \/ Login!Next /\ UNCHANGED <<register, attempts, rights>>
              \/ Attempts!Next /\ UNCHANGED <<register, accounts, rights>>
              \/ Rights!Next /\ UNCHANGED <<register, accounts, attempts>>
        \/ /\ UNCHANGED people
           /\ \/ Library!Next /\ UNCHANGED <<chain, outages>>
              \/ Audit!Next /\ UNCHANGED <<index, outages>>
              \/ Outages!Next /\ UNCHANGED <<index, chain>>
  BY <1>5 DEF OfficeNext
<1>6. UNCHANGED <<people, written, part>> => UNCHANGED people /\ UNCHANGED written
  OBVIOUS
<1> QED
  BY <1>1, <1>2, <1>3, <1>4, <1>5, <1>6

LEMMA RegisterHolds == OfficeSpec => []IInv
<1>1. IInv /\ [Next]_vars => IInv'
  BY TypedStep, RefersStep, QuotaStep, WidestStep, RoomsStep, AloneStep, InOneClassStep,
     NumberedStep DEF IInv
<1> QED
  BY <1>1, InitHolds, OfficeStarts, OfficeSteps, PTL DEF OfficeSpec

\* Every reachable state of students, classes, enrolments, cards and sequences is well
\* typed, and whoever is in a class exists.
THEOREM TypeCorrect == OfficeSpec => []TypeOK
<1>1. IInv => TypeOK
  BY DEF IInv, Typed
<1> QED
  BY <1>1, RegisterHolds, PTL

\* For any number of requests that cross, schools, students and classes: the students of a
\* school exceed its subscription, and those of a class that enrols online its largest
\* capacity, by fewer than the requests at once; and if requests do not cross a student is
\* in one class (enforce_subscription_capacity, create_student, create_enrollment,
\* transfer_enrollment, change_student_status).
THEOREM LimitsHold == OfficeSpec => []Limits
<1>1. IInv => QuotaHolds
  <2>1. ASSUME IInv, NEW h \in Schools
        PROVE  Cardinality(ActiveStudents(h)) <= Limit[uses] + Excess
    <3>1. ActiveStudents(h) \in SUBSET Students /\ Claimants(h) \in SUBSET Requests
      BY <2>1 DEF ActiveStudents, Of, Exist, Claimants, IInv, Typed, TypeOK
    <3>2. /\ Cardinality(ActiveStudents(h)) \in Nat /\ Cardinality(Claimants(h)) \in Nat
          /\ Limit[uses] \in Nat /\ Excess \in Int
      <4>1. Limit[uses] \in Nat /\ IsFiniteSet(Requests) /\ IsFiniteSet(Students)
        BY <2>1, RegistryAssumption DEF IInv, Typed, TypeOK
      <4> QED
        BY <3>1, <4>1, FS_Subset, FS_CardinalityType DEF Excess
    <3>3. Cardinality(ActiveStudents(h)) + Cardinality(Claimants(h)) <= Limit[uses] + Excess
      BY <2>1 DEF IInv, QuotaClaimed
    <3> QED
      BY <3>2, <3>3
  <2> QED
    BY <2>1 DEF QuotaHolds
<1>2. IInv => ClassHolds
  <2>1. ASSUME IInv, "offline" \notin uses, NEW c \in Classes
        PROVE  Cardinality(In(c)) <= widest[c] + Excess
    <3>1. In(c) \in SUBSET Students /\ Entrants(c) \in SUBSET Requests
      BY DEF In, Entrants
    <3>2. /\ Cardinality(In(c)) \in Nat /\ Cardinality(Entrants(c)) \in Nat
          /\ widest[c] \in Nat /\ Excess \in Int
      <4>1. widest[c] \in Nat /\ IsFiniteSet(Requests) /\ IsFiniteSet(Students)
        BY <2>1, RegistryAssumption DEF IInv, Typed, TypeOK
      <4> QED
        BY <3>1, <4>1, FS_Subset, FS_CardinalityType DEF Excess
    <3>3. Cardinality(In(c)) + Cardinality(Entrants(c)) <= widest[c] + Excess
      BY <2>1 DEF IInv, RoomsClaimed
    <3> QED
      BY <3>2, <3>3
  <2> QED
    BY <2>1 DEF ClassHolds
<1>3. IInv => OneClass
  <2>1. ASSUME IInv, ~overlapped, NEW s \in Students PROVE Cardinality(ClassesOf(s)) <= 1
    <3>1. AtMostOne(ClassesOf(s))
      BY <2>1 DEF IInv, InOneClass
    <3>2. CASE ClassesOf(s) = {}
      BY <3>2, FS_EmptySet
    <3>3. CASE ClassesOf(s) # {}
      <4>1. PICK c : c \in ClassesOf(s)
        BY <3>3
      <4>2. ClassesOf(s) = {c}
        BY <3>1, <4>1 DEF AtMostOne
      <4>3. Cardinality({c}) = 1
        BY FS_Singleton
      <4> QED
        BY <4>2, <4>3
    <3> QED
      BY <3>2, <3>3
  <2> QED
    BY <2>1 DEF OneClass
<1>4. IInv => Limits
  BY <1>1, <1>2, <1>3 DEF Limits
<1> QED
  BY <1>4, RegisterHolds, PTL

\* However many calls cross, the number that next_matricule gave is refused by the index
\* only if someone typed it: a request holds its school's row from there to its commit,
\* and no generated number is beyond the sequence.
THEOREM NumbersFree == OfficeSpec => []GeneratedIsFree
<1>1. IInv => GeneratedIsFree
  <2>1. ASSUME IInv, NEW r \in Requests, work[r].op = "insert", "school" \in DOMAIN work[r],
               NEW s \in Exist(student), Home[s] = work[r].school,
               student[s].mat = work[r].mat
        PROVE  student[s].typed
    <3>1. work[r].mat > seq[work[r].school] /\ work[r].mat \in Nat
          /\ seq[work[r].school] \in Nat
      BY <2>1, Kinds DEF IInv, Numbered, Ahead, Typed, TypeOK, Numbering, Issuing
    <3> QED
      BY <2>1, <3>1 DEF IInv, Numbered, Generated
  <2> QED
    BY <2>1 DEF GeneratedIsFree, Ready, Of
<1> QED
  BY <1>1, RegisterHolds, PTL

\* However many calls cross, a card that was struck off is valid again only by a change of
\* status that had found it so (update_card_lifecycle, revoke_card, issue_card): new cards
\* are new rows, and a commit writes only what it changed.
THEOREM NeverByAccident == OfficeSpec => RevivedKnowingly
<1>1. IInv /\ [Next]_vars =>
        [\A k \in Exist(card) : card[k].live' /\ ~card[k].live =>
           \E r \in Requests : Ready(r, "card") /\ work[r].card = k /\ ~work[r].old.live]_vars
  <2> SUFFICES ASSUME IInv, [Next]_vars, NEW k \in Exist(card), card'[k].live, ~card[k].live
               PROVE  \E r \in Requests :
                        Ready(r, "card") /\ work[r].card = k /\ ~work[r].old.live
    OBVIOUS
  <2>1. k \in Cards /\ card[k] \in Badges /\ card'[k] # card[k]
    BY DEF Exist, IInv, Typed, TypeOK
  <2>2. PICK r \in Requests : Read(r) \/ Write(r) \/ Abort(r)
    BY <2>1 DEF Next, vars, rows
  <2>3. CASE MoveCardCommit(r)
    <3>1. work[r] \in Striking
      BY <2>3, Kinds DEF IInv, Typed, MoveCardCommit, Ready
    <3>2. /\ card' = [card EXCEPT ![work[r].card] = Merged(@, work[r].old, work[r].new)]
          /\ Ready(r, "card")
      BY <2>3 DEF MoveCardCommit
    <3>3. work[r].card = k
      BY <2>1, <3>2 DEF IInv, Typed, TypeOK
    <3>4. card'[k] = Merged(card[k], work[r].old, work[r].new)
      BY <2>1, <3>2, <3>3 DEF IInv, Typed, TypeOK
    <3>5. card'[k].live = IF work[r].new.live # work[r].old.live THEN work[r].new.live
                          ELSE card[k].live
      BY <2>1, <3>1, <3>4 DEF Merged, Badges, Striking
    <3>6. ~work[r].old.live
      BY <3>5
    <3> QED
      BY <3>2, <3>3, <3>6
  <2>4. CASE IssueCommit(r)
    BY <2>1, <2>4 DEF IssueCommit
  <2>5. CASE ~MoveCardCommit(r) /\ ~IssueCommit(r)
    <3>1. (\E x : Begin(r, x)) \/ (\E x : Continue(r, x)) => card' = card
      BY DEF Begin, Continue, rows
    <3>2. card' = card
      BY <2>2, <2>5, <3>1, ReadIs, NumberIs, IssueIs
         DEF IInv, Write, CreateCommit, StatusCommit, EnrolCommit, ClassCommit, LevelCommit,
             Abort, rows
    <3> QED
      BY <2>1, <3>2
  <2> QED
    BY <2>3, <2>4, <2>5
<1> QED
  BY <1>1, RegisterHolds, OfficeSteps, PTL DEF OfficeSpec, RevivedKnowingly

---------------------------------------------------------------------------------
(* and of the parts beside it                                                    *)

LEMMA LoginAlways == OfficeSpec => []LoginInv
BY OfficeStarts, OfficeSteps, LoginInit, LoginStep, PTL DEF OfficeSpec

\* However requests of an account follow and cross: unless one went on with what was changed
\* under it, the sessions that are good were opened with its password (get_current_user's
\* check of the version, change_password, admin_reset_password, reset_password), and unless
\* two requests for a reset met in their transactions one token is live (forgot_password).
\* And however threads interleave in the limiter, any number of callers, attempts and
\* evictions: what passes in a window is the limit, and for a caller that a thread came
\* late to the limit and the requests beside one (InMemoryRateLimiter.allow).
THEOREM SessionsKept == OfficeSpec => []SessionsHold
<1>1. AttemptsInv /\ [Attempts!Next]_Attempts!vars => AttemptsInv'
  BY AttemptsStep, AttemptsStay
<1>2. OfficeSpec => []AttemptsInv
  BY <1>1, OfficeStarts, OfficeSteps, AttemptsInit, PTL DEF OfficeSpec
<1>3. LoginInv /\ AttemptsInv => SessionsHold
  BY LoginHolds, AttemptsHold DEF SessionsHold
<1> QED
  BY <1>2, <1>3, LoginAlways, PTL

\* A session that has ended is not good again, for any passwords, logouts and resets in any
\* order, unless a request wrote over what was changed under it: the version only grows.
THEOREM EndedStayEnded == OfficeSpec => EndedForGood
<1>1. LoginInv /\ [Login!Next]_Login!vars =>
        [~stale' => \A s \in sessions : ~Login!Valid(s) => ~Login!Valid(s)']_Login!vars
  BY EndedStay
<1> QED
  BY <1>1, LoginAlways, OfficeSteps, PTL DEF OfficeSpec, EndedForGood, Login!EndedForGood

\* For any users, posts, profiles and permissions, and any requests between whose checks
\* and commits others commit: no permission is on a post or delegated that the centre or the
\* onboarding has not given to the school, nor wider (user_can_grant_permission); and of a
\* title without crossing requests the assistant answers from one version that was
\* published, and from those that came since (ingest_document, set_active).
THEOREM GivenOnly == OfficeSpec => []NothingWidens
<1>1. RightsInit => RightsInv
  <2> SUFFICES ASSUME RightsInit PROVE RightsInv
    OBVIOUS
  <2>1. PICK b \in Beginnings : links = b.links
            /\ introduced = {<<l[2], l[3]>> : l \in b.links}
    BY DEF RightsInit
  <2>2. \A l \in links : <<l[2], l[3]>> \in introduced
    BY <2>1
  <2>3. Rights!NothingWidens
    BY <2>2 DEF RightsInit, Rights!NothingWidens
  <2> QED
    BY <2>3, RightsBegin DEF RightsInit
<1>2. OfficeSpec => []RightsInv
  BY <1>1, OfficeStarts, OfficeSteps, RightsStep, PTL DEF OfficeSpec
<1>3. OfficeSpec => []LibraryInv
  BY OfficeStarts, OfficeSteps, LibraryInit, LibraryStep, PTL DEF OfficeSpec
<1>4. RightsInv /\ LibraryInv => NothingWidens
  BY RightsHold DEF NothingWidens, LibraryInv
<1> QED
  BY <1>2, <1>3, <1>4, PTL

\* For any writers, schools, lines and number of lines verified: a chain that nobody touched
\* is found valid unless two writers were at work in its school, and a line that was changed
\* or taken out among those that are verified is found (audit_integrity.verify_chain).
LEMMA LinesTell ==
  OfficeSpec => [](part = "audit" => Audit!UntouchedIsValid /\ Audit!TouchingShows)
<1>1. ChainInv /\ [Audit!Next]_Audit!vars => ChainInv'
  BY ChainStep, ChainStays
<1>2. OfficeSpec => []ChainInv
  BY <1>1, OfficeStarts, OfficeSteps, ChainInit, PTL DEF OfficeSpec
<1>3. ChainInv => (part = "audit" => Audit!UntouchedIsValid /\ Audit!TouchingShows)
  BY ChainTells
<1> QED
  BY <1>2, <1>3, PTL

\* For any alerts, crossing reconciliations, restarts, limits and lengths of months: the log
\* and the incidents tell what happened.  Within the cooldown a process opens no more
\* incidents of a code than the limit and the requests beside one (_last_actions), and the
\* months together count each incident for as long as it lasted, but for half a minute at
\* most in each month that had any (_incident_minutes).
THEOREM OutagesHold == OfficeSpec => []AuditTells
<1> DEFINE Inv == OutageInv /\ BreakInv /\ SpanInv
<1>1. Inv /\ [Outages!Next]_Outages!vars => Inv'
  <2> SUFFICES ASSUME OutageInv, BreakInv, SpanInv, [Outages!Next]_Outages!vars PROVE Inv'
    OBVIOUS
  <2>1. OutageInv'
    BY OutageStep, OutageStays
  <2>2. BreakInv'
    BY <2>1, BreakStep, BreakStays
  <2>3. SpanInv'
    BY <2>1, SpanStep, SpanStays
  <2> QED
    BY <2>1, <2>2, <2>3
<1>2. Outages!Init => Inv
  BY OutageInit, BreakInit, SpanInit
<1>3. Inv => (part = "incidents" =>
                Outages!Deduplicated /\ Outages!BreakerHolds /\ Outages!MonthsAddUp)
  BY OneForEach, NotWithoutEnd, MonthsAreOnce
<1> HIDE DEF Inv
<1>4. OfficeSpec => []Inv
  BY <1>1, <1>2, OfficeStarts, OfficeSteps, PTL DEF OfficeSpec
<1>5. OfficeSpec => [](part = "audit" => Audit!UntouchedIsValid /\ Audit!TouchingShows)
  BY LinesTell
<1>6. /\ part = "audit" => Audit!UntouchedIsValid /\ Audit!TouchingShows
      /\ part = "incidents" =>
           Outages!Deduplicated /\ Outages!BreakerHolds /\ Outages!MonthsAddUp
      => AuditTells
  BY DEF AuditTells
<1> QED
  BY <1>3, <1>4, <1>5, <1>6, PTL
=================================================================================
