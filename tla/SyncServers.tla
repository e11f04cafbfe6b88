------------------------------- MODULE SyncServers -------------------------------
(* The synchronisation server of a school: SyncServer on the one database that it runs *)
(* on, PostgreSQL or SQLite, OfflineCreation for what creations make, and Devices for  *)
(* who may use a station.  They share nothing here: a behaviour is one of one of them. *)
(* Theorems about the last two, for every value of the constants, follow.              *)
EXTENDS SyncServer, TLAPS

CONSTANTS
  LiteOps, LiteWorkers, LiteEntity, LiteKind, LiteRef, \* SyncServer's, on SQLite,
  LiteVersioned, LiteSilent,                           \* with its online editors
  Calls,                                               \* requests
  Records, Type, ClientId, Content, StudentRef, GuardianRef, IntOf,
  Unphoned, ClassOf,
  MaxStudents, MaxStarts,                              \* OfflineCreation's
  Users, Stations, Pushed, Nobody, Absent              \* Devices'

VARIABLES part
VARIABLES liteStatus, liteBase, liteOpVersion, liteVer, liteKnown, liteLog, liteWork
VARIABLES rows, identity, newStatus, newBase, closed, crossed, starts, creating
VARIABLES admins, owner, synced, pushed, disputed, used, registering

Lite == INSTANCE SyncServerProofs WITH
  Ops <- LiteOps, Workers <- LiteWorkers,
  OpEntity <- LiteEntity, OpKind <- LiteKind, OpRef <- LiteRef,
  VersionedEdits <- LiteVersioned, SilentEdits <- LiteSilent, RowLocks <- FALSE,
  status <- liteStatus, base <- liteBase, opVersion <- liteOpVersion, ver <- liteVer,
  known <- liteKnown, log <- liteLog, work <- liteWork
Off == INSTANCE OfflineCreation WITH
  Requests <- Calls, Ops <- Records, status <- newStatus, base <- newBase, work <- creating
Dev == INSTANCE Devices WITH
  Requests <- Calls, Ops <- Pushed, status <- synced, op <- pushed, conflict <- disputed

ASSUME ServersAssumption ==
  Lite!SyncAssumption /\ Off!OfflineConstants /\ Dev!DevicesConstants

lite == <<liteStatus, liteBase, liteOpVersion, liteVer, liteKnown, liteLog, liteWork>>
offline == <<rows, identity, newStatus, newBase, closed, crossed, starts, creating>>
accounts == <<admins, owner, synced, pushed, disputed, used, registering>>

ServersInit ==
  /\ Init /\ Lite!Init /\ Off!Init /\ Dev!Init
  /\ part \in {"postgresql", "sqlite", "offline", "accounts"}
  /\ part # "accounts" => admins = {} /\ owner = [d \in Stations |-> Absent]
ServersNext ==
  /\ part' = part
  /\ \/ part = "postgresql" /\ Next /\ UNCHANGED <<lite, offline, accounts>>
     \/ part = "sqlite" /\ Lite!Next /\ UNCHANGED <<vars, offline, accounts>>
     \/ part = "offline" /\ Off!Next /\ UNCHANGED <<vars, lite, accounts>>
     \/ part = "accounts" /\ Dev!Next /\ UNCHANGED <<vars, lite, offline>>
Servers == ServersInit /\ [][ServersNext]_<<vars, lite, offline, accounts, part>>

---------------------------------------------------------------------------------
(* Properties                                                                    *)

\* On SQLite too the journal tells the truth about the data, and a settled status is final,
\* though FOR UPDATE locks nothing there and the online editors write beside the journal.
LiteIsRight == []Lite!JournalMatchesWrites /\ Lite!SettledIsFinal

\* A record that stations name is one record, with the identity that they gave it, and two
\* of the same person, but of guardians without a phone, exist only where their creations
\* crossed (OfflineCreation).
NamedOnce == part = "offline" => Off!NamedOnce /\ Off!TwinsOnlyWhenCrossed

\* What depends on a student hangs on the one that the station meant, and who was marked
\* was in the class (OfflineCreation).
HangsOnTheNamed ==
  part = "offline" => Off!HangsOnTheNamed /\ Off!MarkedWereEnrolled

\* However registrations cross, a station does not pass from one account to another
\* (Devices).
OneAccount == part = "accounts" => Dev!OneAccount

----------------------------------------------------------------------------------
(* The inductive invariant                                                        *)

Verdicts == {"make", "known", "conflict", "refuse"}
Row == [type : Off!Types, student : Nat, guardian : Nat, content : {Content[o] : o \in Records},
        open : BOOLEAN, version : Nat, by : Records]
Plan == [op : Records, known : Nat, row : Row, verdict : Verdicts]
NameOf(o) == <<Type[o], ClientId[o]>>

\* A reference stands for the row of its number, or for the one that the identities know.
Stands(t, n, i) ==
  /\ i \in Off!RowsOf(t)
  /\ IF IntOf[n] # 0 THEN i = IntOf[n]
     ELSE <<t, n>> \in Off!Names /\ identity[<<t, n>>] = i
Refers(row) ==
  /\ row.type = Type[row.by]
  /\ Off!NeedsStudent(row.type) => Stands("student", StudentRef[row.by], row.student)
  /\ row.type = "student_guardian" => Stands("guardian", GuardianRef[row.by], row.guardian)
WasEnrolled(row) ==
  row.type \in Off!Marks =>
    \E j \in DOMAIN rows : /\ rows[j].type = "class_membership"
                           /\ rows[j].student = row.student
                           /\ rows[j].content = ClassOf[row.content]
WellMade(row) == Refers(row) /\ WasEnrolled(row)

\* A row and its identity point at each other: both are written by one commit.
RowsNamed ==
  /\ rows \in Seq(Row)
  /\ \A i \in DOMAIN rows : identity[NameOf(rows[i].by)] = i /\ WellMade(rows[i])
NamesStand == \A n \in Off!Names : identity[n] # 0 => NameOf(rows[identity[n]].by) = n

\* What a request has read still holds: identities do not change, rows are not removed.
PlansSound ==
  /\ creating \in [Calls -> Plan \cup {Off!Idle}]
  /\ \A r \in Calls : creating[r].op # "none" =>
       /\ creating[r].known <= Len(rows)
       /\ creating[r].verdict = "known" => creating[r].known # 0
       /\ creating[r].row.by = creating[r].op
       /\ creating[r].verdict = "make" => WellMade(creating[r].row)

\* The rules do not see the rival: what two requests make at once, or one beside a row that
\* another has made since, is marked.
RivalsMarked ==
  \A r \in Off!Making :
    /\ \A i \in DOMAIN rows :
         rows[i].open /\ Off!Compared(rows[i]) /\ Off!Scope(rows[i]) = Off!Scope(creating[r].row) =>
           Off!Scope(rows[i]) \in crossed
    /\ \A q \in Off!Making \ {r} :
         Off!Scope(creating[q].row) = Off!Scope(creating[r].row) =>
           Off!Scope(creating[r].row) \in crossed

OfflineInv ==
  /\ Off!TypeOK /\ RowsNamed /\ NamesStand /\ PlansSound
  /\ RivalsMarked /\ Off!TwinsOnlyWhenCrossed

LEMMA Facts ==
  ASSUME OfflineInv
  PROVE  /\ Len(rows) \in Nat /\ DOMAIN rows = 1..Len(rows)
         /\ \A i \in DOMAIN rows : rows[i] \in Row /\ i \in Nat
         /\ \A n \in Off!Names : /\ identity[n] \in 0..Len(rows)
                                 /\ identity[n] # 0 => identity[n] \in DOMAIN rows
         /\ \A r \in Calls : creating[r].op # "none" => creating[r] \in Plan
  BY DEF OfflineInv, Off!TypeOK, RowsNamed, PlansSound, Off!Idle

LEMMA OfflineInit == Off!OfflineConstants /\ Off!Init => OfflineInv
<1> SUFFICES ASSUME Off!OfflineConstants, Off!Init PROVE OfflineInv
  OBVIOUS
<1>1. Len(rows) = 0 /\ DOMAIN rows = {} /\ rows \in Seq(Row)
  BY DEF Off!Init
<1>2. Off!TypeOK
  BY <1>1 DEF Off!Init, Off!TypeOK, Off!OfflineConstants
<1>3. RowsNamed /\ NamesStand /\ PlansSound /\ RivalsMarked /\ Off!TwinsOnlyWhenCrossed
  BY <1>1 DEF Off!Init, RowsNamed, NamesStand, PlansSound, RivalsMarked,
              Off!TwinsOnlyWhenCrossed,
              Off!Making, Off!Idle
<1> QED
  BY <1>2, <1>3 DEF OfflineInv

----------------------------------------------------------------------------------
(* What every step keeps                                                          *)

\* Rows stay and keep what they were made from; a name that stands for a row goes on
\* standing for it.
Keeps ==
  /\ Len(rows) <= Len(rows')
  /\ \A i \in DOMAIN rows :
       /\ rows'[i].type = rows[i].type /\ rows'[i].student = rows[i].student
       /\ rows'[i].guardian = rows[i].guardian /\ rows'[i].content = rows[i].content
       /\ rows'[i].by = rows[i].by
       /\ rows'[i].open => rows[i].open
  /\ \A n \in Off!Names : identity[n] # 0 => identity'[n] = identity[n]
  /\ crossed \subseteq crossed'

LEMMA KeptInDomain ==
  ASSUME OfflineInv, Keeps, rows' \in Seq(Row), NEW i \in DOMAIN rows
  PROVE  i \in DOMAIN rows'
<1>1. DOMAIN rows' = 1..Len(rows') /\ Len(rows') \in Nat
  OBVIOUS
<1> QED
  BY <1>1, Facts DEF Keeps

LEMMA KeptWellMade ==
  ASSUME OfflineInv, Keeps, rows' \in Seq(Row), NEW row, WellMade(row)
  PROVE  WellMade(row)'
<1>1. ASSUME NEW t, NEW n, NEW i, Stands(t, n, i) PROVE Stands(t, n, i)'
  BY <1>1, KeptInDomain, Facts DEF Stands, Off!RowsOf, Keeps
<1>3. Refers(row)'
  BY <1>1 DEF WellMade, Refers, Off!NeedsStudent
<1>2. WasEnrolled(row)'
  BY KeptInDomain DEF WellMade, WasEnrolled, Keeps
<1> QED
  BY <1>2, <1>3 DEF WellMade

LEMMA KeptScope ==
  ASSUME Keeps, NEW i \in DOMAIN rows
  PROVE  Off!Scope(rows'[i]) = Off!Scope(rows[i])
  BY DEF Keeps, Off!Scope

LEMMA NothingMade ==
  ASSUME OfflineInv, Keeps, rows' \in Seq(Row), Len(rows') = Len(rows), identity' = identity,
         crossed' = crossed, creating' \in [Calls -> Plan \cup {Off!Idle}],
         \A r \in Calls : creating'[r] = creating[r] \/ creating'[r] = Off!Idle
  PROVE  RowsNamed' /\ NamesStand' /\ PlansSound' /\ RivalsMarked' /\ Off!TwinsOnlyWhenCrossed'
<1>1. DOMAIN rows' = DOMAIN rows
  BY Facts
<1>2. ASSUME NEW i \in DOMAIN rows'
      PROVE  identity'[NameOf(rows'[i].by)] = i /\ WellMade(rows[i])'
  <2>1. /\ i \in DOMAIN rows /\ WellMade(rows[i]) /\ rows'[i].by = rows[i].by
        /\ identity[NameOf(rows[i].by)] = i
    BY <1>1, <1>2 DEF OfflineInv, RowsNamed, Keeps
  <2>2. \E row : row = rows[i] /\ WellMade(row)'
    BY <2>1, KeptWellMade
  <2>3. PICK row : row = rows[i] /\ WellMade(row)'
    BY <2>2
  <2>4. WellMade(rows[i])'
    <3>1. /\ rows'[i].type = row.type /\ rows'[i].student = row.student
          /\ rows'[i].guardian = row.guardian /\ rows'[i].content = row.content
          /\ rows'[i].by = row.by
      BY <1>1, <1>2, <2>3 DEF Keeps
    <3> QED
      BY <2>3, <3>1 DEF WellMade, Refers, WasEnrolled
  <2> QED
    BY <2>1, <2>4
<1>3. RowsNamed'
  BY <1>2 DEF RowsNamed
<1>4. NamesStand'
  BY Facts DEF OfflineInv, NamesStand, Keeps
<1>5. PlansSound'
  <2> SUFFICES ASSUME NEW r \in Calls, creating'[r].op # "none"
               PROVE  /\ creating'[r].known <= Len(rows')
                      /\ creating'[r].verdict = "known" => creating'[r].known # 0
                      /\ creating'[r].row.by = creating'[r].op
                      /\ creating'[r].verdict = "make" => WellMade(creating[r].row)'
    BY DEF PlansSound
  <2>1. creating'[r] = creating[r]
    BY DEF Off!Idle
  <2>2. creating[r].verdict = "make" => \E row : row = creating[r].row /\ WellMade(row)'
    BY <2>1, KeptWellMade DEF OfflineInv, PlansSound
  <2> QED
    BY <2>1, <2>2 DEF OfflineInv, PlansSound
<1>6. \A r \in Off!Making' : r \in Off!Making /\ creating'[r] = creating[r]
  BY DEF Off!Making, Off!Idle
<1>7. \A i \in DOMAIN rows' : /\ i \in DOMAIN rows /\ Off!Scope(rows'[i]) = Off!Scope(rows[i])
                              /\ rows'[i].open => rows[i].open
                              /\ Off!Compared(rows'[i]) = Off!Compared(rows[i])
  BY <1>1, KeptScope DEF Keeps, Off!Compared
<1>8. RivalsMarked'
  BY <1>6, <1>7 DEF OfflineInv, RivalsMarked
<1>9. Off!TwinsOnlyWhenCrossed'
  BY <1>7 DEF OfflineInv, Off!TwinsOnlyWhenCrossed
<1> QED
  BY <1>3, <1>4, <1>5, <1>8, <1>9

----------------------------------------------------------------------------------
(* Begin                                                                          *)

LEMMA ResolvedIs ==
  ASSUME OfflineInv, NEW t, NEW n
  PROVE  Off!Resolved(t, n) \in 0..Len(rows)
  BY Facts DEF Off!Resolved

LEMMA ReferredIs ==
  ASSUME OfflineInv, NEW t, NEW n, IntOf[n] \in Nat
  PROVE  /\ Off!Referred(t, n) \in Nat
         /\ Off!Referred(t, n) \in Off!RowsOf(t) => Stands(t, n, Off!Referred(t, n))
<1>1. CASE IntOf[n] # 0
  BY <1>1 DEF Off!Referred, Stands
<1>2. CASE IntOf[n] = 0
  <2>1. Off!Referred(t, n) = Off!Resolved(t, n)
    BY <1>2 DEF Off!Referred
  <2>2. Off!Resolved(t, n) \in Off!RowsOf(t) => Stands(t, n, Off!Resolved(t, n))
    BY <1>2, Facts DEF Off!Resolved, Stands, Off!RowsOf
  <2> QED
    BY <2>1, <2>2, ResolvedIs, Facts
<1> QED
  BY <1>1, <1>2

LEMMA RowOfOp ==
  ASSUME Off!OfflineConstants, OfflineInv, NEW o \in Records
  PROVE  /\ Off!RowOf(o) \in Row /\ Off!RowOf(o).by = o
         /\ ~Off!RefersToUnknown(o) => Refers(Off!RowOf(o))
<1> IntOf[StudentRef[o]] \in Nat /\ IntOf[GuardianRef[o]] \in Nat
  BY DEF Off!OfflineConstants
<1>1. Off!StudentOf(o) \in Nat /\ Off!GuardianOf(o) \in Nat
  BY ReferredIs DEF Off!StudentOf, Off!GuardianOf
<1>2. Off!RowOf(o) \in Row /\ Off!RowOf(o).by = o
  BY <1>1 DEF Off!RowOf, Row, Off!OfflineConstants
<1>3. ASSUME ~Off!RefersToUnknown(o) PROVE Refers(Off!RowOf(o))
  BY <1>3, ReferredIs
  DEF Off!RefersToUnknown, Refers, Off!RowOf, Off!StudentOf, Off!GuardianOf, Off!NeedsStudent
<1> QED
  BY <1>2, <1>3

LEMMA ScopeSays ==
  ASSUME NEW a, NEW b, Off!Scope(a) = Off!Scope(b)
  PROVE  /\ a.type = b.type /\ a.student = b.student
         /\ a.type # "class_membership" => a.guardian = b.guardian /\ a.content = b.content
<1>1. /\ Off!Scope(a)[1] = a.type /\ Off!Scope(b)[1] = b.type
      /\ Off!Scope(a)[2] = a.student /\ Off!Scope(b)[2] = b.student
  BY DEF Off!Scope
<1>2. ASSUME a.type # "class_membership", b.type # "class_membership"
      PROVE  a.guardian = b.guardian /\ a.content = b.content
  BY <1>2 DEF Off!Scope
<1> QED
  BY <1>1, <1>2

LEMMA AcceptedIs ==
  ASSUME OfflineInv, NEW row \in Row, Refers(row), Off!Accepted(row)
  PROVE  /\ WellMade(row)
         /\ \A i \in DOMAIN rows :
              ~(rows[i].open /\ Off!Compared(rows[i]) /\ Off!Scope(rows[i]) = Off!Scope(row))
<1>1. WasEnrolled(row)
  BY DEF Off!Accepted, WasEnrolled, Off!MayBeMarked, Off!Enrolled, Off!RowsOf
<1>2. ASSUME NEW i \in DOMAIN rows, rows[i].open, Off!Compared(rows[i]),
             Off!Scope(rows[i]) = Off!Scope(row)
      PROVE  FALSE
  <2>1. /\ rows[i].type = row.type /\ rows[i].student = row.student
        /\ row.type # "class_membership" =>
             rows[i].guardian = row.guardian /\ rows[i].content = row.content
    BY <1>2, ScopeSays
  <2> QED
    BY <1>2, <2>1 DEF Off!Accepted, Off!Exists, Off!RowsOf, Off!SameRecord, Off!Compared
<1> QED
  BY <1>1, <1>2 DEF WellMade

LEMMA BeginStep ==
  ASSUME Off!OfflineConstants, OfflineInv, NEW r \in Calls, NEW o \in Records, Off!Begin(r, o)
  PROVE  OfflineInv'
<1> DEFINE found == Off!Resolved(Type[o], ClientId[o])
           seen == IF found = 0 THEN 0 ELSE rows[found].version
           row == Off!RowOf(o)
           verdict == CASE newBase[o] # seen -> "conflict"
                        [] newBase[o] = seen /\ found # 0 -> "known"
                        [] newBase[o] = seen /\ found = 0 ->
                             IF ~Off!RefersToUnknown(o) /\ Off!Accepted(row) THEN "make" ELSE "refuse"
           rivals == {q \in Off!Making : Off!Scope(creating[q].row) = Off!Scope(row)}
<1>1. /\ creating[r] = Off!Idle /\ starts < MaxStarts /\ starts' = starts + 1
      /\ creating' = [creating EXCEPT ![r] =
           [op |-> o, known |-> found, row |-> row, verdict |-> verdict]]
      /\ crossed' = IF verdict = "make" /\ rivals # {} THEN crossed \cup {Off!Scope(row)} ELSE crossed
      /\ UNCHANGED <<rows, identity, newStatus, newBase, closed>>
  BY DEF Off!Begin
<1>2. /\ found \in 0..Len(rows)
      /\ verdict \in Verdicts /\ (verdict = "known" => found # 0)
      /\ verdict = "make" => ~Off!RefersToUnknown(o) /\ Off!Accepted(row)
  BY ResolvedIs DEF Verdicts
<1>3. row \in Row /\ row.by = o /\ (~Off!RefersToUnknown(o) => Refers(row))
  BY RowOfOp
<1> HIDE DEF found, seen, row, verdict
<1>4. /\ creating'[r] = [op |-> o, known |-> found, row |-> row, verdict |-> verdict]
      /\ \A q \in Calls \ {r} : creating'[q] = creating[q]
      /\ creating' \in [Calls -> Plan \cup {Off!Idle}]
  BY <1>1, <1>2, <1>3, Facts DEF OfflineInv, PlansSound, Plan
<1>5. Off!TypeOK'
  BY <1>1 DEF OfflineInv, Off!TypeOK, Off!OfflineConstants
<1>6. RowsNamed' /\ NamesStand' /\ Keeps
  <2>1. Keeps
    BY <1>1, Facts DEF Keeps
  <2> QED
    BY <1>1, <2>1 DEF OfflineInv, RowsNamed, NamesStand, WellMade, Refers, Stands, WasEnrolled,
                      Off!RowsOf
<1>7. verdict = "make" => /\ WellMade(row)
                          /\ \A i \in DOMAIN rows :
                               ~(rows[i].open /\ Off!Compared(rows[i])
                                  /\ Off!Scope(rows[i]) = Off!Scope(row))
  BY <1>2, <1>3, AcceptedIs
<1>8. \A x : WellMade(x) => WellMade(x)'
  BY <1>6, KeptWellMade DEF RowsNamed
<1>9. PlansSound'
  <2> SUFFICES ASSUME NEW q \in Calls, creating'[q].op # "none"
               PROVE  /\ creating'[q].known <= Len(rows')
                      /\ creating'[q].verdict = "known" => creating'[q].known # 0
                      /\ creating'[q].row.by = creating'[q].op
                      /\ creating'[q].verdict = "make" => WellMade(creating[q].row)'
    BY <1>4 DEF PlansSound
  <2>1. CASE q = r
    <3>1. verdict = "make" => \E x : x = creating'[q].row /\ WellMade(x)'
      BY <1>4, <1>7, <1>8, <2>1
    <3> QED
      BY <1>1, <1>2, <1>3, <1>4, <2>1, <3>1
  <2>2. CASE q # r
    <3>1. creating'[q] = creating[q]
      BY <1>4, <2>2
    <3>2. creating[q].verdict = "make" => \E x : x = creating[q].row /\ WellMade(x)'
      BY <1>8, <3>1 DEF OfflineInv, PlansSound
    <3> QED
      BY <1>1, <3>1, <3>2 DEF OfflineInv, PlansSound
  <2> QED
    BY <2>1, <2>2
<1>10. \A q \in Off!Making' : \/ q # r /\ q \in Off!Making /\ creating'[q] = creating[q]
                              \/ q = r /\ verdict = "make" /\ creating'[q].row = row
  BY <1>4 DEF Off!Making
<1>11. crossed \subseteq crossed'
  BY <1>1
<1>12. RivalsMarked'
  <2>1. ASSUME NEW q \in Off!Making', NEW i \in DOMAIN rows',
               rows'[i].open, Off!Compared(rows'[i]),
               Off!Scope(rows'[i]) = Off!Scope(creating'[q].row)
        PROVE  Off!Scope(rows'[i]) \in crossed'
    BY <1>1, <1>7, <1>10, <1>11, <2>1 DEF OfflineInv, RivalsMarked
  <2>2. ASSUME NEW q \in Off!Making', NEW p \in Off!Making' \ {q},
               Off!Scope(creating'[p].row) = Off!Scope(creating'[q].row)
        PROVE  Off!Scope(creating'[q].row) \in crossed'
    BY <1>1, <1>10, <1>11, <2>2 DEF OfflineInv, RivalsMarked
  <2> QED
    BY <2>1, <2>2 DEF RivalsMarked
<1>13. Off!TwinsOnlyWhenCrossed'
  BY <1>1, <1>11 DEF OfflineInv, Off!TwinsOnlyWhenCrossed
<1> QED
  BY <1>5, <1>6, <1>9, <1>12, <1>13 DEF OfflineInv

----------------------------------------------------------------------------------
(* Make                                                                           *)

LEMMA MakeStep ==
  ASSUME Off!OfflineConstants, OfflineInv, NEW r \in Calls, Off!Make(r)
  PROVE  OfflineInv'
<1> DEFINE o == creating[r].op
           row == creating[r].row
           k == Len(rows) + 1
           n == NameOf(o)
<1>1. /\ o # "none" /\ creating[r].verdict = "make" /\ identity[n] = 0
      /\ rows' = Append(rows, row) /\ identity' = [identity EXCEPT ![n] = k]
      /\ newStatus' = [newStatus EXCEPT ![o] = "applied"] /\ creating' = [creating EXCEPT ![r] = Off!Idle]
      /\ UNCHANGED <<newBase, closed, crossed, starts>>
  BY DEF Off!Make, Off!NameIsFree, NameOf, Off!Ends
<1>2. /\ r \in Off!Making /\ creating[r] \in Plan /\ o \in Records /\ row \in Row /\ row.by = o
      /\ WellMade(row) /\ n \in Off!Names
  BY <1>1, Facts DEF OfflineInv, PlansSound, Off!Making, Plan, Off!Names, NameOf
<1>3. n = NameOf(row.by)
  BY <1>2
<1> HIDE DEF o, row, n
<1>4. /\ rows \in Seq(Row) /\ rows' \in Seq(Row) /\ Len(rows') = k /\ k \in Nat
      /\ DOMAIN rows = 1..Len(rows) /\ DOMAIN rows' = 1..k
      /\ rows'[k] = row /\ \A i \in DOMAIN rows : rows'[i] = rows[i]
  BY <1>1, <1>2, Facts DEF OfflineInv, RowsNamed
<1>5. /\ identity'[n] = k /\ \A m \in Off!Names \ {n} : identity'[m] = identity[m]
      /\ identity' \in [Off!Names -> 0..k]
  BY <1>1, <1>2, Facts DEF OfflineInv, Off!TypeOK
<1>6. creating' \in [Calls -> Plan \cup {Off!Idle}] /\ creating'[r] = Off!Idle
      /\ \A q \in Calls \ {r} : creating'[q] = creating[q]
  BY <1>1 DEF OfflineInv, PlansSound
<1>7. Keeps
  BY <1>1, <1>4, <1>5, Facts DEF Keeps
<1>8. \A x : WellMade(x) => WellMade(x)'
  BY <1>4, <1>7, KeptWellMade
<1>9. Off!TypeOK'
  <2>1. \A i \in DOMAIN rows' : rows'[i].type \in Off!Types /\ rows'[i].by \in Records
    <3>1. \A i \in DOMAIN rows' : rows'[i] \in Row
      BY <1>4
    <3> QED
      BY <3>1 DEF Row
  <2>2. newStatus' \in [Records -> {"pending", "applied", "conflict", "failed"}]
    BY <1>1 DEF OfflineInv, Off!TypeOK
  <2> QED
    BY <1>1, <1>4, <1>5, <2>1, <2>2 DEF OfflineInv, Off!TypeOK
<1>10. RowsNamed'
  <2> SUFFICES ASSUME NEW i \in DOMAIN rows'
               PROVE  identity'[NameOf(rows'[i].by)] = i /\ WellMade(rows[i])'
    BY <1>4 DEF RowsNamed
  <2>1. CASE i = k
    <3>1. \E x : x = rows'[k] /\ WellMade(x)'
      BY <1>2, <1>4, <1>8
    <3> QED
      BY <1>3, <1>4, <1>5, <2>1, <3>1
  <2>2. CASE i # k
    <3>1. i \in DOMAIN rows /\ rows'[i] = rows[i]
      BY <1>4, <2>2
    <3>2. /\ identity[NameOf(rows[i].by)] = i /\ WellMade(rows[i])
          /\ rows[i] \in Row /\ i # 0
      BY <3>1, <1>4, Facts DEF OfflineInv, RowsNamed
    <3>3. NameOf(rows[i].by) \in Off!Names
      BY <3>2 DEF Row, Off!Names, NameOf
    <3>4. \E x : x = rows'[i] /\ WellMade(x)'
      BY <3>1, <3>2, <1>8
    <3> QED
      BY <1>7, <3>1, <3>2, <3>3, <3>4 DEF Keeps
  <2> QED
    BY <2>1, <2>2
<1>11. NamesStand'
  <2> SUFFICES ASSUME NEW m \in Off!Names, identity'[m] # 0
               PROVE  NameOf(rows'[identity'[m]].by) = m
    BY DEF NamesStand
  <2>1. CASE m = n
    BY <1>3, <1>4, <1>5, <2>1
  <2>2. CASE m # n
    BY <1>4, <1>5, <2>2, Facts DEF OfflineInv, NamesStand
  <2> QED
    BY <2>1, <2>2
<1>12. PlansSound'
  <2> SUFFICES ASSUME NEW q \in Calls, creating'[q].op # "none"
               PROVE  /\ creating'[q].known <= Len(rows')
                      /\ creating'[q].verdict = "known" => creating'[q].known # 0
                      /\ creating'[q].row.by = creating'[q].op
                      /\ creating'[q].verdict = "make" => WellMade(creating[q].row)'
    BY <1>6 DEF PlansSound
  <2>1. creating'[q] = creating[q] /\ creating[q] \in Plan
    BY <1>6, Facts DEF Off!Idle
  <2>2. creating[q].verdict = "make" => \E x : x = creating[q].row /\ WellMade(x)'
    BY <1>8, <2>1 DEF OfflineInv, PlansSound
  <2>3. creating'[q].known <= Len(rows')
    BY <1>4, <2>1, Facts DEF OfflineInv, PlansSound, Plan
  <2> QED
    BY <2>1, <2>2, <2>3 DEF OfflineInv, PlansSound
<1>13. \A q \in Off!Making' : q # r /\ q \in Off!Making /\ creating'[q] = creating[q]
  BY <1>6 DEF Off!Making, Off!Idle
<1>14. crossed' = crossed
  BY <1>1
<1>15. \A i \in DOMAIN rows' : i = k \/ (i \in DOMAIN rows /\ rows'[i] = rows[i])
  BY <1>4
<1>16. row = creating[r].row
  BY DEF row
<1>17. RivalsMarked'
  <2>1. ASSUME NEW q \in Off!Making', NEW i \in DOMAIN rows',
               rows'[i].open, Off!Compared(rows'[i]),
               Off!Scope(rows'[i]) = Off!Scope(creating'[q].row)
        PROVE  Off!Scope(rows'[i]) \in crossed'
    <3>1. CASE i = k
      BY <1>2, <1>4, <1>13, <1>14, <1>16, <2>1, <3>1 DEF OfflineInv, RivalsMarked
    <3>2. CASE i # k
      BY <1>13, <1>14, <1>15, <2>1, <3>2 DEF OfflineInv, RivalsMarked
    <3> QED
      BY <3>1, <3>2
  <2>2. ASSUME NEW q \in Off!Making', NEW p \in Off!Making' \ {q},
               Off!Scope(creating'[p].row) = Off!Scope(creating'[q].row)
        PROVE  Off!Scope(creating'[q].row) \in crossed'
    BY <1>13, <1>14, <2>2 DEF OfflineInv, RivalsMarked
  <2> QED
    BY <2>1, <2>2 DEF RivalsMarked
<1>18. Off!TwinsOnlyWhenCrossed'
  <2> SUFFICES ASSUME NEW i \in DOMAIN rows', NEW j \in DOMAIN rows', i # j,
                      rows'[i].open, rows'[j].open, Off!Compared(rows'[i]),
                      Off!Scope(rows'[i]) = Off!Scope(rows'[j])
               PROVE  Off!Scope(rows'[i]) \in crossed'
    BY DEF Off!TwinsOnlyWhenCrossed
  <2>0. Off!Compared(rows'[j])
    BY ScopeSays DEF Off!Compared
  <2>1. CASE i = k
    BY <1>2, <1>4, <1>14, <1>15, <1>16, <2>0, <2>1 DEF OfflineInv, RivalsMarked
  <2>2. CASE j = k
    BY <1>2, <1>4, <1>14, <1>15, <1>16, <2>2 DEF OfflineInv, RivalsMarked
  <2>3. CASE i # k /\ j # k
    BY <1>14, <1>15, <2>3 DEF OfflineInv, Off!TwinsOnlyWhenCrossed
  <2> QED
    BY <2>1, <2>2, <2>3
<1> QED
  BY <1>9, <1>10, <1>11, <1>12, <1>17, <1>18 DEF OfflineInv

----------------------------------------------------------------------------------
(* The other steps make no row and give no name.                                  *)

LEMMA QuietStep ==
  ASSUME OfflineInv, Off!TypeOK', rows' \in Seq(Row), Len(rows') = Len(rows),
         \A i \in DOMAIN rows :
           /\ rows'[i].type = rows[i].type /\ rows'[i].student = rows[i].student
           /\ rows'[i].guardian = rows[i].guardian /\ rows'[i].content = rows[i].content
           /\ rows'[i].by = rows[i].by
           /\ rows'[i].open => rows[i].open,
         identity' = identity, crossed' = crossed,
         creating' = creating \/ \E r \in Calls : creating' = [creating EXCEPT ![r] = Off!Idle]
  PROVE  OfflineInv'
<1>1. Keeps
  BY Facts DEF Keeps
<1>2. /\ creating' \in [Calls -> Plan \cup {Off!Idle}]
      /\ \A r \in Calls : creating'[r] = creating[r] \/ creating'[r] = Off!Idle
  BY DEF OfflineInv, PlansSound
<1> QED
  BY <1>1, <1>2, NothingMade DEF OfflineInv

LEMMA RestStep ==
  ASSUME Off!OfflineConstants, OfflineInv,
         \/ \E r \in Calls : Off!Fail(r) \/ Off!AnswerKnown(r) \/ Off!Settle(r)
         \/ \E o \in Records : Off!Rebase(o) \/ Off!Discard(o)
         \/ \E i \in DOMAIN rows : Off!Leave(i)
         \/ \E c \in {ClassOf[x] : x \in DOMAIN ClassOf} : Off!Close(c)
         \/ UNCHANGED Off!vars
  PROVE  OfflineInv'
<1>1. ASSUME rows' = rows, UNCHANGED <<identity, crossed, starts>>,
             newStatus' \in [Records -> {"pending", "applied", "conflict", "failed"}],
             newBase' \in [Records -> Nat],
             creating' = creating \/ \E r \in Calls : creating' = [creating EXCEPT ![r] = Off!Idle]
      PROVE  OfflineInv'
  <2>1. Off!TypeOK'
    BY <1>1 DEF OfflineInv, Off!TypeOK
  <2>2. rows' \in Seq(Row)
    BY <1>1 DEF OfflineInv, RowsNamed
  <2> QED
    BY <1>1, <2>1, <2>2, QuietStep
<1>2. ASSUME NEW i \in DOMAIN rows, NEW row \in Row,
             rows' = [rows EXCEPT ![i] = row],
             row.type = rows[i].type, row.student = rows[i].student,
             row.guardian = rows[i].guardian, row.content = rows[i].content,
             row.by = rows[i].by, row.open => rows[i].open,
             UNCHANGED <<identity, newBase, crossed, starts>>,
             newStatus' \in [Records -> {"pending", "applied", "conflict", "failed"}],
             creating' = creating \/ \E r \in Calls : creating' = [creating EXCEPT ![r] = Off!Idle]
      PROVE  OfflineInv'
  <2>1. /\ rows' \in Seq(Row) /\ Len(rows') = Len(rows) /\ DOMAIN rows' = DOMAIN rows
        /\ rows'[i] = row /\ \A j \in DOMAIN rows \ {i} : rows'[j] = rows[j]
    BY <1>2, Facts DEF OfflineInv, RowsNamed
  <2>2. \A j \in DOMAIN rows :
           /\ rows'[j].type = rows[j].type /\ rows'[j].student = rows[j].student
           /\ rows'[j].guardian = rows[j].guardian /\ rows'[j].content = rows[j].content
           /\ rows'[j].by = rows[j].by
           /\ rows'[j].open => rows[j].open
    BY <1>2, <2>1
  <2>3. Off!TypeOK'
    BY <1>2, <2>1, <2>2 DEF OfflineInv, Off!TypeOK
  <2> QED
    BY <1>2, <2>1, <2>2, <2>3, QuietStep
<1>3. ASSUME NEW r \in Calls, Off!Fail(r) PROVE OfflineInv'
  BY <1>1, <1>3 DEF Off!Fail, Off!Ends, OfflineInv, Off!TypeOK
<1>4. ASSUME NEW r \in Calls, Off!AnswerKnown(r) PROVE OfflineInv'
  <2>1. creating[r].op # "none" /\ creating[r] \in Plan /\ creating[r].known \in DOMAIN rows
    BY <1>4, Facts DEF Off!AnswerKnown, OfflineInv, PlansSound, Plan
  <2>2. PICK i \in DOMAIN rows : i = creating[r].known
    BY <2>1
  <2>3. rows[i] \in Row
    BY Facts
  <2>4. [rows[i] EXCEPT !.version = @ + 1] \in Row
    BY <2>3 DEF Row
  <2>5. PICK row \in Row : row = [rows[i] EXCEPT !.version = @ + 1]
    BY <2>4
  <2>6. /\ row.type = rows[i].type /\ row.student = rows[i].student
        /\ row.guardian = rows[i].guardian /\ row.content = rows[i].content
        /\ row.by = rows[i].by /\ row.open = rows[i].open
    BY <2>3, <2>5 DEF Row
  <2>7. rows' = [rows EXCEPT ![i] = row]
    BY <1>4, <2>2, <2>5 DEF Off!AnswerKnown
  <2>8. /\ newStatus' \in [Records -> {"pending", "applied", "conflict", "failed"}]
        /\ UNCHANGED <<identity, newBase, crossed, starts>>
        /\ creating' = [creating EXCEPT ![r] = Off!Idle]
    BY <1>4 DEF Off!AnswerKnown, Off!Ends, OfflineInv, Off!TypeOK
  <2> QED
    BY <1>2, <2>6, <2>7, <2>8
<1>5. ASSUME NEW r \in Calls, Off!Settle(r) PROVE OfflineInv'
  <2>1. newStatus' \in [Records -> {"pending", "applied", "conflict", "failed"}]
    BY <1>5 DEF Off!Settle, OfflineInv, Off!TypeOK
  <2> QED
    BY <1>1, <1>5, <2>1 DEF Off!Settle, Off!Ends, OfflineInv, Off!TypeOK
<1>6. ASSUME NEW o \in Records, Off!Rebase(o) PROVE OfflineInv'
  <2>1. Off!Resolved(Type[o], ClientId[o]) \in 0..Len(rows)
    BY ResolvedIs
  <2>2. \A i \in DOMAIN rows : rows[i].version \in Nat
    BY Facts DEF Row
  <2>3. newBase' \in [Records -> Nat]
    BY <1>6, <2>1, <2>2, Facts DEF Off!Rebase, OfflineInv, Off!TypeOK
  <2>4. newStatus' \in [Records -> {"pending", "applied", "conflict", "failed"}]
    BY <1>6 DEF Off!Rebase, OfflineInv, Off!TypeOK
  <2> QED
    BY <1>1, <1>6, <2>3, <2>4 DEF Off!Rebase
<1>7. ASSUME NEW o \in Records, Off!Discard(o) PROVE OfflineInv'
  BY <1>1, <1>7 DEF Off!Discard, OfflineInv, Off!TypeOK
<1>8. ASSUME NEW i \in DOMAIN rows, Off!Leave(i) PROVE OfflineInv'
  <2>1. rows[i] \in Row /\ rows[i].open
    BY <1>8, Facts DEF Off!Leave
  <2>2. [rows[i] EXCEPT !.open = FALSE] \in Row
    BY <2>1 DEF Row
  <2>3. PICK row \in Row : row = [rows[i] EXCEPT !.open = FALSE]
    BY <2>2
  <2>4. /\ row.type = rows[i].type /\ row.student = rows[i].student
        /\ row.guardian = rows[i].guardian /\ row.content = rows[i].content
        /\ row.by = rows[i].by /\ (row.open => rows[i].open)
    BY <2>1, <2>3 DEF Row
  <2>5. rows' = [rows EXCEPT ![i] = row]
    BY <1>8, <2>3 DEF Off!Leave
  <2> QED
    BY <1>2, <1>8, <2>4, <2>5 DEF Off!Leave, OfflineInv, Off!TypeOK
<1>9. ASSUME NEW c \in {ClassOf[x] : x \in DOMAIN ClassOf}, Off!Close(c) PROVE OfflineInv'
  BY <1>1, <1>9 DEF Off!Close, OfflineInv, Off!TypeOK
<1>10. CASE UNCHANGED Off!vars
  BY <1>1, <1>10 DEF Off!vars, OfflineInv, Off!TypeOK
<1> QED
  BY <1>3, <1>4, <1>5, <1>6, <1>7, <1>8, <1>9, <1>10

LEMMA OfflineStep == Off!OfflineConstants /\ OfflineInv /\ [Off!Next]_Off!vars => OfflineInv'
  BY BeginStep, MakeStep, RestStep DEF Off!Next

-----------------------------------------------------------------------------------
(* Proofs: for any accounts, stations and crossing registrations, a station does not *)
(* pass from one account without the administrator's right to another.              *)

\* Administrators are never recorded as users of a station.
OnlyOthers == \A d \in Stations : \A u \in Users : <<d, u>> \in used => u \notin admins

\* What a registration has read of a station still says who may come to own it: a station
\* that had no owner belongs to an administrator if to anyone, and one that had an owner
\* still has him, unless administrators hand it among themselves.
ReadHolds ==
  \A r \in Calls : \A d \in Stations : \A u \in Users : \A read \in Dev!Owners :
    registering[r] = <<d, u, read>> =>
      /\ read = Nobody => u \in admins /\ owner[d] \in admins \union {Nobody}
      /\ read \in Users =>
           /\ u = read \/ u \in admins
           /\ owner[d] = read \/ (read \in admins /\ owner[d] \in admins)

AccountsInv == Dev!TypeOK /\ OnlyOthers /\ ReadHolds /\ Dev!OneAccount

LEMMA AccountsInit == Dev!DevicesConstants /\ Dev!Init => AccountsInv
<1> SUFFICES ASSUME Dev!DevicesConstants, Dev!Init PROVE AccountsInv
  OBVIOUS
<1>1. Dev!TypeOK
  BY DEF Dev!Init, Dev!TypeOK, Dev!Owners
<1>2. OnlyOthers /\ Dev!OneAccount
  BY DEF Dev!Init, OnlyOthers, Dev!OneAccount
<1>3. ReadHolds
  BY DEF Dev!Init, ReadHolds, Dev!DevicesConstants
<1> QED
  BY <1>1, <1>2, <1>3 DEF AccountsInv

LEMMA AccountsTyped == Dev!DevicesConstants /\ Dev!TypeOK /\ Dev!Next => Dev!TypeOK'
<1> SUFFICES ASSUME Dev!DevicesConstants, Dev!TypeOK, Dev!Next PROVE Dev!TypeOK'
  OBVIOUS
<1> USE DEF Dev!TypeOK, Dev!Using, Dev!Known
<1>1. ASSUME NEW r \in Calls, NEW d \in Stations, NEW u \in Users, Dev!Read(r, d, u)
      PROVE  Dev!TypeOK'
  BY <1>1 DEF Dev!Read
<1>2. ASSUME NEW r \in Calls, Dev!Commit(r) PROVE Dev!TypeOK'
  <2>1. registering[r] \in Stations \X Users \X Dev!Owners
    BY <1>2 DEF Dev!Commit
  <2> QED
    BY <1>2, <2>1 DEF Dev!Commit, Dev!Owners
<1>3. ASSUME NEW d \in Stations, NEW u \in Users, Dev!Heartbeat(d, u) PROVE Dev!TypeOK'
  BY <1>3 DEF Dev!Heartbeat
<1>4. ASSUME NEW d \in Stations, NEW u \in Users, Dev!PushRefused(d, u) PROVE Dev!TypeOK'
  BY <1>4 DEF Dev!PushRefused, Dev!Report
<1>5. ASSUME NEW d \in Stations, NEW u \in Users, Dev!Acknowledge(d, u) PROVE Dev!TypeOK'
  BY <1>5 DEF Dev!Acknowledge, Dev!Report
<1>6. ASSUME NEW d \in Stations, NEW u \in Users, NEW o \in Pushed,
             NEW s \in {"pending", "conflict"}, Dev!Push(d, u, o, s)
      PROVE  Dev!TypeOK'
  BY <1>6 DEF Dev!Push, Dev!Report
<1>7. ASSUME NEW u \in Users, NEW o \in Pushed, NEW s \in {"pending", "synchronized"},
             Dev!Decide(u, o, s)
      PROVE  Dev!TypeOK'
  <2>1. pushed[o] \in Stations \X Users
    BY <1>7 DEF Dev!Decide
  <2> QED
    BY <1>7, <2>1 DEF Dev!Decide, Dev!Report
<1> HIDE DEF Dev!TypeOK, Dev!Using, Dev!Known
<1> QED
  BY <1>1, <1>2, <1>3, <1>4, <1>5, <1>6, <1>7 DEF Dev!Next

\* A step that leaves the registrations and the owners alone, and lets only the owner, the
\* author of an operation or an administrator use a station.
LEMMA UseStep ==
  ASSUME Dev!DevicesConstants, AccountsInv, Dev!TypeOK', NEW d \in Stations, NEW u \in Users,
         Dev!Using(d, u),
         u \in admins \/ owner[d] = u \/ \E o \in Pushed : pushed'[o] = <<d, u>>,
         UNCHANGED <<admins, owner, registering>>,
         \A o \in Pushed : pushed[o] # Absent => pushed'[o] = pushed[o]
  PROVE AccountsInv'
<1>1. OnlyOthers'
  BY DEF AccountsInv, OnlyOthers, Dev!Using
<1>2. ReadHolds'
  BY DEF AccountsInv, ReadHolds
<1>3. Dev!OneAccount'
  <2> SUFFICES ASSUME NEW e \in Stations, NEW v \in Users, <<e, v>> \in used'
               PROVE  owner[e] = v \/ \E o \in Pushed : pushed'[o] = <<e, v>>
    BY DEF Dev!OneAccount
  <2>1. CASE <<e, v>> \in used
    <3>1. \A o \in Pushed : pushed[o] = <<e, v>> => pushed'[o] = <<e, v>>
      BY DEF Dev!DevicesConstants
    <3> QED
      BY <2>1, <3>1 DEF AccountsInv, Dev!OneAccount
  <2>2. CASE <<e, v>> \notin used
    BY <2>2 DEF Dev!Using
  <2> QED
    BY <2>1, <2>2
<1> QED
  BY <1>1, <1>2, <1>3 DEF AccountsInv

LEMMA CommitStep ==
  ASSUME Dev!DevicesConstants, AccountsInv, Dev!TypeOK', NEW r \in Calls, Dev!Commit(r)
  PROVE  AccountsInv'
<1> DEFINE d == registering[r][1]
           u == registering[r][2]
           read == registering[r][3]
<1>1. /\ d \in Stations /\ u \in Users /\ read \in Dev!Owners
      /\ registering[r] = <<d, u, read>>
  BY DEF Dev!Commit, AccountsInv, Dev!TypeOK
<1>2. /\ read = Nobody => u \in admins /\ owner[d] \in admins \union {Nobody}
      /\ read \in Users => /\ u = read \/ u \in admins
                           /\ owner[d] = read \/ (read \in admins /\ owner[d] \in admins)
  BY <1>1 DEF AccountsInv, ReadHolds
<1>3. UNCHANGED <<admins, pushed>> /\ registering' = [registering EXCEPT ![r] = Absent]
  BY DEF Dev!Commit
<1> HIDE DEF d, u, read
<1>4. ASSUME NEW q \in Calls, NEW e \in Stations, NEW v \in Users, NEW x \in Dev!Owners,
             registering'[q] = <<e, v, x>>
      PROVE  registering[q] = <<e, v, x>>
  BY <1>3, <1>4 DEF AccountsInv, Dev!TypeOK, Dev!DevicesConstants
<1>5. CASE UNCHANGED <<owner, used>>
  <2>1. OnlyOthers'
    BY <1>3, <1>5 DEF AccountsInv, OnlyOthers
  <2>2. Dev!OneAccount'
    BY <1>3, <1>5 DEF AccountsInv, Dev!OneAccount
  <2>3. ReadHolds'
    BY <1>3, <1>4, <1>5 DEF AccountsInv, ReadHolds
  <2> QED
    BY <2>1, <2>2, <2>3 DEF AccountsInv
<1>6. CASE /\ ~(read = Absent /\ Dev!Known(d)) /\ Dev!Using(d, u)
           /\ owner' = IF read \in {Absent, Nobody} THEN [owner EXCEPT ![d] = u] ELSE owner
  <2>1. OnlyOthers'
    BY <1>3, <1>6 DEF AccountsInv, OnlyOthers, Dev!Using
  \* The owners of a station before and after: from nobody to anybody, or among
  \* administrators.
  <2>2. \A e \in Stations :
          \/ owner'[e] = owner[e]
          \/ owner[e] = Absent /\ e = d /\ owner'[e] = u
          \/ owner[e] \in admins \union {Nobody} /\ e = d /\ u \in admins /\ owner'[e] = u
    BY <1>1, <1>2, <1>6 DEF AccountsInv, Dev!TypeOK, Dev!Known, Dev!Owners
  <2>3. ReadHolds'
    <3> SUFFICES ASSUME NEW q \in Calls, NEW e \in Stations, NEW v \in Users,
                        NEW x \in Dev!Owners, registering'[q] = <<e, v, x>>
                 PROVE  /\ x = Nobody => v \in admins /\ owner'[e] \in admins \union {Nobody}
                        /\ x \in Users =>
                             /\ v = x \/ v \in admins
                             /\ owner'[e] = x \/ (x \in admins /\ owner'[e] \in admins)
      BY <1>3 DEF ReadHolds
    <3>1. /\ x = Nobody => v \in admins /\ owner[e] \in admins \union {Nobody}
          /\ x \in Users =>
               /\ v = x \/ v \in admins
               /\ owner[e] = x \/ (x \in admins /\ owner[e] \in admins)
      BY <1>4 DEF AccountsInv, ReadHolds
    <3>2. admins \subseteq Users
      BY DEF AccountsInv, Dev!TypeOK
    <3> QED
      BY <2>2, <3>1, <3>2 DEF Dev!DevicesConstants
  <2>4. Dev!OneAccount'
    <3> SUFFICES ASSUME NEW e \in Stations, NEW v \in Users, <<e, v>> \in used'
                 PROVE  owner'[e] = v \/ \E o \in Pushed : pushed[o] = <<e, v>>
      BY <1>3 DEF Dev!OneAccount
    <3>1. CASE <<e, v>> \in used
      <4>1. v \notin admins /\ (owner[e] = v \/ \E o \in Pushed : pushed[o] = <<e, v>>)
        BY <3>1 DEF AccountsInv, OnlyOthers, Dev!OneAccount
      <4> QED
        BY <2>2, <4>1 DEF Dev!DevicesConstants
    <3>2. CASE <<e, v>> \notin used
      <4>1. e = d /\ v = u /\ u \notin admins
        BY <1>6, <3>2 DEF Dev!Using
      <4>2. CASE read \in Users
        BY <1>1, <1>2, <1>6, <4>1, <4>2 DEF Dev!DevicesConstants
      <4>3. CASE read \in {Absent, Nobody}
        BY <1>1, <1>6, <4>1, <4>3 DEF AccountsInv, Dev!TypeOK
      <4> QED
        BY <1>1, <4>2, <4>3 DEF Dev!Owners
    <3> QED
      BY <3>1, <3>2
  <2> QED
    BY <2>1, <2>3, <2>4 DEF AccountsInv
<1> QED
  BY <1>5, <1>6 DEF Dev!Commit, d, u, read

LEMMA AccountsStep == Dev!DevicesConstants /\ AccountsInv /\ [Dev!Next]_Dev!vars => AccountsInv'
<1> SUFFICES ASSUME Dev!DevicesConstants, AccountsInv, [Dev!Next]_Dev!vars PROVE AccountsInv'
  OBVIOUS
<1>1. CASE UNCHANGED Dev!vars
  <2>1. Dev!TypeOK' /\ OnlyOthers'
    BY <1>1 DEF Dev!vars, AccountsInv, Dev!TypeOK, OnlyOthers
  <2>2. ReadHolds' /\ Dev!OneAccount'
    BY <1>1 DEF Dev!vars, AccountsInv, ReadHolds, Dev!OneAccount
  <2> QED
    BY <2>1, <2>2 DEF AccountsInv
<1>2. CASE Dev!Next
  <2>1. Dev!TypeOK'
    BY <1>2, AccountsTyped DEF AccountsInv
  <2>2. ASSUME NEW r \in Calls, Dev!Commit(r) PROVE AccountsInv'
    BY <2>1, <2>2, CommitStep
  <2>3. ASSUME NEW r \in Calls, NEW d \in Stations, NEW u \in Users, Dev!Read(r, d, u)
        PROVE  AccountsInv'
    <3>1. OnlyOthers' /\ Dev!OneAccount'
      BY <2>3 DEF Dev!Read, AccountsInv, OnlyOthers, Dev!OneAccount
    <3>2. ReadHolds'
      <4> SUFFICES ASSUME NEW q \in Calls, NEW e \in Stations, NEW v \in Users,
                          NEW x \in Dev!Owners, registering'[q] = <<e, v, x>>
                   PROVE  /\ x = Nobody => v \in admins /\ owner[e] \in admins \union {Nobody}
                          /\ x \in Users =>
                               /\ v = x \/ v \in admins
                               /\ owner[e] = x \/ (x \in admins /\ owner[e] \in admins)
        BY <2>3 DEF ReadHolds, Dev!Read
      <4>1. CASE q # r
        BY <2>3, <4>1 DEF Dev!Read, AccountsInv, Dev!TypeOK, ReadHolds
      <4>2. CASE q = r
        <5>1. e = d /\ v = u /\ x = owner[d]
          BY <2>3, <4>2 DEF Dev!Read, AccountsInv, Dev!TypeOK
        <5> QED
          BY <2>3, <5>1
          DEF Dev!Read, Dev!MayRegister, Dev!Known, Dev!Access, Dev!DevicesConstants
      <4> QED
        BY <4>1, <4>2
    <3> QED
      BY <2>1, <3>1, <3>2 DEF AccountsInv
  <2>4. ASSUME NEW d \in Stations, NEW u \in Users, Dev!Heartbeat(d, u) PROVE AccountsInv'
    BY <2>1, <2>4, UseStep DEF Dev!Heartbeat, Dev!Access
  <2>5. ASSUME NEW d \in Stations, NEW u \in Users, Dev!PushRefused(d, u) PROVE AccountsInv'
    BY <2>1, <2>5 DEF Dev!PushRefused, AccountsInv, OnlyOthers, ReadHolds, Dev!OneAccount
  <2>6. ASSUME NEW d \in Stations, NEW u \in Users, Dev!Acknowledge(d, u) PROVE AccountsInv'
    BY <2>1, <2>6, UseStep DEF Dev!Acknowledge, Dev!Access
  <2>7. ASSUME NEW d \in Stations, NEW u \in Users, NEW o \in Pushed,
               NEW s \in {"pending", "conflict"}, Dev!Push(d, u, o, s)
        PROVE  AccountsInv'
    <3>1. pushed'[o] = <<d, u>> /\ \A p \in Pushed : pushed[p] # Absent => pushed'[p] = pushed[p]
      BY <2>7 DEF Dev!Push, AccountsInv, Dev!TypeOK
    <3> QED
      BY <2>1, <2>7, <3>1, UseStep DEF Dev!Push
  <2>8. ASSUME NEW u \in Users, NEW o \in Pushed, NEW s \in {"pending", "synchronized"},
               Dev!Decide(u, o, s)
        PROVE  AccountsInv'
    <3>1. PICK d \in Stations, v \in Users : pushed[o] = <<d, v>>
      BY <2>8 DEF Dev!Decide, AccountsInv, Dev!TypeOK
    <3>2. Dev!Using(d, u) /\ (u \in admins \/ pushed'[o] = <<d, u>>)
      BY <2>8, <3>1 DEF Dev!Decide, Dev!Access
    <3> QED
      BY <2>1, <2>8, <3>2, UseStep DEF Dev!Decide
  <2> QED
    BY <1>2, <2>2, <2>3, <2>4, <2>5, <2>6, <2>7, <2>8 DEF Dev!Next
<1> QED
  BY <1>1, <1>2

----------------------------------------------------------------------------------
(* The theorems: a step of the servers is one of each part, or leaves it alone.   *)

LEMMA OfflineHolds == Servers => []OfflineInv
<1>1. ServersInit => OfflineInv
  BY OfflineInit, ServersAssumption DEF ServersInit
<1>2. OfflineInv /\ [ServersNext]_<<vars, lite, offline, accounts, part>> => OfflineInv'
  <2>1. [ServersNext]_<<vars, lite, offline, accounts, part>> => [Off!Next]_Off!vars
    BY DEF ServersNext, offline, Off!vars
  <2> QED
    BY <2>1, OfflineStep, ServersAssumption
<1> QED
  BY <1>1, <1>2, PTL DEF Servers

LEMMA AccountsHold == Servers => []AccountsInv
<1>1. ServersInit => AccountsInv
  BY AccountsInit, ServersAssumption DEF ServersInit
<1>2. AccountsInv /\ [ServersNext]_<<vars, lite, offline, accounts, part>> => AccountsInv'
  <2>1. [ServersNext]_<<vars, lite, offline, accounts, part>> => [Dev!Next]_Dev!vars
    BY DEF ServersNext, accounts, Dev!vars
  <2> QED
    BY <2>1, AccountsStep, ServersAssumption
<1> QED
  BY <1>1, <1>2, PTL DEF Servers

\* Rows, identities, statuses and versions of what is made offline, and the states of
\* stations and registrations, are well typed, for any operations, requests, quota and
\* accounts (apply_operation and register_device of app/api/sync.py).
THEOREM TypeCorrect == Servers => [](Off!TypeOK /\ Dev!TypeOK)
<1>1. OfflineInv /\ AccountsInv => Off!TypeOK /\ Dev!TypeOK
  BY DEF OfflineInv, AccountsInv
<1> QED
  BY <1>1, OfflineHolds, AccountsHold, PTL

\* However often and on however many operations stations send a record, and whatever
\* requests cross, it is made once (uq_sync_identity_client), and under its own name; two
\* guardians of one name and phone, two links of one student and guardian, or two active
\* enrolments of a student, come only of requests that made them at the same time: the
\* rules of _create_business_entity see every other rival.
THEOREM MadeOnce == Servers => []NamedOnce
<1>1. OfflineInv => Off!NamedOnce
  <2> SUFFICES ASSUME OfflineInv, NEW i \in DOMAIN rows, NEW j \in DOMAIN rows
               PROVE  /\ identity[NameOf(rows[i].by)] # 0
                      /\ NameOf(rows[i].by) = NameOf(rows[j].by) => i = j
    BY DEF Off!NamedOnce, NameOf
  <2> QED
    BY Facts DEF OfflineInv, RowsNamed
<1>2. OfflineInv => NamedOnce
  BY <1>1 DEF NamedOnce, OfflineInv
<1> QED
  BY <1>2, OfflineHolds, PTL

\* What refers to a student or a guardian by a number is made for the row of that number,
\* and what refers to one by a station's own name for the record that was created under it,
\* whatever other records are called (_create_business_entity, _resolve); and whoever has a
\* mark or a result made offline was enrolled in the class of the assessment, even if he
\* left between check and commit.
THEOREM HangsRight == Servers => []HangsOnTheNamed
<1>1. OfflineInv => Off!HangsOnTheNamed
  <2> SUFFICES ASSUME OfflineInv PROVE Off!HangsOnTheNamed
    OBVIOUS
  <2>1. ASSUME NEW t, NEW n, NEW i, Stands(t, n, i) PROVE Off!Meant(t, n, i)
    <3>1. i \in Off!RowsOf(t) /\ (IntOf[n] # 0 => i = IntOf[n])
      BY <2>1 DEF Stands
    <3>2. ASSUME IntOf[n] = 0 PROVE ClientId[rows[i].by] = n
      <4>1. <<t, n>> \in Off!Names /\ i = identity[<<t, n>>] /\ i # 0
        BY <2>1, <3>2, Facts DEF Stands, Off!RowsOf
      <4>2. NameOf(rows[i].by) = <<t, n>>
        BY <4>1, Facts DEF OfflineInv, NamesStand
      <4> QED
        BY <4>2 DEF NameOf
    <3> QED
      BY <3>1, <3>2 DEF Off!Meant
  <2>2. \A i \in DOMAIN rows : Refers(rows[i])
    BY DEF OfflineInv, RowsNamed, WellMade
  <2> QED
    BY <2>1, <2>2 DEF Off!HangsOnTheNamed, Refers, Off!NeedsStudent
<1>2. OfflineInv => Off!MarkedWereEnrolled
  BY DEF OfflineInv, RowsNamed, WellMade, WasEnrolled, Off!MarkedWereEnrolled, Off!RowsOf
<1>3. OfflineInv => HangsOnTheNamed
  BY <1>1, <1>2 DEF HangsOnTheNamed
<1> QED
  BY <1>3, OfflineHolds, PTL

\* However many registrations cross, an account that ever used a station without being an
\* administrator owns it, or pushed the operation that it decided (register_device,
\* _device_access and _operation_access of app/api/sync.py).
THEOREM StationKeepsItsAccount == Servers => []OneAccount
<1>1. AccountsInv => OneAccount
  BY DEF AccountsInv, OneAccount
<1> QED
  BY <1>1, AccountsHold, PTL
---------------------------------------------------------------------------------
(* The journal on SQLite                                                          *)

\* The theorems about SyncServer hold where nothing locks: on SQLite too an operation is
\* applied exactly when it was written once, and a settled status is final, if a client
\* does not send a call again while the server runs it.
THEOREM JournalOnSqlite == ASSUME ~Overlap PROVE Servers => LiteIsRight
<1>1. ServersInit => Lite!Init
  BY DEF ServersInit
<1>2. [ServersNext]_<<vars, lite, offline, accounts, part>> => [Lite!Next]_(Lite!vars)
  BY DEF ServersNext, lite, Lite!vars
<1>3. Lite!Spec => []Lite!JournalMatchesWrites
  BY Lite!JournalExact, ServersAssumption
<1>4. Lite!Spec => Lite!SettledIsFinal
  BY Lite!Settled, ServersAssumption
<1> QED BY <1>1, <1>2, <1>3, <1>4, PTL DEF Servers, LiteIsRight, Lite!Spec
==================================================================================
