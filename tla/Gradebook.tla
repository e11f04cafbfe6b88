-------------------------------- MODULE Gradebook --------------------------------
(* The marks, the bulletins and the honor board of a class in a period:           *)
(* app/api/academic.py (notes), app/api/evaluation.py (results of activities,     *)
(* closing and publishing a period), app/api/honor_board.py, their engines, and   *)
(* what the synchronisation applies to notes and results (app/services/sync.py).  *)
(*                                                                                *)
(* A request reads, checks and computes in its own session (its Read action) and  *)
(* writes with one commit; others run in between.  A commit updates the columns   *)
(* that are not what the session had loaded, and fails on a unique index or on a  *)
(* row that is gone.                                                              *)
EXTENDS Integers, FiniteSets, FiniteSetsExt

CONSTANTS
  Requests,
  Students,     \* ids
  Activities,   \* assessments, or evaluation activities
  Weight,       \* [Activities -> Nat \ {0}]: coefficients
  Scores,       \* what an entry sets: out of 20, or None
  Starts,       \* tables of marks that the period may be observed from
  Batches,      \* the sets of students whose marks one call enters or moves
  Minima,       \* minimal averages that the rule of the honor board asks for
  Schools,      \* the sets of tools that a school uses
  MaxCalls,     \* [Schools -> Nat], bound: requests
  NoRow

Kinds == {"note", "result"}
Sheets == Kinds \X Activities    \* the marks of one assessment or activity
Tools == {"notes", "results", "board"}
None == -1     \* the score of an absent student, the average of one without scores

\* draft, submitted, checked, validated, locked, published
States == 0..5
Draft == 0
Validated == 3
Locked == 4
Published == 5

VARIABLES
  uses,        \* the tools of this school
  mark,        \* mark[sheet][s]: the note or result of student s
  strayVersion,\* the version row "None" of results exists
  closure,     \* "open": no row
  member,      \* active members of the class
  card,        \* card[s]: bulletin of s
  board,       \* board[s]: entry of s on the honor board
  rule,        \* rule of the board: minimal average, and is_active
  edition,     \* honor boards generated so far
  calls,       \* requests so far
  overlapped,  \* history: two requests have been under way at once
  work         \* work[r]: what request r has in its session

vars == <<uses, mark, strayVersion, closure, member, card, board, rule, edition, calls,
          overlapped, work>>

Marks == [score : Nat \cup {None}, state : States]
Averages == Nat \cup {None}
Cards == [avg : Averages, rank : 0..Cardinality(Students), shown : BOOLEAN]
Entries == [edition : Nat, score : Nat, rank : 1..Cardinality(Students),
            valid : BOOLEAN]

ASSUME GradebookAssumption ==
  /\ IsFiniteSet(Students) /\ Students \subseteq Nat /\ IsFiniteSet(Activities)
  /\ Weight \in [Activities -> Nat \ {0}]
  /\ Scores \subseteq Nat \cup {None} /\ Minima \subseteq Nat
  /\ Starts \subseteq [Sheets -> [Students -> Marks \cup {NoRow}]]
  /\ Batches \subseteq SUBSET Students
  /\ Schools \subseteq SUBSET Tools
  /\ MaxCalls \in [Schools -> Nat]
  /\ NoRow \notin Marks \cup Cards \cup Entries

Empty == [x \in {} |-> NoRow]
Idle == [op |-> "none", sheet |-> NoRow, old |-> Empty, new |-> Empty, seen |-> "open"]

TypeOK ==
  /\ uses \in Schools
  /\ mark \in [Sheets -> [Students -> Marks \cup {NoRow}]]
  /\ strayVersion \in BOOLEAN
  /\ closure \in {"open", "closed", "published"}
  /\ member \subseteq Students
  /\ card \in [Students -> Cards \cup {NoRow}]
  /\ board \in [Students -> Entries \cup {NoRow}]
  /\ rule \in [min : Minima, active : BOOLEAN]
  /\ edition \in Nat /\ calls \in 0..MaxCalls[uses]
  /\ overlapped \in BOOLEAN
  /\ \A r \in Requests :
       /\ work[r].sheet \in Sheets \cup {NoRow}
       /\ DOMAIN work[r].old \subseteq DOMAIN work[r].new
       /\ DOMAIN work[r].new \subseteq Students

Init ==
  /\ uses \in Schools
  /\ mark \in Starts
  /\ strayVersion = FALSE
  /\ closure = "open"
  /\ member = Students
  /\ card = [s \in Students |-> NoRow]
  /\ board = [s \in Students |-> NoRow]
  /\ rule \in [min : Minima, active : {TRUE}]
  /\ edition = 0 /\ calls = 0
  /\ overlapped = FALSE
  /\ work = [r \in Requests |-> Idle]

---------------------------------------------------------------------------------
(* Sessions                                                                      *)

\* A request that read and checked: new is what it will write, old what it loaded.
Session(op, sheet, old, new) ==
  [op |-> op, sheet |-> sheet, old |-> old, new |-> new, seen |-> closure]

Begin(r, session) ==
  /\ work[r].op = "none"
  /\ calls < MaxCalls[uses]
  /\ calls' = calls + 1
  /\ work' = [work EXCEPT ![r] = session]
  /\ overlapped' = (overlapped \/ \E q \in Requests : work[q].op # "none")
  /\ UNCHANGED <<uses, mark, strayVersion, closure, member, card, board, rule, edition>>

End(r) == work' = [work EXCEPT ![r] = Idle]
Ready(r, op) == work[r].op = op

Loaded(table, S) == [x \in S |-> table[x]]

\* The UPDATE of a row sets the columns that are not what the session had loaded.
MergeRow(row, old, new) ==
  [column \in DOMAIN new |-> IF new[column] # old[column] THEN new[column] ELSE row[column]]

Written(table, old, new) ==
  [x \in DOMAIN table |->
     CASE x \notin DOMAIN new -> table[x]
       [] x \in DOMAIN new /\ old[x] = NoRow -> new[x]
       [] OTHER -> MergeRow(table[x], old[x], new[x])]

\* A row that was to be inserted exists: its unique index refuses it.
Duplicate(table, w) == \E x \in DOMAIN w.new : w.old[x] = NoRow /\ table[x] # NoRow

Save(table, r) == Written(table, work[r].old, work[r].new)
Saves(table, r) == ~Duplicate(table, work[r])

---------------------------------------------------------------------------------
(* Averages and ranks                                                            *)

Final(row) == row # NoRow /\ row.state >= Validated /\ row.score # None

\* row has a mark for each activity; only those that are final weigh.
SumOf(f, S) == MapThenSumSet(LAMBDA a : f[a], S)
Mean(row) ==
  LET counted == {a \in Activities : Final(row[a])}
      points == [a \in counted |-> row[a].score * Weight[a]]
  IN IF counted = {} THEN None ELSE SumOf(points, counted) \div SumOf(Weight, counted)

Average(k, s) == Mean([a \in Activities |-> mark[<<k, a>>][s]])

Ranked(k, S) == {s \in S : Average(k, s) # None}

\* compute_class_ranking: equal averages follow the ids.
PlainRank(k, S, s) ==
  1 + Cardinality({t \in S : \/ Average(k, t) > Average(k, s)
                             \/ Average(k, t) = Average(k, s) /\ t < s})

\* Students with the same average share the position of the first of them.
SharedRank_ById(k, S, s) == PlainRank(k, S, s)
SharedRank_OfLast(k, S, s) == 1 + Cardinality({t \in S : Average(k, t) >= Average(k, s)})
SharedRank(k, S, s) == 1 + Cardinality({t \in S : Average(k, t) > Average(k, s)})

---------------------------------------------------------------------------------
(* Marks                                                                         *)

Closed == closure \in {"closed", "published"}
Entered(sheet, b) == {s \in b : mark[sheet][s] # NoRow}
InState(sheet, b, states) == {s \in Entered(sheet, b) : mark[sheet][s].state \in states}

\* upsert_results looks at the closure, upsert_grades at the state "locked".
MayEnterOnline(sheet, b) ==
  /\ sheet[1] = "result" => ~Closed
  /\ sheet[1] = "note" => InState(sheet, b, {Locked}) = {}

\* The synchronisation refuses both once the period is closed, and a note once it is
\* locked.  It creates results; its update of one fails, for want of a school_id.
MayEnterOffline(sheet, b) ==
  /\ ~Closed
  /\ Cardinality(b) = 1
  /\ sheet[1] = "result" => Entered(sheet, b) = {}
  /\ sheet[1] = "note" => InState(sheet, b, {Locked, Published}) = {}

\* A mark is created as a draft, offline as a draft or submitted; its state stays.
EnterRead(r, sheet, b, score, state, online) ==
  /\ IF sheet[1] = "note" THEN "notes" \in uses ELSE "results" \in uses
  /\ b \subseteq member
  /\ IF online THEN MayEnterOnline(sheet, b) ELSE MayEnterOffline(sheet, b)
  /\ state # Draft => ~online /\ sheet[1] = "note" /\ Entered(sheet, b) = {}
  /\ Begin(r, Session(IF online THEN "enter" ELSE "sync", sheet, Loaded(mark[sheet], b),
               [s \in b |-> [score |-> score,
                             state |-> IF s \in Entered(sheet, b) THEN mark[sheet][s].state
                                       ELSE state]]))

\* Upsert_results gives each new result the version row of the id "None": two new ones
\* in a call insert it twice, unless an earlier call did.
NewRows(r) == {s \in DOMAIN work[r].new : work[r].old[s] = NoRow}
NewResults(r) == IF Ready(r, "enter") /\ work[r].sheet[1] = "result" THEN NewRows(r) ELSE {}
VersionClash(r) == ~strayVersion /\ Cardinality(NewResults(r)) > 1

EnterCommit(r) ==
  LET sheet == work[r].sheet IN
  /\ work[r].op \in {"enter", "sync"}
  /\ Saves(mark[sheet], r) /\ ~VersionClash(r)
  /\ mark' = [mark EXCEPT ![sheet] = Save(@, r)]
  /\ strayVersion' = (strayVersion \/ NewResults(r) # {})
  /\ End(r)
  /\ UNCHANGED <<uses, closure, member, card, board, rule, edition, calls, overlapped>>

\* transition_grades, transition_evaluation_results and the synchronised transition:
\* the next state for every row of the call, while the period is open.
MayMove_Closed(sheet, b, to) == b = InState(sheet, b, {to - 1})
MayMove(sheet, b, to) == ~Closed /\ b = InState(sheet, b, {to - 1})

MoveRead(r, sheet, S, to) ==
  LET b == Entered(sheet, S) IN
  /\ b # {}
  /\ MayMove(sheet, b, to)
  /\ Begin(r, Session("move", sheet, Loaded(mark[sheet], b),
               [s \in b |-> [mark[sheet][s] EXCEPT !.state = to]]))

MoveCommit(r) ==
  /\ Ready(r, "move")
  /\ mark' = [mark EXCEPT ![work[r].sheet] = Save(@, r)]
  /\ End(r)
  /\ UNCHANGED <<uses, strayVersion, closure, member, card, board, rule, edition, calls, overlapped>>

\* The student leaves the class (left_at).
Leave(s) ==
  /\ s \in member
  /\ member' = member \ {s}
  /\ UNCHANGED <<uses, mark, strayVersion, closure, card, board, rule, edition, calls, overlapped, work>>

---------------------------------------------------------------------------------
(* Bulletins                                                                     *)

MayClose_Again == TRUE
MayClose == ~Closed

\* finalize_class_period: a bulletin for every member, ranked if the call asks for it.
CloseRead(r, withRank) ==
  LET S == Ranked("result", member) IN
  /\ "results" \in uses
  /\ MayClose
  /\ Begin(r, Session("close", NoRow, Loaded(card, member),
               [s \in member |-> [avg |-> Average("result", s), shown |-> FALSE,
                                  rank |-> IF withRank /\ s \in S
                                           THEN SharedRank("result", S, s) ELSE 0]]))

\* One closure row per class and period.
SecondClosure(r) == work[r].seen = "open" /\ closure # "open"

CloseCommit(r) ==
  /\ Ready(r, "close")
  /\ ~SecondClosure(r) /\ Saves(card, r)
  /\ closure' = "closed"
  /\ card' = Save(card, r)
  /\ End(r)
  /\ UNCHANGED <<uses, mark, strayVersion, member, board, rule, edition, calls, overlapped>>

\* publish_class_period: shows or hides every bulletin of the class.
HasCard == {s \in Students : card[s] # NoRow}

PublishRead(r, shown) ==
  /\ Closed
  /\ Begin(r, Session(IF shown THEN "publish" ELSE "hide", NoRow, Loaded(card, HasCard),
               [s \in HasCard |-> [card[s] EXCEPT !.shown = shown]]))

PublishCommit(r) ==
  LET to == IF Ready(r, "publish") THEN "published" ELSE "closed" IN
  /\ work[r].op \in {"publish", "hide"}
  /\ card' = Save(card, r)
  /\ closure' = IF to # work[r].seen THEN to ELSE closure
  /\ End(r)
  /\ UNCHANGED <<uses, mark, strayVersion, member, board, rule, edition, calls, overlapped>>

\* generate_report_cards: the bulletins of notes, with a rank of its own for each.
GenerateRead(r) ==
  LET S == Ranked("note", member) IN
  /\ "notes" \in uses
  /\ Begin(r, Session("generate", NoRow, Loaded(card, S),
               [s \in S |-> [avg |-> Average("note", s), rank |-> PlainRank("note", S, s),
                             shown |-> card[s] # NoRow /\ card[s].shown]]))

GenerateCommit(r) ==
  /\ work[r].op \in {"generate", "show"}
  /\ Saves(card, r)
  /\ card' = Save(card, r)
  /\ End(r)
  /\ UNCHANGED <<uses, mark, strayVersion, closure, member, board, rule, edition, calls, overlapped>>

\* publish_report_card
ShowRead(r, s) ==
  /\ s \in HasCard
  /\ Begin(r, Session("show", NoRow, Loaded(card, {s}), [t \in {s} |-> [card[s] EXCEPT !.shown = TRUE]]))

---------------------------------------------------------------------------------
(* Honor board                                                                   *)

OnBoard == {s \in Students : board[s] # NoRow}
ValidEntries == {s \in OnBoard : board[s].valid}

\* calculate_entries
Honored(s) == s \in member /\ Average("note", s) # None /\ Average("note", s) >= rule.min
HonorList == {s \in Students : Honored(s)}

MayGenerate_Always == TRUE
MayGenerate == ValidEntries = {}

BoardRead(r) ==
  /\ "board" \in uses
  /\ MayGenerate
  /\ Begin(r, Session("board", NoRow, Empty,
               [s \in HonorList |-> [edition |-> 0, score |-> Average("note", s),
                                     rank |-> SharedRank("note", HonorList, s), valid |-> FALSE]]))

\* DELETE ... WHERE NOT is_validated, and the insertion of the new entries.
Kept_All == {}
Kept == ValidEntries

BoardCommit(r) ==
  LET new == work[r].new IN
  /\ Ready(r, "board")
  /\ DOMAIN new \cap Kept = {}
  /\ board' = [s \in Students |->
       CASE s \in DOMAIN new -> [new[s] EXCEPT !.edition = edition + 1]
         [] s \in Kept -> board[s]
         [] OTHER -> NoRow]
  /\ edition' = edition + 1
  /\ End(r)
  /\ UNCHANGED <<uses, mark, strayVersion, closure, member, card, rule, calls, overlapped>>

\* validate_entry, or validate_rule for all that wait.
ValidateRead(r, S) ==
  /\ S \subseteq OnBoard
  /\ \/ \E s \in S : S = {s}
     \/ S = OnBoard \ ValidEntries /\ S # {}
  /\ Begin(r, Session("validate", NoRow, Loaded(board, S),
               [s \in S |-> [board[s] EXCEPT !.valid = TRUE]]))

\* A row that was replaced since is not found by the UPDATE: the commit fails.
ValidateCommit(r) ==
  LET old == work[r].old IN
  /\ Ready(r, "validate")
  /\ \A s \in DOMAIN old : board[s] # NoRow /\ board[s].edition = old[s].edition
  /\ board' = Save(board, r)
  /\ End(r)
  /\ UNCHANGED <<uses, mark, strayVersion, closure, member, card, rule, edition, calls, overlapped>>

\* update_rule and deactivate_rule, each refused once an entry is validated.
RuleRead(r, op) ==
  /\ "board" \in uses
  /\ op = "update" => rule.active
  /\ ValidEntries = {}
  /\ Begin(r, Session(op, NoRow, Empty, Empty))

RuleCommit(r, min) ==
  /\ work[r].op \in {"update", "deactivate"}
  /\ rule' = IF Ready(r, "update") THEN [rule EXCEPT !.min = min]
             ELSE [rule EXCEPT !.active = FALSE]
  /\ End(r)
  /\ UNCHANGED <<uses, mark, strayVersion, closure, member, card, board, edition, calls, overlapped>>

---------------------------------------------------------------------------------

\* Refused by an index, by a row that is gone, or by a failure: nothing is written.
Abort(r) ==
  /\ work[r].op # "none"
  /\ End(r)
  /\ UNCHANGED <<uses, mark, strayVersion, closure, member, card, board, rule, edition, calls, overlapped>>

Read(r) ==
  \/ \E sheet \in Sheets, b \in Batches, score \in Scores, state \in {0, 1},
        online \in BOOLEAN : EnterRead(r, sheet, b, score, state, online)
  \/ \E sheet \in Sheets, b \in Batches, to \in States : MoveRead(r, sheet, b, to)
  \/ \E withRank \in BOOLEAN : CloseRead(r, withRank)
  \/ \E shown \in BOOLEAN : PublishRead(r, shown)
  \/ GenerateRead(r)
  \/ \E s \in Students : ShowRead(r, s)
  \/ BoardRead(r)
  \/ \E S \in SUBSET Students : ValidateRead(r, S)
  \/ \E op \in {"update", "deactivate"} : RuleRead(r, op)

Commit(r) ==
  \/ EnterCommit(r)
  \/ MoveCommit(r)
  \/ CloseCommit(r)
  \/ PublishCommit(r)
  \/ GenerateCommit(r)
  \/ BoardCommit(r)
  \/ ValidateCommit(r)
  \/ \E min \in Minima : RuleCommit(r, min)

Next ==
  \/ \E r \in Requests : Read(r) \/ Commit(r) \/ Abort(r)
  \/ \E s \in Students : Leave(s)

Spec == Init /\ [][Next]_vars

---------------------------------------------------------------------------------
(* Properties                                                                    *)

\* In a school that evaluates by activities and whose requests do not cross, a
\* published bulletin shows the average of the results that are validated now: nothing
\* reaches them after the period was closed, by any of the ways in.
PublishedBulletinIsRight ==
  uses = {"results"} /\ ~overlapped =>
    \A s \in HasCard : card[s].shown => card[s].avg = Average("result", s)

\* Bulletins of a closing rank higher averages first and equal averages alike,
\* however the calls cross.
RanksFollowAverages ==
  uses = {"results"} =>
    \A s, t \in {s \in HasCard : card[s].rank > 0} :
      card[s].rank < card[t].rank <=> card[s].avg > card[t].avg

\* However the calls cross, the bulletins of a closed period are not computed again.
ClosedOnce ==
  [][uses = {"results"} /\ Closed =>
       \A s \in HasCard : card'[s] # NoRow /\ card'[s].avg = card[s].avg
                            /\ card'[s].rank = card[s].rank]_vars

\* However the calls cross, a validated entry of the honor board stays as it is.
ValidatedKept == [][\A s \in ValidEntries : board'[s] = board[s]]_vars

\* If requests do not cross, the entries of the board come from one computation:
\* their ranks agree with their scores.
BoardIsOneList ==
  ~overlapped =>
    \A s, t \in OnBoard : board[s].rank < board[t].rank <=> board[s].score > board[t].score

\* Ranks agree with the averages and scores beside them.
ListsAgree == RanksFollowAverages /\ BoardIsOneList

\* However the calls cross, what was made final stays: the bulletins of a closed period and
\* the validated entries of the board.
FinalStays == ClosedOnce /\ ValidatedKept

\* A note that was published keeps its score.
PublishedNoteKept ==
  [][\A a \in Activities : \A s \in InState(<<"note", a>>, Students, {Published}) :
       mark'[<<"note", a>>][s] = mark[<<"note", a>>][s]]_vars
==================================================================================
