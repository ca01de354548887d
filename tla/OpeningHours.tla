---------------------------- MODULE OpeningHours ----------------------------
(***************************************************************************)
(* The rows of `restaurant_hours`: the dashboard's page that loads a week, *)
(* fills in the days that have no row, changes a day and puts the whole    *)
(* week back (HoursPage.tsx), callers of the API that may send fewer days, *)
(* and replace_hours, a deletion and an insertion in one transaction       *)
(* (hours_service.py), as PostgreSQL runs overlapping ones: a DELETE sees  *)
(* the rows committed when it began, waits for rows another transaction    *)
(* is deleting, and one row per day is all the table admits.               *)
(***************************************************************************)
EXTENDS HoursAnswers, FiniteSets

CONSTANTS
  Editors, \* requests to replace the week, one each
  Entries, \* hours found or entered for a day
  Edits,   \* of these, what an editor may change a day to
  Default  \* what the page shows for a day without a row

ASSUME EditorsAssumption ==
  /\ Default \in Entries /\ Edits \subseteq Entries
  /\ Entries \subseteq {Closed} \cup {Hours(o, c) : o \in Minute, c \in Minute}

Nobody == "nobody" \* wrote the rows that were there at the start

VARIABLES
  week,   \* committed: the entry of each day, Missing if there is no row
  by,     \* committed: whose request wrote the row of each day
  editor, \* each request: its page and its transaction
  partial \* history: a request that leaves days out was sent

vars == <<week, by, editor, partial>>

Weeks == [Day -> Entries \cup {Missing}]
NoWeek == [d \in Day |-> Missing]
Rows(w) == {d \in Day : w[d].row}

NoRequest == [at |-> "idle", loaded |-> NoWeek, edited |-> {}, draft |-> NoWeek,
              seen |-> {}, locked |-> {}]

\* The days whose rows another transaction has deleted or inserted and not committed.
LockedByOthers(e) == UNION {editor[f].locked : f \in Editors \ {e}}

-----------------------------------------------------------------------------
(* The page, and other clients of the API.                                  *)

\* (mutant: the rows are laid over the default week in the order they come)
Merge_ByPosition(w) ==
  [d \in Day |->
     LET placed == {r \in Rows(w) : Cardinality({s \in Rows(w) : s < r}) = d}
     IN IF placed = {} THEN Default ELSE w[CHOOSE r \in placed : TRUE]]

\* The page's week: the rows there are, laid over nine to five.
Merge(w) == [d \in Day |-> IF w[d].row THEN w[d] ELSE Default]

\* A request yet to be sent: a week laid out over what was loaded.
Page(edited, draft) ==
  [at |-> "page", loaded |-> week, edited |-> edited, draft |-> draft, seen |-> {},
   locked |-> {}]

\* The page is opened, and a day of it is changed.
Load(e, day, entry) ==
  /\ editor[e].at = "idle"
  /\ editor' = [editor EXCEPT ![e] = Page({day}, [Merge(week) EXCEPT ![day] = entry])]
  /\ UNCHANGED <<week, by, partial>>

\* Any week can be sent to the API, with as few days as its sender likes.
Send(e, day, entry) ==
  /\ editor[e].at = "idle"
  /\ editor' = [editor EXCEPT ![e] = Page(Day, [NoWeek EXCEPT ![day] = entry])]
  /\ partial' = TRUE
  /\ UNCHANGED <<week, by>>

-----------------------------------------------------------------------------
(* replace_hours.                                                           *)

\* The DELETE begins: it will look at the rows committed now.
BeginDelete(e) ==
  /\ editor[e].at = "page"
  /\ editor' = [editor EXCEPT ![e].at = "delete",
                              ![e].seen = {<<d, by[d]>> : d \in Rows(week)}]
  /\ UNCHANGED <<week, by, partial>>

\* The rows it saw that are still there are its own to delete, once nobody holds them.
Delete(e) ==
  /\ editor[e].at = "delete"
  /\ LET mine == {d \in Rows(week) : <<d, by[d]>> \in editor[e].seen} IN
       /\ mine \cap LockedByOthers(e) = {}
       /\ editor' = [editor EXCEPT ![e].at = "insert", ![e].locked = mine]
  /\ UNCHANGED <<week, by, partial>>

\* The rows in the way of an insertion: committed, and not deleted by this transaction.
InTheWay(e) == (Rows(editor[e].draft) \cap Rows(week)) \ editor[e].locked

\* (mutant: ON CONFLICT DO NOTHING)
Insert_SkipsTaken(e) ==
  /\ editor[e].at = "insert"
  /\ Rows(editor[e].draft) \cap LockedByOthers(e) = {}
  /\ editor' = [editor EXCEPT ![e].at = "commit",
                              ![e].locked = @ \cup (Rows(editor[e].draft) \ InTheWay(e))]
  /\ UNCHANGED <<week, by, partial>>

\* The INSERT waits for whoever is deleting or inserting a row of the same day.
Insert(e) ==
  /\ editor[e].at = "insert"
  /\ Rows(editor[e].draft) \cap LockedByOthers(e) = {}
  /\ InTheWay(e) = {}
  /\ editor' = [editor EXCEPT ![e].at = "commit",
                              ![e].locked = @ \cup Rows(editor[e].draft)]
  /\ UNCHANGED <<week, by, partial>>

\* (mutant: the failed transaction is not rolled back)
Refused_LeftOpen(e) ==
  /\ editor[e].at \in {"delete", "insert", "commit"}
  /\ editor' = [editor EXCEPT ![e].at = "refused"]
  /\ UNCHANGED <<week, by, partial>>

\* uq_restaurant_day, or a failure of the database or a deadlock it breaks: get_db_session
\* rolls the transaction back and the request is answered with an error.
Refused(e) ==
  /\ editor[e].at \in {"delete", "insert", "commit"}
  /\ editor' = [editor EXCEPT ![e].at = "refused", ![e].locked = {}]
  /\ UNCHANGED <<week, by, partial>>

RefusedByIndex(e) == editor[e].at = "insert" /\ InTheWay(e) # {} /\ Refused(e)

\* get_db_session commits.  Under the pinned FastAPI the answer has gone out by then, and
\* the page already says "Saved."
Commit(e) ==
  /\ editor[e].at = "commit"
  /\ LET mine == editor[e].locked IN
       /\ week' = [d \in Day |-> IF d \in mine THEN editor[e].draft[d] ELSE week[d]]
       /\ by' = [d \in Day |-> IF d \in mine THEN e ELSE by[d]]
  /\ editor' = [editor EXCEPT ![e].at = "saved", ![e].locked = {}]
  /\ UNCHANGED partial

Init ==
  /\ week \in Weeks
  /\ by = [d \in Day |-> Nobody]
  /\ editor = [e \in Editors |-> NoRequest]
  /\ partial = FALSE

Step(e) == BeginDelete(e) \/ Delete(e) \/ Insert(e) \/ RefusedByIndex(e) \/ Commit(e)

Next ==
  \E e \in Editors :
    \/ \E day \in Day, entry \in Edits : Load(e, day, entry) \/ Send(e, day, entry)
    \/ Step(e)
    \/ Refused(e)

Spec == Init /\ [][Next]_vars

\* A request that was sent goes on as soon as the database lets it.
FairSpec == Spec /\ \A e \in Editors : WF_vars(Step(e))

-----------------------------------------------------------------------------
(* Properties.                                                              *)

\* Every variable keeps its type, and rows are held only inside a transaction.
TypeOK ==
  /\ week \in Weeks
  /\ by \in [Day -> Editors \cup {Nobody}]
  /\ editor \in [Editors -> [at : {"idle", "page", "delete", "insert", "commit", "saved",
                                   "refused"},
                             loaded : Weeks, edited : SUBSET Day, draft : Weeks,
                             seen : SUBSET (Day \X (Editors \cup {Nobody})),
                             locked : SUBSET Day]]
  /\ \A e \in Editors :
       editor[e].at \in {"idle", "page", "delete", "saved", "refused"} => editor[e].locked = {}
  /\ partial \in BOOLEAN

\* No two transactions hold a row of the same day (row locks, uq_restaurant_day).
HeldOnce ==
  \A e, f \in Editors : e # f => editor[e].locked \cap editor[f].locked = {}

\* When the request that saves a week commits, that week is what callers hear: nothing of
\* the one before and nothing of one saved meanwhile -- as long as whole weeks are sent
\* (replace_hours: "always submitted as a complete week").
SavedMeansSaved ==
  [][\A e \in Editors :
       editor[e].at = "commit" /\ editor'[e].at = "saved" /\ ~partial
         => week' = editor[e].draft]_vars

\* Saving the page changes the day that was edited and no other, except one that had no
\* row or that someone else has changed since the page was opened (HoursPage.tsx).
OnlyTheEditChanges ==
  [][\A e \in Editors, d \in Day :
       /\ editor[e].at = "commit" /\ editor'[e].at = "saved"
       /\ d \notin editor[e].edited /\ week'[d] # week[d]
       => ~editor[e].loaded[d].row \/ week[d] # editor[e].loaded[d]]_vars

\* Nobody is told that the door is open when it is not, and nobody who asks while it is
\* open is told anything else, except while it is open past midnight: a closing time past
\* midnight compares as earlier than the opening time, and the entry of the day before is
\* not looked at.  But for that time, whoever is told "open now" finds it open until the
\* minute named, and a shut door opens again at the very next time it does: today, tomorrow
\* or after the end of the week.  Nothing is known exactly when it never opens
\* (answer_open_now, _next_open_day).
OpenNowIsRight ==
  \A d \in Day, m \in Minute :
    LET answer == AnswerOpenNow(week, d, m)
        now == d * Minutes + m IN
      /\ answer.kind = "open_now" => OpenAt(week, now)
      /\ OpenAt(week, now) => answer.kind = "open_now" \/ OpenPastMidnight(week, now)
      /\ answer.kind = "unknown" <=> NeverOpen(week)
      /\ ~OpenPastMidnight(week, now) =>
           /\ answer.kind = "open_now" =>
                /\ \A r \in m .. answer.closing - 1 : OpenAt(week, d * Minutes + r)
                /\ ~OpenAt(week, d * Minutes + answer.closing)
           /\ answer.kind = "open_later" => WaitFrom(week, now) = answer.opening - m
           /\ answer.kind \in {"closed_today", "closed_tonight"} =>
                WaitFrom(week, now) = answer.offset * Minutes + answer.opening - m

\* The three answers, each found on its own, tell one story of any week at any time: the
\* same closing time tonight, shut today or not, and open tomorrow at the time the door is
\* said to open again (answer_open_now, answer_hours_tomorrow, answer_closing_time_tonight).
AnswersTellOneStory ==
  \A d \in Day, m \in Minute :
    LET now == AnswerOpenNow(week, d, m)
        tomorrow == AnswerHoursTomorrow(week, d)
        tonight == AnswerClosingTimeTonight(week, d) IN
      /\ now.kind \in {"open_now", "open_later"} =>
           tonight.kind = "closes" /\ tonight.closing = now.closing
      /\ now.kind = "closed_tonight" => tonight.kind = "closes"
      /\ now.kind \in {"closed_today", "unknown"} => tonight.kind = "closed"
      /\ now.kind \in {"closed_today", "closed_tonight"} =>
           /\ now.offset = 1 <=> tomorrow.kind = "open"
           /\ tomorrow.kind = "open" => tomorrow.opening = now.opening
      /\ now.kind = "unknown" => tomorrow.kind # "open"

\* The summary names every day once, in order, shut or with the hours of that day's own
\* entry, and as few stretches as will do (format_hours_summary).
SummaryIsRight ==
  LET groups == Groups(week) IN
    /\ groups[1].first = 0 /\ groups[Len(groups)].last = WeekLen - 1
    /\ \A g \in 1 .. Len(groups) - 1 :
         /\ groups[g + 1].first = groups[g].last + 1
         /\ ~SameHours(week[groups[g].last], week[groups[g + 1].first])
    /\ \A g \in DOMAIN groups, d \in Day :
         d \in groups[g].first .. groups[g].last =>
           /\ groups[g].key.open <=> IsOpenOn(week[d])
           /\ groups[g].key.open => /\ groups[g].key.opening = week[d].opening
                                   /\ groups[g].key.closing = week[d].closing

\* The answers agree with the week and with each other, but for the one time they are known
\* not to: while the door is open past midnight.
AnswersAreRight == OpenNowIsRight /\ AnswersTellOneStory /\ SummaryIsRight

\* Every request to save is answered: transactions that wait for each other's rows all
\* come to an end (replace_hours, get_db_session).
EveryRequestEnds ==
  \A e \in Editors : editor[e].at = "page" ~> editor[e].at \in {"saved", "refused"}
=============================================================================
