------------------------- MODULE OpeningHoursProofs -------------------------
(***************************************************************************)
(* Proofs about OpeningHours, for any number of overlapping requests, any  *)
(* hours and any length of the week.  A transaction that is about to       *)
(* commit holds every day of the week it writes, and no day is held twice: *)
(* that is what makes the last commit the whole truth.                     *)
(***************************************************************************)
EXTENDS OpeningHours, TLAPS, WellFoundedInduction

Holding == {"insert", "commit"}

\* A transaction about to commit holds the days it has put rows for.
InsertsAreHeld ==
  \A e \in Editors : editor[e].at = "commit" => Rows(editor[e].draft) \subseteq editor[e].locked

\* A week that came from the page is complete.
PagesAreWhole ==
  ~partial => \A e \in Editors : editor[e].at # "idle" => Rows(editor[e].draft) = Day

\* Of the days it was loaded with, a page has changed only those edited.
DraftsFollowPages ==
  \A e \in Editors, d \in Day :
    editor[e].at # "idle" /\ d \notin editor[e].edited /\ editor[e].loaded[d].row =>
      editor[e].draft[d] = editor[e].loaded[d]

\* The inductive invariant.
IInv ==
  /\ TypeOK
  /\ HeldOnce
  /\ InsertsAreHeld
  /\ PagesAreWhole
  /\ DraftsFollowPages

Places == {"idle", "page", "delete", "insert", "commit", "saved", "refused"}
Requests ==
  [at : Places, loaded : Weeks, edited : SUBSET Day, draft : Weeks,
   seen : SUBSET (Day \X (Editors \cup {Nobody})), locked : SUBSET Day]

-----------------------------------------------------------------------------
\* Every entry is a row, and a day without one is not.
LEMMA EntriesAreRows ==
  /\ \A entry \in Entries : entry.row
  /\ ~Missing.row
  /\ Default \in Entries
  /\ Edits \subseteq Entries
  /\ NoWeek \in Weeks
<1>1. \A entry \in Entries : entry.row
  BY EditorsAssumption DEF Closed, Hours
<1>2. QED
  BY <1>1, EditorsAssumption DEF Missing, NoWeek, Weeks

\* The page's week has a row for every day, and keeps the rows there were.
LEMMA MergedWeek ==
  ASSUME NEW w \in Weeks
  PROVE  /\ Merge(w) \in [Day -> Entries]
         /\ \A d \in Day : w[d].row => Merge(w)[d] = w[d]
<1>1. \A d \in Day : w[d].row => w[d] \in Entries
  BY EntriesAreRows DEF Weeks
<1>2. QED
  BY <1>1, EntriesAreRows DEF Merge

\* A step that changes one request, in place and locks only.
LEMMA InPlace ==
  ASSUME IInv, NEW e \in Editors, NEW r \in Requests, editor[e].at # "idle",
         editor' = [editor EXCEPT ![e] = r],
         UNCHANGED partial, week' \in Weeks, by' \in [Day -> Editors \cup {Nobody}],
         r.loaded = editor[e].loaded, r.edited = editor[e].edited,
         r.draft = editor[e].draft,
         r.at \in {"idle", "page", "delete", "saved", "refused"} => r.locked = {},
         r.at = "commit" => Rows(r.draft) \subseteq r.locked,
         \A f \in Editors \ {e} : r.locked \cap editor[f].locked = {}
  PROVE  IInv'
<1>1. editor \in [Editors -> Requests]
  BY DEF IInv, TypeOK, Requests, Places
<1>2. /\ editor' \in [Editors -> Requests]
      /\ editor'[e] = r
      /\ \A f \in Editors \ {e} : editor'[f] = editor[f]
  BY <1>1
<1>3. \A f \in Editors :
        editor'[f].at \in {"idle", "page", "delete", "saved", "refused"} => editor'[f].locked = {}
  BY <1>2 DEF IInv, TypeOK
<1>4. TypeOK'
  BY <1>2, <1>3 DEF IInv, TypeOK, Requests, Places, Weeks
<1>5. HeldOnce'
  BY <1>2 DEF IInv, HeldOnce
<1>6. InsertsAreHeld' /\ PagesAreWhole' /\ DraftsFollowPages'
  BY <1>2 DEF IInv, InsertsAreHeld, PagesAreWhole, DraftsFollowPages, Rows
<1>7. QED
  BY <1>4, <1>5, <1>6 DEF IInv

LEMMA InitIInv == Init => IInv
<1> SUFFICES ASSUME Init PROVE IInv
  OBVIOUS
<1>1. TypeOK
  BY EntriesAreRows DEF Init, TypeOK, NoRequest
<1>2. QED
  BY <1>1 DEF Init, IInv, HeldOnce, InsertsAreHeld, PagesAreWhole, DraftsFollowPages, NoRequest

\* A request that is new: a week is laid out, nothing is held.
LEMMA NewRequestKeeps ==
  ASSUME IInv, NEW e \in Editors, NEW r \in Requests, editor[e].at = "idle",
         editor' = [editor EXCEPT ![e] = r], UNCHANGED <<week, by>>,
         partial' \in BOOLEAN, partial => partial',
         r.at = "page", r.locked = {},
         ~partial' => Rows(r.draft) = Day,
         \A d \in Day : d \notin r.edited /\ r.loaded[d].row => r.draft[d] = r.loaded[d]
  PROVE  IInv'
<1>1. editor \in [Editors -> Requests]
  BY DEF IInv, TypeOK, Requests, Places
<1>2. /\ editor' \in [Editors -> Requests]
      /\ editor'[e] = r
      /\ \A f \in Editors \ {e} : editor'[f] = editor[f]
  BY <1>1
<1>3. TypeOK'
  BY <1>2 DEF IInv, TypeOK, Requests, Places, Weeks
<1>4. HeldOnce'
  BY <1>2 DEF IInv, HeldOnce
<1>5. InsertsAreHeld' /\ PagesAreWhole' /\ DraftsFollowPages'
  BY <1>2 DEF IInv, InsertsAreHeld, PagesAreWhole, DraftsFollowPages, Rows
<1>6. QED
  BY <1>3, <1>4, <1>5 DEF IInv

LEMMA LoadKeeps ==
  ASSUME IInv, NEW e \in Editors, NEW day \in Day, NEW entry \in Edits, Load(e, day, entry)
  PROVE  IInv'
<1> DEFINE draft == [Merge(week) EXCEPT ![day] = entry]
           r == Page({day}, draft)
<1>1. week \in Weeks
  BY DEF IInv, TypeOK
<1>2. /\ draft \in [Day -> Entries]
      /\ \A d \in Day \ {day} : week[d].row => draft[d] = week[d]
  BY <1>1, MergedWeek, EntriesAreRows
<1>3. draft \in Weeks /\ Rows(draft) = Day
  BY <1>2, EntriesAreRows DEF Weeks, Rows
<1>4. /\ r.at = "page" /\ r.loaded = week /\ r.edited = {day} /\ r.draft = draft
      /\ r.locked = {}
  BY DEF Page
<1>5. /\ editor' = [editor EXCEPT ![e] = r]
      /\ editor[e].at = "idle" /\ UNCHANGED <<week, by, partial>>
  BY Zenon DEF Load
<1>6. r \in Requests
  BY <1>1, <1>3 DEF Page, Requests, Places
<1>7. partial \in BOOLEAN
  BY DEF IInv, TypeOK
<1> HIDE DEF draft, r
<1>8. QED
  BY <1>2, <1>3, <1>4, <1>5, <1>6, <1>7, NewRequestKeeps

LEMMA SendKeeps ==
  ASSUME IInv, NEW e \in Editors, NEW day \in Day, NEW entry \in Edits, Send(e, day, entry)
  PROVE  IInv'
<1> DEFINE draft == [NoWeek EXCEPT ![day] = entry]
           r == Page(Day, draft)
<1>1. week \in Weeks
  BY DEF IInv, TypeOK
<1>2. draft \in Weeks
  BY EntriesAreRows DEF Weeks
<1>3. r.at = "page" /\ r.loaded = week /\ r.edited = Day /\ r.draft = draft /\ r.locked = {}
  BY DEF Page
<1>4. /\ editor' = [editor EXCEPT ![e] = r]
      /\ editor[e].at = "idle" /\ partial' /\ UNCHANGED <<week, by>>
  BY Zenon DEF Send
<1>5. r \in Requests
  BY <1>1, <1>2 DEF Page, Requests, Places
<1>6. partial' \in BOOLEAN
  BY Zenon DEF Send
<1> HIDE DEF draft, r
<1>7. QED
  BY <1>3, <1>4, <1>5, <1>6, NewRequestKeeps

\* What a step leaves of its request: all but the place, and the locks or the rows seen.
LEMMA PlaceAndLocks ==
  ASSUME NEW e \in Editors, NEW place \in Places, NEW locked \in SUBSET Day,
         editor \in [Editors -> Requests],
         editor' = [editor EXCEPT ![e].at = place, ![e].locked = locked]
  PROVE  /\ editor'[e] \in Requests /\ editor' = [editor EXCEPT ![e] = editor'[e]]
         /\ editor'[e].at = place /\ editor'[e].locked = locked
         /\ editor'[e].loaded = editor[e].loaded /\ editor'[e].edited = editor[e].edited
         /\ editor'[e].draft = editor[e].draft
<1>1. DOMAIN editor' = Editors /\ \A f \in Editors \ {e} : editor'[f] = editor[f]
  OBVIOUS
<1>2. editor'[e] = [editor[e] EXCEPT !.at = place, !.locked = locked]
  OBVIOUS
<1>3. editor' = [editor EXCEPT ![e] = editor'[e]]
  BY <1>1
<1>4. editor[e] \in Requests
  OBVIOUS
<1>5. /\ editor'[e].at = place /\ editor'[e].locked = locked
      /\ editor'[e].loaded = editor[e].loaded /\ editor'[e].edited = editor[e].edited
      /\ editor'[e].draft = editor[e].draft
  BY <1>2, <1>4 DEF Requests
<1>6. editor'[e] \in Requests
  BY <1>2, <1>4 DEF Requests
<1>7. QED
  BY <1>3, <1>5, <1>6

LEMMA PlaceAndSeen ==
  ASSUME NEW e \in Editors, NEW place \in Places,
         NEW seen \in SUBSET (Day \X (Editors \cup {Nobody})),
         editor \in [Editors -> Requests],
         editor' = [editor EXCEPT ![e].at = place, ![e].seen = seen]
  PROVE  /\ editor'[e] \in Requests /\ editor' = [editor EXCEPT ![e] = editor'[e]]
         /\ editor'[e].at = place /\ editor'[e].locked = editor[e].locked
         /\ editor'[e].loaded = editor[e].loaded /\ editor'[e].edited = editor[e].edited
         /\ editor'[e].draft = editor[e].draft
<1>1. DOMAIN editor' = Editors /\ \A f \in Editors \ {e} : editor'[f] = editor[f]
  OBVIOUS
<1>2. editor'[e] = [editor[e] EXCEPT !.at = place, !.seen = seen]
  OBVIOUS
<1>3. editor' = [editor EXCEPT ![e] = editor'[e]]
  BY <1>1
<1>4. editor[e] \in Requests
  OBVIOUS
<1>5. /\ editor'[e].at = place /\ editor'[e].locked = editor[e].locked
      /\ editor'[e].loaded = editor[e].loaded /\ editor'[e].edited = editor[e].edited
      /\ editor'[e].draft = editor[e].draft
  BY <1>2, <1>4 DEF Requests
<1>6. editor'[e] \in Requests
  BY <1>2, <1>4 DEF Requests
<1>7. QED
  BY <1>3, <1>5, <1>6

\* The steps of a transaction.
LEMMA TransactionKeeps ==
  ASSUME IInv, NEW e \in Editors,
         BeginDelete(e) \/ Delete(e) \/ Insert(e) \/ Refused(e)
  PROVE  IInv'
<1> DEFINE r == editor'[e]
<1>1. /\ editor \in [Editors -> Requests] /\ week \in Weeks
      /\ by \in [Day -> Editors \cup {Nobody}]
  BY DEF IInv, TypeOK, Requests, Places
<1>2. UNCHANGED <<week, by, partial>>
  BY DEF BeginDelete, Delete, Insert, Refused
<1>places. {"delete", "insert", "commit", "saved", "refused"} \subseteq Places
  BY DEF Places
<1>others. \A f \in Editors \ {e} : editor[f].locked \subseteq LockedByOthers(e)
  BY DEF LockedByOthers
<1>3. /\ r \in Requests /\ editor' = [editor EXCEPT ![e] = r] /\ editor[e].at # "idle"
      /\ r.loaded = editor[e].loaded /\ r.edited = editor[e].edited
      /\ r.draft = editor[e].draft
      /\ r.at \in {"idle", "page", "delete", "saved", "refused"} => r.locked = {}
      /\ r.at = "commit" => Rows(r.draft) \subseteq r.locked
      /\ \A f \in Editors \ {e} : r.locked \cap editor[f].locked = {}
  <2>1. CASE BeginDelete(e)
    <3>1. {<<d, by[d]>> : d \in Rows(week)} \in SUBSET (Day \X (Editors \cup {Nobody}))
      BY <1>1 DEF Rows
    <3>2. /\ r \in Requests /\ editor' = [editor EXCEPT ![e] = r]
          /\ r.at = "delete" /\ r.locked = editor[e].locked
          /\ r.loaded = editor[e].loaded /\ r.edited = editor[e].edited
          /\ r.draft = editor[e].draft
      <4>1. /\ editor' = [editor EXCEPT ![e].at = "delete",
                                        ![e].seen = {<<d, by[d]>> : d \in Rows(week)}]
            /\ "delete" \in Places
        BY <1>places, <2>1 DEF BeginDelete
      <4>2. QED
        BY <1>1, <3>1, <4>1, PlaceAndSeen, Zenon
    <3>3. editor[e].at = "page" /\ editor[e].locked = {}
      BY <2>1 DEF BeginDelete, IInv, TypeOK
    <3>4. QED
      BY <3>2, <3>3
  <2>2. CASE Delete(e)
    <3>1. PICK mine \in SUBSET Day :
            /\ mine \cap LockedByOthers(e) = {}
            /\ editor' = [editor EXCEPT ![e].at = "insert", ![e].locked = mine]
      BY <2>2 DEF Delete, Rows
    <3>2. /\ r \in Requests /\ editor' = [editor EXCEPT ![e] = r]
          /\ r.at = "insert" /\ r.locked = mine
          /\ r.loaded = editor[e].loaded /\ r.edited = editor[e].edited
          /\ r.draft = editor[e].draft
      <4>1. "insert" \in Places
        BY <1>places
      <4>2. QED
        BY <1>1, <3>1, <4>1, PlaceAndLocks, Zenon
    <3>3. editor[e].at = "delete"
      BY <2>2 DEF Delete
    <3>4. QED
      BY <1>others, <3>1, <3>2, <3>3
  <2>3. CASE Insert(e)
    <3>1. \A f \in Editors \ {e} : editor[e].locked \cap editor[f].locked = {}
      BY DEF IInv, HeldOnce
    <3>2. editor[e].locked \cup Rows(editor[e].draft) \in SUBSET Day
      BY <1>1 DEF Rows, Requests
    <3>3. /\ editor' = [editor EXCEPT ![e].at = "commit",
                          ![e].locked = editor[e].locked \cup Rows(editor[e].draft)]
          /\ Rows(editor[e].draft) \cap LockedByOthers(e) = {}
          /\ editor[e].at = "insert"
      BY <2>3 DEF Insert
    <3>4. /\ r \in Requests /\ editor' = [editor EXCEPT ![e] = r]
          /\ r.at = "commit" /\ r.locked = editor[e].locked \cup Rows(editor[e].draft)
          /\ r.loaded = editor[e].loaded /\ r.edited = editor[e].edited
          /\ r.draft = editor[e].draft
      <4>1. "commit" \in Places
        BY <1>places
      <4>2. QED
        BY <1>1, <3>2, <3>3, <4>1, PlaceAndLocks, Zenon
    <3>5. QED
      BY <1>others, <3>1, <3>3, <3>4
  <2>4. CASE Refused(e)
    <3>1. /\ r \in Requests /\ editor' = [editor EXCEPT ![e] = r]
          /\ r.at = "refused" /\ r.locked = {}
          /\ r.loaded = editor[e].loaded /\ r.edited = editor[e].edited
          /\ r.draft = editor[e].draft
      <4>1. /\ editor' = [editor EXCEPT ![e].at = "refused", ![e].locked = {}]
            /\ "refused" \in Places /\ {} \in SUBSET Day
        BY <1>places, <2>4 DEF Refused
      <4>2. QED
        BY <1>1, <4>1, PlaceAndLocks, Zenon
    <3>2. QED
      BY <2>4, <3>1 DEF Refused
  <2>5. QED
    BY <2>1, <2>2, <2>3, <2>4
<1> HIDE DEF r
<1>4. QED
  BY <1>1, <1>2, <1>3, InPlace

\* What a commit writes: the days it holds, from its draft.
LEMMA Committed ==
  ASSUME IInv, NEW e \in Editors, Commit(e)
  PROVE  /\ week' \in Weeks /\ by' \in [Day -> Editors \cup {Nobody}]
         /\ \A d \in Day :
              week'[d] = IF d \in editor[e].locked THEN editor[e].draft[d] ELSE week[d]
         /\ Rows(editor[e].draft) \subseteq editor[e].locked
         /\ UNCHANGED partial
<1>1. /\ editor[e] \in Requests /\ week \in Weeks /\ by \in [Day -> Editors \cup {Nobody}]
  BY DEF IInv, TypeOK, Requests, Places
<1>2. /\ week' = [d \in Day |-> IF d \in editor[e].locked THEN editor[e].draft[d] ELSE week[d]]
      /\ by' = [d \in Day |-> IF d \in editor[e].locked THEN e ELSE by[d]]
  BY DEF Commit
<1>3. QED
  BY <1>1, <1>2 DEF Commit, IInv, InsertsAreHeld, Requests, Weeks

LEMMA CommitKeeps ==
  ASSUME IInv, NEW e \in Editors, Commit(e)
  PROVE  IInv'
<1> DEFINE r == editor'[e]
<1>1. editor \in [Editors -> Requests]
  BY DEF IInv, TypeOK, Requests, Places
<1>2. /\ r \in Requests /\ editor' = [editor EXCEPT ![e] = r] /\ editor[e].at # "idle"
      /\ r.loaded = editor[e].loaded /\ r.edited = editor[e].edited
      /\ r.draft = editor[e].draft /\ r.at = "saved" /\ r.locked = {}
  <2>1. /\ editor' = [editor EXCEPT ![e].at = "saved", ![e].locked = {}]
        /\ editor[e].at = "commit"
        /\ "saved" \in Places /\ {} \in SUBSET Day
    BY DEF Commit, Places
  <2>2. /\ r \in Requests /\ editor' = [editor EXCEPT ![e] = r]
        /\ r.loaded = editor[e].loaded /\ r.edited = editor[e].edited
        /\ r.draft = editor[e].draft /\ r.at = "saved" /\ r.locked = {}
    BY <1>1, <2>1, PlaceAndLocks, Zenon
  <2>3. QED
    BY <2>1, <2>2
<1> HIDE DEF r
<1>3. /\ UNCHANGED partial /\ week' \in Weeks /\ by' \in [Day -> Editors \cup {Nobody}]
  BY Committed
<1>4. QED
  BY <1>2, <1>3, InPlace

LEMMA NextKeeps == IInv /\ [Next]_vars => IInv'
<1> SUFFICES ASSUME IInv, [Next]_vars PROVE IInv'
  OBVIOUS
<1>1. CASE Next
  <2>1. PICK e \in Editors :
          \/ \E day \in Day, entry \in Edits : Load(e, day, entry) \/ Send(e, day, entry)
          \/ Step(e)
          \/ Refused(e)
    BY <1>1 DEF Next
  <2>2. CASE \E day \in Day, entry \in Edits : Load(e, day, entry) \/ Send(e, day, entry)
    BY <2>2, LoadKeeps, SendKeeps
  <2>3. CASE Step(e)
    BY <2>3, TransactionKeeps, CommitKeeps DEF Step, RefusedByIndex
  <2>4. QED
    BY <2>1, <2>2, <2>3, TransactionKeeps
<1>2. CASE UNCHANGED vars
  BY <1>2 DEF vars, IInv, TypeOK, HeldOnce, InsertsAreHeld, PagesAreWhole, DraftsFollowPages
<1>3. QED
  BY <1>1, <1>2

-----------------------------------------------------------------------------
\* The inductive invariant: a transaction holds the days it writes and shares none.
THEOREM HoursInvariant == Spec => []IInv
<1>1. QED
  BY InitIInv, NextKeeps, PTL DEF Spec

\* Every variable keeps its type, for any week and any number of requests.
THEOREM HoursTypeOK == Spec => []TypeOK
<1>1. IInv => TypeOK
  BY DEF IInv
<1>2. QED
  BY <1>1, HoursInvariant, PTL

\* No day is held by two transactions.
THEOREM NoDayHeldTwice == Spec => []HeldOnce
<1>1. IInv => HeldOnce
  BY DEF IInv
<1>2. QED
  BY <1>1, HoursInvariant, PTL

\* Which request a step that saves belongs to.
LEMMA WhoCommits ==
  ASSUME IInv, [Next]_vars, NEW e \in Editors,
         editor[e].at = "commit", editor'[e].at = "saved"
  PROVE  Commit(e)
<1>1. editor \in [Editors -> Requests]
  BY DEF IInv, TypeOK, Requests, Places
<1>2. PICK f \in Editors :
        \/ \E day \in Day, entry \in Edits : Load(f, day, entry) \/ Send(f, day, entry)
        \/ Step(f)
        \/ Refused(f)
  BY DEF Next, vars
<1>3. f = e
  BY <1>1, <1>2 DEF Load, Send, Step, BeginDelete, Delete, Insert, RefusedByIndex, Refused,
     Commit, Requests
<1>4. ~\E day \in Day, entry \in Edits : Load(f, day, entry) \/ Send(f, day, entry)
  BY <1>3 DEF Load, Send
<1>5. ~(BeginDelete(f) \/ Delete(f) \/ Insert(f))
  BY <1>3 DEF BeginDelete, Delete, Insert
<1>6. ~Refused(f)
  BY <1>1, <1>3 DEF Refused, Requests
<1>7. QED
  BY <1>2, <1>3, <1>4, <1>5, <1>6 DEF Step, RefusedByIndex

\* Once a whole week is saved, it is the week: nothing of the one before is left and
\* nothing of one saved meanwhile.
THEOREM SavedIsTheWeek == Spec => SavedMeansSaved
<1>1. ASSUME IInv, [Next]_vars
      PROVE  [\A e \in Editors :
                editor[e].at = "commit" /\ editor'[e].at = "saved" /\ ~partial
                  => week' = editor[e].draft]_vars
  <2>1. SUFFICES ASSUME NEW e \in Editors,
                        editor[e].at = "commit", editor'[e].at = "saved", ~partial
                 PROVE  week' = editor[e].draft
    OBVIOUS
  <2>2. Commit(e)
    BY <1>1, <2>1, WhoCommits
  <2>3. Rows(editor[e].draft) = Day
    BY <1>1, <2>1 DEF IInv, PagesAreWhole
  <2>4. /\ week' \in Weeks /\ editor[e].draft \in Weeks
        /\ \A d \in Day : week'[d] = editor[e].draft[d]
    BY <1>1, <2>2, <2>3, Committed DEF IInv, TypeOK
  <2>5. QED
    BY <2>4 DEF Weeks
<1>2. QED
  BY <1>1, HoursInvariant, PTL DEF Spec, SavedMeansSaved

\* Saving a page leaves every day its editor did not touch, unless the day had no row or
\* was changed by somebody else since the page was opened.
THEOREM OthersAreLeftAlone == Spec => OnlyTheEditChanges
<1>1. ASSUME IInv, [Next]_vars
      PROVE  [\A e \in Editors, d \in Day :
                /\ editor[e].at = "commit" /\ editor'[e].at = "saved"
                /\ d \notin editor[e].edited /\ week'[d] # week[d]
                => ~editor[e].loaded[d].row \/ week[d] # editor[e].loaded[d]]_vars
  <2>1. SUFFICES ASSUME NEW e \in Editors, NEW d \in Day,
                        editor[e].at = "commit", editor'[e].at = "saved",
                        d \notin editor[e].edited, week'[d] # week[d],
                        editor[e].loaded[d].row
                 PROVE  week[d] # editor[e].loaded[d]
    OBVIOUS
  <2>2. Commit(e)
    BY <1>1, <2>1, WhoCommits
  <2>3. editor[e].draft[d] = editor[e].loaded[d]
    BY <1>1, <2>1 DEF IInv, DraftsFollowPages
  <2>4. QED
    BY <1>1, <2>1, <2>2, <2>3, Committed
<1>2. QED
  BY <1>1, HoursInvariant, PTL DEF Spec, OnlyTheEditChanges
-----------------------------------------------------------------------------
(* The answers, for any week, any day and any minute.                       *)

\* Every set of numbers that is not empty has a least one.
LEMMA LeastNumber ==
  ASSUME NEW T, T \subseteq Nat, T # {}
  PROVE  \E n \in T : \A m \in T : n <= m
<1> DEFINE R == {p \in Nat \X Nat : p[1] < p[2]}
<1>1. IsWellFoundedOn(OpToRel(<, Nat), Nat)
  BY NatLessThanWellFounded
<1>2. OpToRel(<, Nat) = R
  BY DEF OpToRel
<1> HIDE DEF R
<1>3. \E n \in T : \A m \in T : ~ (<<m, n>> \in R)
  BY <1>1, <1>2, WFMin
<1>4. PICK n \in T : \A m \in T : ~ (<<m, n>> \in R)
  BY <1>3
<1>5. ASSUME NEW m \in T PROVE n <= m
  <2>1. n \in Nat /\ m \in Nat /\ ~ (<<m, n>> \in R)
    BY <1>4
  <2>2. <<m, n>> \in R <=> m < n
    BY <2>1 DEF R
  <2>3. QED
    BY <2>1, <2>2
<1>6. QED
  BY <1>5

\* Quotient and rest by what they are of.
LEMMA QuotientAndRest ==
  ASSUME NEW q \in Nat, NEW b \in Nat \ {0}, NEW r \in 0 .. b - 1
  PROVE  (q * b + r) \div b = q /\ (q * b + r) % b = r
OBVIOUS

\* A minute of the week is a day and a minute of it.
LEMMA DayAndMinute ==
  ASSUME NEW t \in Nat
  PROVE  \E q \in Nat, r \in Minute : t = q * Minutes + r
<1>1. ASSUME NEW b \in Nat \ {0}
      PROVE  t \div b \in Nat /\ t % b \in 0 .. b - 1 /\ t = (t \div b) * b + (t % b)
  OBVIOUS
<1>2. QED
  BY <1>1, HoursAssumption DEF Minute

\* A later day begins after an earlier one has ended.
LEMMA DaysFollow ==
  ASSUME NEW p \in Nat, NEW q \in Nat, NEW b \in Nat \ {0}, p < q
  PROVE  p * b + b <= q * b
OBVIOUS

\* The length of the week and the parts of an entry.
LEMMA WeekIsTyped ==
  ASSUME NEW w \in Weeks
  PROVE  /\ WeekLen \in Nat \ {0} /\ Minutes \in Nat \ {0}
         /\ \A d \in Day : w[d].opening \in Minute /\ w[d].closing \in Minute
         /\ \A q \in Nat : q % WeekLen \in Day
         /\ \A d \in Day : d % WeekLen = d /\ (d + WeekLen) % WeekLen = d
<1>1. WeekLen \in Nat \ {0} /\ Minutes \in Nat \ {0}
  BY HoursAssumption
<1>2. ASSUME NEW d \in Day PROVE w[d].opening \in Minute /\ w[d].closing \in Minute
  <2>1. 0 \in Minute
    BY <1>1 DEF Minute
  <2>2. w[d] \in Entries \cup {Missing}
    BY DEF Weeks
  <2>3. QED
    BY <2>1, <2>2, EditorsAssumption DEF Closed, Hours, Missing
<1>3. ASSUME NEW q \in Nat PROVE q % WeekLen \in Day
  BY <1>1 DEF Day
<1>4. ASSUME NEW d \in Day PROVE d % WeekLen = d /\ (d + WeekLen) % WeekLen = d
  <2>1. (0 * WeekLen + d) % WeekLen = d /\ (1 * WeekLen + d) % WeekLen = d
    BY <1>1, QuotientAndRest DEF Day
  <2>2. QED
    BY <1>1, <2>1 DEF Day
<1>5. QED
  BY <1>1, <1>2, <1>3, <1>4

\* A week later is the same day.
LEMMA AWeekLater ==
  ASSUME NEW q \in Nat
  PROVE  (q + WeekLen) % WeekLen = q % WeekLen
<1>1. WeekLen \in Nat \ {0}
  BY HoursAssumption
<1>2. ASSUME NEW b \in Nat \ {0}
      PROVE  q \div b \in Nat /\ q % b \in 0 .. b - 1 /\ q = (q \div b) * b + (q % b)
  OBVIOUS
<1>3. PICK a \in Nat, r \in 0 .. WeekLen - 1 : q = a * WeekLen + r
  BY <1>1, <1>2
<1>4. a + 1 \in Nat /\ q + WeekLen = (a + 1) * WeekLen + r
  BY <1>1, <1>3
<1>5. (a * WeekLen + r) % WeekLen = r /\ ((a + 1) * WeekLen + r) % WeekLen = r
  BY <1>1, <1>4, QuotientAndRest
<1>6. QED
  BY <1>3, <1>4, <1>5

\* The entries that a minute of a day falls under.
LEMMA EntriesOfMinute ==
  ASSUME NEW w, NEW q \in Nat, NEW r \in Minute
  PROVE  /\ Today(w, q * Minutes + r) = w[q % WeekLen]
         /\ Yesterday(w, q * Minutes + r) = w[(q + WeekLen - 1) % WeekLen]
         /\ (q * Minutes + r) % Minutes = r
<1>1. (q * Minutes + r) \div Minutes = q /\ (q * Minutes + r) % Minutes = r
  BY HoursAssumption, QuotientAndRest DEF Minute
<1>2. QED
  BY <1>1 DEF Today, Yesterday

\* The door is open in a minute by the entry of that day or of the one before.
LEMMA OpenAtMinute ==
  ASSUME NEW w, NEW q \in Nat, NEW r \in Minute
  PROVE  /\ OpenAt(w, q * Minutes + r) <=>
              \/ Opened(w[q % WeekLen], r)
              \/ StillOpen(w[(q + WeekLen - 1) % WeekLen], r)
         /\ OpenPastMidnight(w, q * Minutes + r) <=>
              \/ RunsPastMidnight(w[q % WeekLen]) /\ Opened(w[q % WeekLen], r)
              \/ StillOpen(w[(q + WeekLen - 1) % WeekLen], r)
BY EntriesOfMinute DEF OpenAt, OpenPastMidnight

\* The wait is known when the door opens at its end and not before.
LEMMA WaitIs ==
  ASSUME NEW w, NEW now \in Nat, NEW k \in 0 .. WeekLen * Minutes, OpenAt(w, now + k),
         \A j \in 0 .. k - 1 : ~OpenAt(w, now + j)
  PROVE  WaitFrom(w, now) = k
<1> DEFINE waits == {j \in 0 .. WeekLen * Minutes : OpenAt(w, now + j)}
<1>1. k \in waits /\ waits \subseteq Nat /\ \A j \in waits : k <= j
  <2>1. ASSUME NEW j \in 0 .. WeekLen * Minutes, OpenAt(w, now + j) PROVE k <= j
    BY <2>1
  <2>2. QED
    BY <2>1
<1> HIDE DEF waits
<1>2. \A i \in waits : (\A j \in waits : i <= j) => i = k
  <2>1. ASSUME NEW i \in waits, \A j \in waits : i <= j PROVE i = k
    <3>1. i <= k /\ k <= i /\ i \in Int /\ k \in Int
      BY <1>1, <2>1
    <3>2. QED
      BY <3>1
  <2>2. QED
    BY <2>1
<1>3. (CHOOSE i \in waits : \A j \in waits : i <= j) = k
  BY <1>1, <1>2
<1>4. QED
  BY <1>3 DEF WaitFrom, waits

\* The search finds the first open day after today, or no day is open.
LEMMA NextOpenDayIs ==
  ASSUME NEW w, NEW d
  PROVE  \/ /\ NextOpenDay(w, d) = 0
            /\ \A k \in 1 .. WeekLen : ~IsOpenOn(w[(d + k) % WeekLen])
         \/ /\ NextOpenDay(w, d) \in 1 .. WeekLen
            /\ IsOpenOn(w[(d + NextOpenDay(w, d)) % WeekLen])
            /\ \A j \in 1 .. NextOpenDay(w, d) - 1 : ~IsOpenOn(w[(d + j) % WeekLen])
<1> DEFINE offsets == {k \in 1 .. WeekLen : IsOpenOn(w[(d + k) % WeekLen])}
           next == CHOOSE k \in offsets : \A j \in offsets : k <= j
<1>1. WeekLen \in Nat
  BY HoursAssumption
<1>2. NextOpenDay(w, d) = IF offsets = {} THEN 0 ELSE next
  BY DEF NextOpenDay
<1>3. CASE offsets = {}
  BY <1>2, <1>3
<1>4. CASE offsets # {}
  <2>1. \E k \in offsets : \A j \in offsets : k <= j
    <3>1. offsets \subseteq Nat
      OBVIOUS
    <3> HIDE DEF offsets
    <3>2. QED
      BY <1>4, <3>1, LeastNumber
  <2>2. next \in offsets /\ \A j \in offsets : next <= j
    BY <2>1
  <2> HIDE DEF next
  <2>3. \A j \in 1 .. next - 1 : ~IsOpenOn(w[(d + j) % WeekLen])
    BY <1>1, <2>2
  <2>4. QED
    BY <1>2, <1>4, <2>2, <2>3
<1>5. QED
  BY <1>3, <1>4

\* The search tries every day.
LEMMA EveryDayIsTried ==
  ASSUME NEW w \in Weeks, NEW d \in Day, NEW e \in Day
  PROVE  \E k \in 1 .. WeekLen : (d + k) % WeekLen = e
<1>1. CASE d < e
  <2>1. e - d \in 1 .. WeekLen /\ d + (e - d) = e
    BY <1>1, WeekIsTyped DEF Day
  <2>2. QED
    BY <2>1, WeekIsTyped
<1>2. CASE e <= d
  <2>1. e - d + WeekLen \in 1 .. WeekLen /\ d + (e - d + WeekLen) = e + WeekLen
    BY <1>2, HoursAssumption DEF Day
  <2>2. QED
    BY <2>1, WeekIsTyped
<1>3. QED
  BY <1>1, <1>2 DEF Day

\* A door that stays shut today opens again in the first minute of the next open day.
LEMMA OpensOnNextOpenDay ==
  ASSUME NEW w \in Weeks, NEW d \in Day, NEW m \in Minute, NextOpenDay(w, d) # 0,
         \A r \in m .. Minutes - 1 : ~OpenAt(w, d * Minutes + r), ~RunsPastMidnight(w[d]),
         IsOpenOn(w[d]) => w[d].opening <= m
  PROVE  LET k == NextOpenDay(w, d)
         IN WaitFrom(w, d * Minutes + m) = k * Minutes + w[(d + k) % WeekLen].opening - m
<1> DEFINE k == NextOpenDay(w, d)
           o == w[(d + k) % WeekLen].opening
           now == d * Minutes + m
           wait == k * Minutes + o - m
<1>1. /\ k \in 1 .. WeekLen /\ IsOpenOn(w[(d + k) % WeekLen])
      /\ \A j \in 1 .. k - 1 : ~IsOpenOn(w[(d + j) % WeekLen])
  BY NextOpenDayIs
<1> HIDE DEF k
<1>2. /\ d \in Nat /\ m \in Nat /\ m < Minutes /\ Minutes \in Nat \ {0}
      /\ WeekLen \in Nat \ {0} /\ d + k \in Nat /\ k \in Nat /\ 1 <= k /\ k <= WeekLen
  <2>1. WeekLen \in Nat \ {0} /\ Minutes \in Nat \ {0}
    BY HoursAssumption
  <2>2. d \in Nat /\ m \in Nat /\ m < Minutes
    BY <2>1 DEF Day, Minute
  <2>3. QED
    BY <1>1, <2>1, <2>2
<1>3. o \in Minute /\ o \in Nat /\ o < Minutes /\ (d + k) % WeekLen \in Day
      /\ w[(d + k) % WeekLen].closing \in Nat
  <2>1. (d + k) % WeekLen \in Day
    BY <1>2, WeekIsTyped
  <2>2. o \in Minute
    BY <2>1, WeekIsTyped
  <2>3. w[(d + k) % WeekLen].closing \in Minute
    BY <2>1, WeekIsTyped
  <2>4. QED
    BY <2>1, <2>2, <2>3, <1>2 DEF Minute
<1>4. now \in Nat /\ now + wait = (d + k) * Minutes + o
  BY <1>2, <1>3
<1>5. OpenAt(w, now + wait)
  <2>1. OpenAt(w, (d + k) * Minutes + o)
    <3> DEFINE q == d + k
    <3>1. q \in Nat /\ o \in Minute /\ o <= o
      BY <1>2, <1>3
    <3>2. /\ IsOpenOn(w[q % WeekLen]) /\ w[q % WeekLen].opening = o
          /\ w[q % WeekLen].closing \in Nat /\ o \in Nat
      BY <1>1, <1>3
    <3> HIDE DEF q, o
    <3>3. Opened(w[q % WeekLen], o)
      BY <3>1, <3>2 DEF Opened, RunsPastMidnight
    <3>4. OpenAt(w, q * Minutes + o)
      BY <3>1, <3>3, OpenAtMinute
    <3>5. QED
      BY <3>4 DEF q
  <2>2. QED
    BY <1>4, <2>1
<1>6. wait \in 0 .. WeekLen * Minutes
  <2>1. Minutes <= k * Minutes /\ k * Minutes \in Nat /\ WeekLen * Minutes \in Nat
    <3>1. 0 * Minutes + Minutes <= k * Minutes
      BY <1>2, DaysFollow
    <3>2. QED
      BY <1>2, <3>1
  <2>2. CASE k < WeekLen
    <3>1. k * Minutes + Minutes <= WeekLen * Minutes
      BY <1>2, <2>2, DaysFollow
    <3>2. QED
      BY <1>2, <1>3, <2>1, <3>1
  <2>3. CASE k = WeekLen
    <3>1. o <= m
      BY <1>1, <2>3, WeekIsTyped
    <3>2. QED
      BY <1>2, <1>3, <2>1, <2>3, <3>1
  <2>4. QED
    BY <1>2, <2>2, <2>3
<1>7. ASSUME NEW q \in Nat, d < q, q <= d + k
       PROVE  ~RunsPastMidnight(w[(q + WeekLen - 1) % WeekLen])
  <2>1. q - 1 \in Nat /\ (q + WeekLen - 1) = (q - 1) + WeekLen
    BY <1>2, <1>7
  <2>2. (q + WeekLen - 1) % WeekLen = (q - 1) % WeekLen
    BY <2>1, AWeekLater
  <2>3. CASE q - 1 = d
    BY <2>2, <2>3, WeekIsTyped
  <2>4. CASE q - 1 # d
    <3>1. q - 1 - d \in 1 .. k - 1 /\ d + (q - 1 - d) = q - 1
      BY <1>2, <1>7, <2>4
    <3>2. ~IsOpenOn(w[(q - 1) % WeekLen])
      BY <1>1, <3>1
    <3>3. QED
      BY <2>2, <3>2 DEF RunsPastMidnight
  <2>5. QED
    BY <2>3, <2>4
<1>8. ASSUME NEW j \in 0 .. wait - 1 PROVE ~OpenAt(w, now + j)
  <2>1. now + j \in Nat /\ now + j >= now /\ now + j < (d + k) * Minutes + o
    BY <1>4, <1>6, <1>8
  <2> DEFINE t == now + j
  <2> HIDE DEF t
  <2>2. PICK q \in Nat, r \in Minute : t = q * Minutes + r
    BY <2>1, DayAndMinute DEF t
  <2>3. r \in Nat /\ r < Minutes
    BY <1>2 DEF Minute
  <2>4. d <= q
    <3>1. CASE q < d
      <4>1. q * Minutes + Minutes <= d * Minutes
        BY <1>2, <3>1, DaysFollow
      <4>2. q * Minutes \in Nat /\ d * Minutes \in Nat
        BY <1>2
      <4>3. QED
        BY <1>2, <2>1, <2>2, <2>3, <4>1, <4>2 DEF t
    <3>2. QED
      BY <1>2, <3>1
  <2>5. q <= d + k
    <3>1. CASE d + k < q
      <4>1. (d + k) * Minutes + Minutes <= q * Minutes
        BY <1>2, <3>1, DaysFollow
      <4>2. q * Minutes \in Nat /\ (d + k) * Minutes \in Nat
        BY <1>2
      <4>3. QED
        BY <1>2, <1>3, <2>1, <2>2, <2>3, <4>1, <4>2 DEF t
    <3>2. QED
      BY <1>2, <3>1
  <2>6. CASE q = d
    <3>1. r >= m
      <4>1. d * Minutes \in Nat
        BY <1>2
      <4>2. QED
        BY <1>2, <2>1, <2>2, <2>3, <2>6, <4>1 DEF t
    <3>2. QED
      BY <1>2, <2>2, <2>3, <2>6, <3>1 DEF t
  <2>7. CASE d < q /\ q < d + k
    <3>1. q - d \in 1 .. k - 1 /\ d + (q - d) = q
      BY <1>2, <2>7
    <3>2. ~IsOpenOn(w[q % WeekLen])
      BY <1>1, <3>1
    <3>3. ~RunsPastMidnight(w[(q + WeekLen - 1) % WeekLen])
      BY <1>7, <2>5, <2>7
    <3>4. QED
      BY <2>2, <3>2, <3>3, OpenAtMinute DEF t, Opened, StillOpen
  <2>8. CASE q = d + k
    <3>1. r < o
      <4>1. (d + k) * Minutes \in Nat
        BY <1>2
      <4>2. QED
        BY <1>3, <2>1, <2>2, <2>3, <2>8, <4>1 DEF t
    <3>2. ~ (o <= r)
      BY <1>3, <2>3, <3>1
    <3>3. ~RunsPastMidnight(w[(q + WeekLen - 1) % WeekLen])
      <4>1. d < q
        BY <1>2, <2>8
      <4>2. QED
        BY <1>7, <2>5, <4>1
    <3>4. QED
      BY <2>2, <2>8, <3>2, <3>3, OpenAtMinute DEF t, Opened, StillOpen
  <2>9. QED
    BY <1>2, <2>4, <2>5, <2>6, <2>7, <2>8
<1>9. WaitFrom(w, now) = wait
  BY <1>4, <1>5, <1>6, <1>8, WaitIs
<1>10. QED
  BY <1>9 DEF k

\* A week in which the door never opens is one without an open day.
LEMMA NeverOpenIs ==
  ASSUME NEW w \in Weeks
  PROVE  NeverOpen(w) <=> \A d \in Day : ~IsOpenOn(w[d])
<1>1. WeekLen \in Nat \ {0} /\ Minutes \in Nat \ {0}
  BY HoursAssumption
<1>2. ASSUME \A d \in Day : ~IsOpenOn(w[d]), NEW t \in 0 .. WeekLen * Minutes - 1,
             OpenAt(w, t)
      PROVE  FALSE
  <2>1. t \in Nat
    BY <1>1
  <2>2. PICK q \in Nat, r \in Minute : t = q * Minutes + r
    BY <2>1, DayAndMinute
  <2>3. q % WeekLen \in Day /\ q + WeekLen - 1 \in Nat /\ (q + WeekLen - 1) % WeekLen \in Day
    <3>1. q + WeekLen - 1 \in Nat
      BY <1>1
    <3>2. QED
      BY <3>1, WeekIsTyped
  <2>4. QED
    BY <1>2, <2>2, <2>3, OpenAtMinute DEF Opened, StillOpen, RunsPastMidnight
<1>3. ASSUME NEW d \in Day, IsOpenOn(w[d]) PROVE ~NeverOpen(w)
  <2> DEFINE o == w[d].opening
  <2>1. /\ d \in Nat /\ d < WeekLen /\ d % WeekLen = d
        /\ o \in Minute /\ o \in Nat /\ o < Minutes /\ w[d].closing \in Nat
    <3>1. o \in Minute /\ w[d].closing \in Minute /\ d % WeekLen = d
      BY WeekIsTyped
    <3>2. QED
      BY <1>1, <3>1 DEF Day, Minute
  <2> HIDE DEF o
  <2>2. Opened(w[d], o)
    BY <1>3, <2>1 DEF o, Opened, RunsPastMidnight
  <2>3. OpenAt(w, d * Minutes + o)
    BY <2>1, <2>2, OpenAtMinute
  <2>4. d * Minutes + o \in 0 .. WeekLen * Minutes - 1
    <3>1. d * Minutes + Minutes <= WeekLen * Minutes
      BY <1>1, <2>1, DaysFollow
    <3>2. d * Minutes \in Nat /\ WeekLen * Minutes \in Nat
      BY <1>1, <2>1
    <3>3. QED
      BY <1>1, <2>1, <3>1, <3>2
  <2>5. QED
    BY <2>3, <2>4 DEF NeverOpen
<1>4. QED
  BY <1>2, <1>3 DEF NeverOpen

\* What is said of the present moment, case by case.
LEMMA AnswerIs ==
  ASSUME NEW w \in Weeks, NEW d \in Day, NEW m \in Minute
  PROVE  LET answer == AnswerOpenNow(w, d, m)
             next == NextOpenDay(w, d)
             entry == w[d] IN
           /\ next = 0 <=> \A d2 \in Day : ~IsOpenOn(w[d2])
           /\ \/ ~IsOpenOn(entry) /\ next = 0 /\ answer = Unknown
              \/ ~IsOpenOn(entry) /\ next # 0 /\ answer = OpensAgain("closed_today", w, d)
              \/ /\ IsOpenOn(entry) /\ next # 0 /\ m < entry.opening
                 /\ answer = [kind |-> "open_later", opening |-> entry.opening,
                              closing |-> entry.closing]
              \/ /\ IsOpenOn(entry) /\ next # 0 /\ entry.opening <= m /\ m < entry.closing
                 /\ answer = [kind |-> "open_now", closing |-> entry.closing]
              \/ /\ IsOpenOn(entry) /\ next # 0 /\ entry.opening <= m /\ entry.closing <= m
                 /\ answer = OpensAgain("closed_tonight", w, d)
<1> DEFINE entry == w[d]
           answer == AnswerOpenNow(w, d, m)
           open == IsOpenOn(entry)
           next == NextOpenDay(w, d)
<1>1. /\ d \in Nat /\ d % WeekLen = d
      /\ m \in Int /\ entry.opening \in Int /\ entry.closing \in Int
  <2>1. d \in Nat
    BY HoursAssumption DEF Day
  <2>2. entry.opening \in Minute /\ entry.closing \in Minute /\ d % WeekLen = d
    BY WeekIsTyped
  <2>3. QED
    BY <2>1, <2>2 DEF Minute
<1>2. (\A d2 \in Day : ~IsOpenOn(w[d2])) <=> next = 0
  <2>1. CASE next = 0
    <3>1. \A k \in 1 .. WeekLen : ~IsOpenOn(w[(d + k) % WeekLen])
      <4>1. ~ (0 \in 1 .. WeekLen)
        OBVIOUS
      <4>2. QED
        BY <2>1, <4>1, NextOpenDayIs, Zenon
    <3>2. QED
      BY <2>1, <3>1, EveryDayIsTried
  <2>2. CASE next # 0
    <3>1. next \in 1 .. WeekLen /\ IsOpenOn(w[(d + next) % WeekLen])
      BY <2>2, NextOpenDayIs
    <3>2. (d + next) % WeekLen \in Day
      BY <1>1, <3>1, WeekIsTyped
    <3>3. QED
      BY <2>2, <3>1, <3>2
  <2>3. QED
    BY <2>1, <2>2
<1>3. NothingOnFile(w) => next = 0
  BY <1>2 DEF NothingOnFile, IsOpenOn
<1>4. open => next # 0
  BY <1>2
<1>5. CASE ~open
  BY <1>2, <1>3, <1>5 DEF AnswerOpenNow
<1>6. CASE open /\ m < entry.opening
  BY <1>1, <1>2, <1>3, <1>4, <1>6 DEF AnswerOpenNow
<1>7. CASE open /\ entry.opening <= m /\ m < entry.closing
  BY <1>1, <1>2, <1>3, <1>4, <1>7 DEF AnswerOpenNow
<1>8. CASE open /\ entry.opening <= m /\ entry.closing <= m
  BY <1>1, <1>2, <1>3, <1>4, <1>8 DEF AnswerOpenNow
<1>9. QED
  BY <1>1, <1>5, <1>6, <1>7, <1>8

\* What is said of the present moment is right.
LEMMA OpenNowOf ==
  ASSUME NEW w \in Weeks, NEW d \in Day, NEW m \in Minute
  PROVE  LET answer == AnswerOpenNow(w, d, m)
             now == d * Minutes + m IN
           /\ answer.kind = "unknown" <=> NeverOpen(w)
           /\ ~OpenPastMidnight(w, now) =>
                /\ answer.kind = "open_now" <=> OpenAt(w, now)
                /\ answer.kind = "open_now" =>
                     /\ \A r \in m .. answer.closing - 1 : OpenAt(w, d * Minutes + r)
                     /\ ~OpenAt(w, d * Minutes + answer.closing)
                /\ answer.kind = "open_later" => WaitFrom(w, now) = answer.opening - m
                /\ answer.kind \in {"closed_today", "closed_tonight"} =>
                     WaitFrom(w, now) = answer.offset * Minutes + answer.opening - m
<1> DEFINE entry == w[d]
           answer == AnswerOpenNow(w, d, m)
           now == d * Minutes + m
           open == IsOpenOn(entry)
           late == RunsPastMidnight(entry)
           next == NextOpenDay(w, d)
           dark == ~OpenPastMidnight(w, now)
<1>1. /\ d \in Nat /\ m \in Nat /\ m < Minutes /\ Minutes \in Nat \ {0} /\ WeekLen \in Nat \ {0}
      /\ entry.opening \in Nat /\ entry.closing \in Nat
      /\ entry.opening < Minutes /\ entry.closing < Minutes
      /\ now \in Nat /\ d % WeekLen = d
      /\ w[(d + WeekLen - 1) % WeekLen].closing \in Nat
  <2>1. WeekLen \in Nat \ {0} /\ Minutes \in Nat \ {0}
    BY HoursAssumption
  <2>2. d \in Nat /\ m \in Nat /\ m < Minutes
    BY <2>1 DEF Day, Minute
  <2>3. entry.opening \in Minute /\ entry.closing \in Minute /\ d % WeekLen = d
    BY WeekIsTyped
  <2>4. d + WeekLen - 1 \in Nat
    BY <2>1, <2>2
  <2>5. w[(d + WeekLen - 1) % WeekLen].closing \in Minute
    BY <2>4, WeekIsTyped
  <2>6. QED
    BY <2>1, <2>2, <2>3, <2>5 DEF Minute
<1>2. ASSUME dark
      PROVE  /\ late => open /\ m < entry.opening
             /\ late <=> open /\ entry.closing <= entry.opening
             /\ \A r \in Minute : r >= m =>
                  (OpenAt(w, d * Minutes + r) <=>
                     open /\ entry.opening <= r /\ (r < entry.closing \/ late))
  <2> DEFINE before == w[(d + WeekLen - 1) % WeekLen]
  <2>1. ~StillOpen(before, m) /\ ~(late /\ Opened(entry, m))
    BY <1>1, <1>2, OpenAtMinute
  <2>2. before.closing \in Nat
    BY <1>1
  <2> HIDE DEF before
  <2>3. \A r \in Minute : r >= m => ~StillOpen(before, r)
    BY <1>1, <2>1, <2>2 DEF StillOpen, Minute
  <2>4. \A r \in Minute : OpenAt(w, d * Minutes + r) <=>
                            Opened(entry, r) \/ StillOpen(before, r)
    BY <1>1, OpenAtMinute DEF before
  <2>5. late <=> open /\ entry.closing <= entry.opening
    BY DEF RunsPastMidnight
  <2>6. late => m < entry.opening
    BY <1>1, <2>1, <2>5 DEF Opened
  <2>7. QED
    BY <2>3, <2>4, <2>5, <2>6 DEF Opened
<1>3. answer.kind = "unknown" <=> NeverOpen(w)
  <2>1. answer.kind = "unknown" <=> next = 0
    BY AnswerIs DEF Unknown, OpensAgain
  <2>2. QED
    BY <2>1, AnswerIs, NeverOpenIs
<1>4. SUFFICES ASSUME dark
               PROVE  /\ answer.kind = "open_now" <=> OpenAt(w, now)
                      /\ answer.kind = "open_now" =>
                           /\ \A r \in m .. answer.closing - 1 : OpenAt(w, d * Minutes + r)
                           /\ ~OpenAt(w, d * Minutes + answer.closing)
                      /\ answer.kind = "open_later" => WaitFrom(w, now) = answer.opening - m
                      /\ answer.kind \in {"closed_today", "closed_tonight"} =>
                           WaitFrom(w, now) = answer.offset * Minutes + answer.opening - m
  BY <1>3
<1>5. /\ late => open /\ m < entry.opening
      /\ late <=> open /\ entry.closing <= entry.opening
      /\ \A r \in Minute : r >= m =>
           (OpenAt(w, d * Minutes + r) <=>
              open /\ entry.opening <= r /\ (r < entry.closing \/ late))
  BY <1>2, <1>4
<1>6. CASE ~open /\ next = 0 /\ answer = Unknown
  <2>1. answer.kind = "unknown" /\ ~OpenAt(w, now)
    BY <1>1, <1>5, <1>6 DEF Unknown
  <2>2. QED
    BY <2>1
<1>7. CASE ~open /\ next # 0 /\ answer = OpensAgain("closed_today", w, d)
  <2>1. /\ answer.kind = "closed_today" /\ answer.offset = next
        /\ answer.opening = w[(d + next) % WeekLen].opening
    BY <1>7 DEF OpensAgain
  <2>2. ~OpenAt(w, now) /\ \A r \in m .. Minutes - 1 : ~OpenAt(w, d * Minutes + r)
    <3>1. /\ \A r \in m .. Minutes - 1 : r \in Minute /\ r >= m
          /\ m \in Minute /\ m >= m
      BY <1>1 DEF Minute
    <3>2. ~open
      BY <1>7
    <3>3. \A r \in Minute : r >= m => ~OpenAt(w, d * Minutes + r)
      BY <1>5, <3>2
    <3>4. QED
      BY <3>1, <3>3
  <2>3. WaitFrom(w, now) = next * Minutes + w[(d + next) % WeekLen].opening - m
    BY <1>5, <1>7, <2>2, OpensOnNextOpenDay
  <2>4. QED
    BY <2>1, <2>2, <2>3
<1>8. CASE /\ open /\ m < entry.opening
           /\ answer = [kind |-> "open_later", opening |-> entry.opening,
                        closing |-> entry.closing]
  <2>1. answer.kind = "open_later" /\ answer.opening = entry.opening
    BY <1>8
  <2>2. ~OpenAt(w, now)
    BY <1>1, <1>5, <1>8
  <2> DEFINE k == entry.opening - m
  <2>3. WaitFrom(w, now) = k
    <3>1. k \in 0 .. WeekLen * Minutes
      <4>1. 0 * Minutes + Minutes <= WeekLen * Minutes /\ WeekLen * Minutes \in Nat
        BY <1>1, DaysFollow
      <4>2. QED
        BY <1>1, <1>8, <4>1
    <3>2. \A j \in 0 .. k : now + j = d * Minutes + (m + j) /\ m + j \in Minute
      BY <1>1, <1>8 DEF Minute
    <3>3. OpenAt(w, now + k)
      BY <1>1, <1>5, <1>8, <3>1, <3>2
    <3>4. \A j \in 0 .. k - 1 : ~OpenAt(w, now + j)
      BY <1>1, <1>5, <1>8, <3>2
    <3>5. QED
      BY <1>1, <3>1, <3>3, <3>4, WaitIs
  <2>4. QED
    BY <2>1, <2>2, <2>3
<1>9. CASE /\ open /\ entry.opening <= m /\ m < entry.closing
           /\ answer = [kind |-> "open_now", closing |-> entry.closing]
  <2>1. answer.kind = "open_now" /\ answer.closing = entry.closing
    BY <1>9
  <2>2. ~late
    BY <1>1, <1>5, <1>9
  <2>3. \A r \in m .. entry.closing - 1 : OpenAt(w, d * Minutes + r)
    BY <1>1, <1>5, <1>9 DEF Minute
  <2>4. ~OpenAt(w, d * Minutes + entry.closing)
    <3>1. entry.closing \in Minute /\ entry.closing >= m
      BY <1>1, <1>9 DEF Minute
    <3>2. QED
      BY <1>1, <1>5, <2>2, <3>1
  <2>5. OpenAt(w, now)
    BY <1>1, <1>5, <1>9
  <2>6. QED
    BY <2>1, <2>3, <2>4, <2>5
<1>10. CASE /\ open /\ next # 0 /\ entry.opening <= m /\ entry.closing <= m
            /\ answer = OpensAgain("closed_tonight", w, d)
  <2>1. /\ answer.kind = "closed_tonight" /\ answer.offset = next
        /\ answer.opening = w[(d + next) % WeekLen].opening
    BY <1>10 DEF OpensAgain
  <2>2. ~late
    BY <1>1, <1>5, <1>10
  <2>3. ~OpenAt(w, now) /\ \A r \in m .. Minutes - 1 : ~OpenAt(w, d * Minutes + r)
    BY <1>1, <1>5, <1>10, <2>2 DEF Minute
  <2>4. WaitFrom(w, now) = next * Minutes + w[(d + next) % WeekLen].opening - m
    BY <1>10, <2>2, <2>3, OpensOnNextOpenDay
  <2>5. QED
    BY <2>1, <2>3, <2>4
<1>11. QED
  BY <1>6, <1>7, <1>8, <1>9, <1>10, AnswerIs

\* The answers about now, tonight and tomorrow tell one story.
LEMMA OneStoryOf ==
  ASSUME NEW w \in Weeks, NEW d \in Day, NEW m \in Minute
  PROVE  LET now == AnswerOpenNow(w, d, m)
             tomorrow == AnswerHoursTomorrow(w, d)
             tonight == AnswerClosingTimeTonight(w, d) IN
           /\ now.kind \in {"open_now", "open_later"} =>
                tonight.kind = "closes" /\ tonight.closing = now.closing
           /\ now.kind = "closed_tonight" => tonight.kind = "closes"
           /\ now.kind \in {"closed_today", "unknown"} => tonight.kind = "closed"
           /\ now.kind \in {"closed_today", "closed_tonight"} =>
                /\ now.offset = 1 <=> tomorrow.kind = "open"
                /\ tomorrow.kind = "open" => tomorrow.opening = now.opening
           /\ now.kind = "unknown" => tomorrow.kind # "open"
<1> DEFINE now == AnswerOpenNow(w, d, m)
           tomorrow == AnswerHoursTomorrow(w, d)
           tonight == AnswerClosingTimeTonight(w, d)
           next == NextOpenDay(w, d)
           entry == w[(d + 1) % WeekLen]
<1>1. WeekLen \in Nat \ {0} /\ d \in Nat /\ (d + 1) % WeekLen \in Day
  <2>1. WeekLen \in Nat \ {0}
    BY HoursAssumption
  <2>2. d \in Nat
    BY <2>1 DEF Day
  <2>3. d + 1 \in Nat
    BY <2>2
  <2>4. QED
    BY <2>1, <2>2, <2>3, WeekIsTyped
<1>2. /\ tonight.kind = "closes" <=> IsOpenOn(w[d])
      /\ tonight.kind = "closed" <=> ~IsOpenOn(w[d])
      /\ IsOpenOn(w[d]) => tonight.closing = w[d].closing
  BY DEF AnswerClosingTimeTonight
<1>3. /\ tomorrow.kind = "open" <=> IsOpenOn(entry)
      /\ IsOpenOn(entry) => tomorrow.opening = entry.opening
  <2>1. NothingOnFile(w) => ~IsOpenOn(entry)
    BY <1>1 DEF NothingOnFile, IsOpenOn
  <2>2. QED
    BY <2>1 DEF AnswerHoursTomorrow, Unknown
<1>4. next # 0 => (next = 1 <=> IsOpenOn(entry))
  BY <1>1, NextOpenDayIs
<1>5. next = 0 => ~IsOpenOn(entry)
  BY <1>1, AnswerIs
<1> HIDE DEF tomorrow, tonight, next, entry
<1>6. CASE now = Unknown
  <2>1. now.kind = "unknown" /\ next = 0 /\ ~IsOpenOn(w[d])
    BY <1>6, AnswerIs DEF Unknown, OpensAgain, next
  <2>2. QED
    BY <1>2, <1>3, <1>5, <2>1 DEF tomorrow, tonight
<1>7. ASSUME NEW kind \in {"closed_today", "closed_tonight"}, next # 0,
             now = OpensAgain(kind, w, d), kind = "closed_tonight" <=> IsOpenOn(w[d])
      PROVE  /\ now.kind \in {"closed_today", "closed_tonight"}
             /\ now.kind = "closed_tonight" <=> tonight.kind = "closes"
             /\ now.kind = "closed_today" <=> tonight.kind = "closed"
             /\ now.offset = 1 <=> tomorrow.kind = "open"
             /\ tomorrow.kind = "open" => tomorrow.opening = now.opening
  <2>1. /\ now.kind = kind /\ now.offset = next
        /\ now.opening = w[(d + next) % WeekLen].opening
    BY <1>7 DEF OpensAgain, next
  <2>2. next = 1 => now.opening = entry.opening
    BY <2>1 DEF entry
  <2>3. QED
    BY <1>2, <1>3, <1>4, <1>7, <2>1, <2>2
<1>8. CASE IsOpenOn(w[d]) /\ now.kind \in {"open_now", "open_later"}
             /\ now.closing = w[d].closing
  BY <1>2, <1>8 DEF tomorrow, tonight
<1>9. \/ now = Unknown
      \/ ~IsOpenOn(w[d]) /\ next # 0 /\ now = OpensAgain("closed_today", w, d)
      \/ IsOpenOn(w[d]) /\ now.kind \in {"open_now", "open_later"} /\ now.closing = w[d].closing
      \/ IsOpenOn(w[d]) /\ next # 0 /\ now = OpensAgain("closed_tonight", w, d)
  BY AnswerIs DEF next
<1>10. CASE ~IsOpenOn(w[d]) /\ next # 0 /\ now = OpensAgain("closed_today", w, d)
  BY <1>7, <1>10 DEF tomorrow, tonight, OpensAgain
<1>11. CASE IsOpenOn(w[d]) /\ next # 0 /\ now = OpensAgain("closed_tonight", w, d)
  BY <1>7, <1>11 DEF tomorrow, tonight, OpensAgain
<1>12. QED
  BY <1>6, <1>8, <1>9, <1>10, <1>11
-----------------------------------------------------------------------------
(* The summary, by the least day at which it could go wrong: the stretches *)
(* up to a day are a function defined from those up to the day before.     *)

Stretch == [first : Day, last : Day, key : [open : BOOLEAN, opening : Minute, closing : Minute]]

\* The stretches up to a day, from those up to the day before.
Extended(w, before, d) ==
  IF before # <<>> /\ before[Len(before)].key = Key(w[d])
  THEN [before EXCEPT ![Len(before)].last = d]
  ELSE Append(before, [first |-> d, last |-> d, key |-> Key(w[d])])

Stretches(w, f, d) == Extended(w, IF d = 0 THEN <<>> ELSE f[d - 1], d)

\* A table of the stretches up to each of the days until n.
IsTable(w, f, n) == f = [d \in 0 .. n |-> Stretches(w, f, d)]

\* There is such a table for every day.
LEMMA TablesExist ==
  ASSUME NEW w, NEW n \in Nat
  PROVE  \E f : IsTable(w, f, n)
<1> DEFINE without == {k \in Nat : ~ \E f : IsTable(w, f, k)}
<1>1. SUFFICES ASSUME without # {} PROVE FALSE
  OBVIOUS
<1>2. PICK k \in without : \A j \in without : k <= j
  <2>1. without \subseteq Nat
    OBVIOUS
  <2> HIDE DEF without
  <2>2. QED
    BY <1>1, <2>1, LeastNumber
<1>3. k \in Nat /\ ~ \E f : IsTable(w, f, k)
  OBVIOUS
<1>4. CASE k = 0
  <2> DEFINE f == [d \in 0 .. 0 |-> Extended(w, <<>>, d)]
  <2>1. \A d \in 0 .. 0 : Stretches(w, f, d) = Extended(w, <<>>, d)
    BY DEF Stretches
  <2>2. IsTable(w, f, k)
    BY <1>4, <2>1 DEF IsTable
  <2>3. QED
    BY <1>3, <2>2
<1>5. CASE k # 0
  <2>1. k - 1 \in Nat /\ k - 1 \notin without
    BY <1>2, <1>3, <1>5
  <2>2. PICK g : IsTable(w, g, k - 1)
    BY <2>1
  <2> DEFINE f == [d \in 0 .. k |-> IF d = k THEN Extended(w, g[k - 1], k) ELSE g[d]]
  <2>3. ASSUME NEW d \in 0 .. k PROVE f[d] = Stretches(w, f, d)
    <3>1. CASE d = k
      <4>1. f[k] = Extended(w, g[k - 1], k) /\ f[k - 1] = g[k - 1]
        BY <1>3, <1>5
      <4>2. QED
        BY <1>5, <3>1, <4>1 DEF Stretches
    <3>2. CASE d # k
      <4>1. d \in 0 .. k - 1 /\ f[d] = g[d] /\ (d # 0 => f[d - 1] = g[d - 1])
        BY <1>3, <3>2
      <4>2. g[d] = Stretches(w, g, d)
        BY <2>2, <4>1 DEF IsTable
      <4>3. QED
        BY <4>1, <4>2 DEF Stretches
    <3>3. QED
      BY <3>1, <3>2
  <2>4. f = [d \in 0 .. k |-> Stretches(w, f, d)]
    BY <2>3
  <2>5. IsTable(w, f, k)
    BY <2>4 DEF IsTable
  <2>6. QED
    BY <1>3, <2>5
<1>6. QED
  BY <1>4, <1>5

\* The summary is the last line of one.
LEMMA SummaryIsOfATable ==
  ASSUME NEW w
  PROVE  \E f : IsTable(w, f, WeekLen - 1) /\ Groups(w) = f[WeekLen - 1]
<1> DEFINE f == CHOOSE f : IsTable(w, f, WeekLen - 1)
<1>1. IsTable(w, f, WeekLen - 1)
  <2>1. WeekLen - 1 \in Nat
    BY HoursAssumption
  <2>2. QED
    BY <2>1, TablesExist
<1>2. Groups(w) = f[WeekLen - 1]
  BY DEF Groups, IsTable, Stretches, Extended, Day
<1>3. QED
  BY <1>1, <1>2

\* What is right of the stretches up to a day.
Faithful(w, g, d) ==
  /\ g \in Seq(Stretch) /\ g # <<>>
  /\ g[1].first = 0 /\ g[Len(g)].last = d
  /\ \A i \in 1 .. Len(g) : g[i].first <= g[i].last
  /\ \A i \in 1 .. Len(g) - 1 : g[i + 1].first = g[i].last + 1 /\ g[i + 1].key # g[i].key
  /\ \A i \in 1 .. Len(g), e \in Day : e \in g[i].first .. g[i].last => g[i].key = Key(w[e])

LEMMA KeyIsTyped ==
  ASSUME NEW w \in Weeks, NEW d \in Day
  PROVE  Key(w[d]) \in [open : BOOLEAN, opening : Minute, closing : Minute]
BY WeekIsTyped, HoursAssumption DEF Key, Minute

\* A key tells whether a day is open and when; days told apart by it differ in that.
LEMMA KeyTells ==
  ASSUME NEW x, NEW y
  PROVE  /\ Key(x).open <=> IsOpenOn(x)
         /\ Key(x).open => Key(x).opening = x.opening /\ Key(x).closing = x.closing
         /\ Key(x) # Key(y) => ~SameHours(x, y)
BY DEF Key, SameHours

\* The first day is a stretch.
LEMMA FirstDayIsFaithful ==
  ASSUME NEW w \in Weeks
  PROVE  Faithful(w, Extended(w, <<>>, 0), 0)
<1> DEFINE s == [first |-> 0, last |-> 0, key |-> Key(w[0])]
<1>1. 0 \in Day
  BY HoursAssumption DEF Day
<1>2. Extended(w, <<>>, 0) = <<s>>
  BY DEF Extended
<1>3. s \in Stretch /\ s.first = 0 /\ s.last = 0 /\ s.key = Key(w[0])
  BY <1>1, KeyIsTyped DEF Stretch
<1> HIDE DEF s
<1>4. Faithful(w, <<s>>, 0)
  <2>1. \A e \in Day : e \in 0 .. 0 => e = 0
    OBVIOUS
  <2>2. /\ <<s>> \in Seq(Stretch) /\ <<s>> # <<>> /\ Len(<<s>>) = 1 /\ <<s>>[1] = s
    BY <1>3
  <2>3. QED
    BY <1>3, <2>1, <2>2 DEF Faithful
<1>5. QED
  BY <1>2, <1>4

\* A day joins the last stretch or begins another.
LEMMA NextDayIsFaithful ==
  ASSUME NEW w \in Weeks, NEW d \in Day, d # 0, NEW g, Faithful(w, g, d - 1)
  PROVE  Faithful(w, Extended(w, g, d), d)
<1> DEFINE n == Len(g)
<1>1. /\ g \in Seq(Stretch) /\ n \in Nat /\ 1 <= n /\ d \in Nat
      /\ \A i \in 1 .. n : /\ g[i] \in Stretch /\ g[i].first \in Nat /\ g[i].last \in Nat
                           /\ g[i].key \in [open : BOOLEAN, opening : Minute, closing : Minute]
  <2>1. Day \subseteq Nat
    BY HoursAssumption DEF Day
  <2>2. g \in Seq(Stretch) /\ n \in Nat /\ 1 <= n /\ \A i \in 1 .. n : g[i] \in Stretch
    BY DEF Faithful
  <2>3. \A s \in Stretch : s.first \in Nat /\ s.last \in Nat
                           /\ s.key \in [open : BOOLEAN, opening : Minute, closing : Minute]
    BY <2>1 DEF Stretch
  <2>4. QED
    BY <2>1, <2>2, <2>3
<1>2. CASE g[n].key = Key(w[d])
  <2> DEFINE s == [g[n] EXCEPT !.last = d]
             h == [g EXCEPT ![n] = s]
  <2>1. s \in Stretch /\ s.first = g[n].first /\ s.last = d /\ s.key = g[n].key
    BY <1>1 DEF Stretch
  <2>2. Extended(w, g, d) = h
    BY <1>1, <1>2 DEF Extended, Faithful
  <2> HIDE DEF s
  <2>3. /\ h \in Seq(Stretch) /\ Len(h) = n /\ h[n] = s
        /\ \A i \in 1 .. n - 1 : h[i] = g[i]
    BY <1>1, <2>1
  <2> HIDE DEF h
  <2>4. h # <<>> /\ h[1].first = 0 /\ h[Len(h)].last = d
    BY <1>1, <2>1, <2>3 DEF Faithful
  <2>5. ASSUME NEW i \in 1 .. Len(h) - 1
        PROVE  h[i + 1].first = h[i].last + 1 /\ h[i + 1].key # h[i].key
    <3>1. i \in 1 .. n - 1 /\ i + 1 \in 1 .. n /\ h[i] = g[i]
      BY <1>1, <2>3
    <3>2. g[i + 1].first = g[i].last + 1 /\ g[i + 1].key # g[i].key
      BY <3>1 DEF Faithful
    <3>3. h[i + 1].first = g[i + 1].first /\ h[i + 1].key = g[i + 1].key
      <4>1. CASE i + 1 = n
        BY <2>1, <2>3, <4>1
      <4>2. CASE i + 1 # n
        <5>1. i + 1 \in 1 .. n - 1
          BY <1>1, <3>1, <4>2
        <5>2. QED
          BY <2>3, <5>1
      <4>3. QED
        BY <4>1, <4>2
    <3>4. QED
      BY <3>1, <3>2, <3>3
  <2>6. ASSUME NEW i \in 1 .. Len(h), NEW e \in Day, e \in h[i].first .. h[i].last
        PROVE  h[i].key = Key(w[e])
    <3>1. CASE i < n
      BY <1>1, <2>3, <2>6, <3>1 DEF Faithful
    <3>2. CASE i = n /\ e = d
      BY <1>2, <2>1, <2>3, <3>2
    <3>3. CASE i = n /\ e # d
      <4>1. e \in g[n].first .. g[n].last
        BY <1>1, <2>1, <2>3, <2>6, <3>3 DEF Faithful
      <4>2. QED
        BY <1>1, <2>1, <2>3, <3>3, <4>1 DEF Faithful
    <3>4. QED
      BY <1>1, <2>3, <3>1, <3>2, <3>3
  <2>7. \A i \in 1 .. Len(h) : h[i].first <= h[i].last
    <3>1. /\ \A i \in 1 .. n : g[i].first <= g[i].last
          /\ g[n].last = d - 1
      BY DEF Faithful
    <3>2. s.first <= s.last
      BY <1>1, <2>1, <3>1
    <3>3. QED
      BY <1>1, <2>3, <3>1, <3>2
  <2>8. QED
    BY <2>2, <2>3, <2>4, <2>5, <2>6, <2>7 DEF Faithful
<1>3. CASE g[n].key # Key(w[d])
  <2> DEFINE s == [first |-> d, last |-> d, key |-> Key(w[d])]
             h == Append(g, s)
  <2>1. s \in Stretch /\ s.first = d /\ s.last = d /\ s.key = Key(w[d])
    BY KeyIsTyped DEF Stretch
  <2>2. Extended(w, g, d) = h
    BY <1>3 DEF Extended
  <2> HIDE DEF s
  <2>3. /\ h \in Seq(Stretch) /\ Len(h) = n + 1 /\ h[n + 1] = s
        /\ \A i \in 1 .. n : h[i] = g[i]
    BY <1>1, <2>1
  <2> HIDE DEF h
  <2>4. h # <<>> /\ h[1].first = 0 /\ h[Len(h)].last = d
    BY <1>1, <2>1, <2>3 DEF Faithful
  <2>5. ASSUME NEW i \in 1 .. Len(h) - 1
        PROVE  h[i + 1].first = h[i].last + 1 /\ h[i + 1].key # h[i].key
    <3>1. CASE i = n
      <4>1. h[i] = g[n] /\ h[i + 1] = s /\ g[n].last = d - 1
        BY <1>1, <2>3, <3>1 DEF Faithful
      <4>2. QED
        BY <1>1, <1>3, <2>1, <4>1
    <3>2. CASE i # n
      <4>1. i \in 1 .. n - 1 /\ h[i] = g[i] /\ h[i + 1] = g[i + 1]
        BY <1>1, <2>3, <3>2
      <4>2. QED
        BY <4>1 DEF Faithful
    <3>3. QED
      BY <3>1, <3>2
  <2>6. ASSUME NEW i \in 1 .. Len(h), NEW e \in Day, e \in h[i].first .. h[i].last
        PROVE  h[i].key = Key(w[e])
    <3>1. CASE i = n + 1
      <4>1. e = d
        BY <1>1, <2>1, <2>3, <2>6, <3>1
      <4>2. QED
        BY <2>1, <2>3, <3>1, <4>1
    <3>2. CASE i # n + 1
      <4>1. i \in 1 .. n /\ h[i] = g[i]
        BY <1>1, <2>3, <3>2
      <4>2. e \in g[i].first .. g[i].last
        BY <2>6, <4>1
      <4>3. g[i].key = Key(w[e])
        BY <4>1, <4>2 DEF Faithful
      <4>4. QED
        BY <4>1, <4>3
    <3>3. QED
      BY <3>1, <3>2
  <2>7. \A i \in 1 .. Len(h) : h[i].first <= h[i].last
    <3>1. \A i \in 1 .. n : g[i].first <= g[i].last
      BY DEF Faithful
    <3>2. s.first <= s.last
      BY <1>1, <2>1
    <3>3. QED
      BY <1>1, <2>3, <3>1, <3>2
  <2>8. QED
    BY <2>2, <2>3, <2>4, <2>5, <2>6, <2>7 DEF Faithful
<1>4. QED
  BY <1>2, <1>3

\* The whole table is right: the first day at which it were not cannot be.
LEMMA TableIsFaithful ==
  ASSUME NEW w \in Weeks, NEW f, IsTable(w, f, WeekLen - 1)
  PROVE  \A d \in Day : Faithful(w, f[d], d)
<1> DEFINE wrong == {d \in Day : ~Faithful(w, f[d], d)}
<1>1. SUFFICES ASSUME wrong # {} PROVE FALSE
  OBVIOUS
<1>2. Day \subseteq Nat /\ Day = 0 .. WeekLen - 1
  BY HoursAssumption DEF Day
<1>3. PICK d \in wrong : \A e \in wrong : d <= e
  <2>1. wrong \subseteq Nat
    BY <1>2
  <2> HIDE DEF wrong
  <2>2. QED
    BY <1>1, <2>1, LeastNumber
<1>4. d \in Day /\ ~Faithful(w, f[d], d) /\ d \in Nat
  BY <1>2
<1>5. f[d] = Stretches(w, f, d)
  BY <1>2, <1>4 DEF IsTable
<1>6. CASE d = 0
  BY <1>4, <1>5, <1>6, FirstDayIsFaithful DEF Stretches
<1>7. CASE d # 0
  <2>1. d - 1 \in Day /\ ~ (d <= d - 1)
    BY <1>2, <1>4, <1>7, HoursAssumption
  <2>2. Faithful(w, f[d - 1], d - 1)
    BY <1>3, <2>1
  <2>3. f[d] = Extended(w, f[d - 1], d)
    BY <1>5, <1>7 DEF Stretches
  <2>4. QED
    BY <1>4, <1>7, <2>2, <2>3, NextDayIsFaithful
<1>8. QED
  BY <1>6, <1>7

\* The summary of a week is right.
LEMMA SummaryOf ==
  ASSUME NEW w \in Weeks
  PROVE  Faithful(w, Groups(w), WeekLen - 1)
<1>1. PICK f : IsTable(w, f, WeekLen - 1) /\ Groups(w) = f[WeekLen - 1]
  BY SummaryIsOfATable
<1>2. WeekLen - 1 \in Day
  BY HoursAssumption DEF Day
<1>3. QED
  BY <1>1, <1>2, TableIsFaithful

\* The answers agree with the week, minute by minute and day by day, whatever week the
\* editors have left: unless it is open past midnight, the door is open when callers are told
\* so and opens when they are told it will; the answers agree with each other, and the
\* summary leaves no day out and gives each its own hours (hours_answer.py).
THEOREM AnswersAgree == Spec => []AnswersAreRight
<1>1. ASSUME IInv PROVE AnswersAreRight
  <2>1. week \in Weeks
    BY <1>1 DEF IInv, TypeOK
  <2>2. OpenNowIsRight
    <3>1. ASSUME NEW d \in Day, NEW m \in Minute, OpenPastMidnight(week, d * Minutes + m)
          PROVE  OpenAt(week, d * Minutes + m)
      BY <3>1 DEF OpenPastMidnight, OpenAt
    <3>2. QED
      BY <2>1, <3>1, OpenNowOf DEF OpenNowIsRight
  <2>3. AnswersTellOneStory
    BY <2>1, OneStoryOf DEF AnswersTellOneStory
  <2>4. SummaryIsRight
    <3> DEFINE groups == Groups(week)
    <3>1. Faithful(week, groups, WeekLen - 1)
      BY <2>1, SummaryOf
    <3> HIDE DEF groups
    <3>2. /\ DOMAIN groups = 1 .. Len(groups) /\ Len(groups) \in Nat
          /\ \A g \in 1 .. Len(groups) : groups[g] \in Stretch
      BY <3>1 DEF Faithful
    <3>3. \A g \in 1 .. Len(groups), d \in Day :
            d \in groups[g].first .. groups[g].last => groups[g].key = Key(week[d])
      BY <3>1 DEF Faithful
    <3>4. \A g \in 1 .. Len(groups) - 1 :
            /\ groups[g + 1].first = groups[g].last + 1
            /\ groups[g + 1].key # groups[g].key
      BY <3>1 DEF Faithful
    <3>5. ASSUME NEW g \in 1 .. Len(groups) - 1
          PROVE  ~SameHours(week[groups[g].last], week[groups[g + 1].first])
      <4> DEFINE this == groups[g]
                 that == groups[g + 1]
      <4>1. g \in 1 .. Len(groups) /\ g + 1 \in 1 .. Len(groups)
        BY <3>2
      <4>2. /\ this \in Stretch /\ this.first <= this.last
            /\ that \in Stretch /\ that.first <= that.last
        BY <3>1, <4>1 DEF Faithful
      <4>3. /\ this.last \in Day /\ this.last \in this.first .. this.last
            /\ that.first \in Day /\ that.first \in that.first .. that.last
        BY <4>2, HoursAssumption DEF Stretch, Day
      <4>4. this.key = Key(week[this.last]) /\ that.key = Key(week[that.first])
        BY <3>3, <4>1, <4>3
      <4>5. that.key # this.key
        BY <3>4
      <4>6. QED
        BY <4>4, <4>5, KeyTells
    <3>6. ASSUME NEW g \in DOMAIN groups, NEW d \in Day,
                 d \in groups[g].first .. groups[g].last
          PROVE  /\ groups[g].key.open <=> IsOpenOn(week[d])
                 /\ groups[g].key.open => /\ groups[g].key.opening = week[d].opening
                                         /\ groups[g].key.closing = week[d].closing
      <4>1. groups[g].key = Key(week[d])
        BY <3>2, <3>3, <3>6
      <4>2. QED
        BY <4>1, KeyTells
    <3>7. groups[1].first = 0 /\ groups[Len(groups)].last = WeekLen - 1
      BY <3>1 DEF Faithful
    <3>8. QED
      BY <3>4, <3>5, <3>6, <3>7 DEF groups, SummaryIsRight
  <2>5. QED
    BY <2>2, <2>3, <2>4 DEF AnswersAreRight
<1>2. QED
  BY <1>1, HoursInvariant, PTL
=============================================================================
