---------------------------- MODULE CallerMemory ----------------------------
(***************************************************************************)
(* What the line knows about whoever is calling: the rows of `calls` and   *)
(* `reservations` that get_caller_profile reads (caller_service.py), the   *)
(* greeting and the booking the session takes from it (voice/session.py),  *)
(* the bookings the call itself makes (engine._book, tools.py), and the    *)
(* staff who change a booking's status from the dashboard at any time      *)
(* (reservation_service.py).  Several lines are open at once.  What is     *)
(* recited is fixed when it is looked up or booked, so it is known by the  *)
(* row it was taken from.                                                  *)
(***************************************************************************)
EXTENDS Integers, Sequences, FiniteSets

CONSTANTS
  Lines,       \* calls that may be open at once
  Restaurants, \* restaurants
  Numbers,     \* telephone numbers
  Withheld,    \* a caller who shows no number
  Window,      \* _RECOGNITION_WINDOW_DAYS
  Limit,       \* reservations read by the lookup
  LastDay,     \* bound: days
  MaxCalls,    \* bound: calls
  MaxRows      \* bound: reservation rows

ASSUME MemoryAssumption ==
  /\ Withheld \notin Numbers
  /\ Window \in Nat /\ Limit \in Nat \ {0}
  /\ LastDay \in Nat /\ MaxCalls \in Nat /\ MaxRows \in Nat

Days == 0 .. LastDay

\* ReservationStatusEnum, as far as anything tells its members apart: CONFIRMED stands for
\* COMPLETED and NO_SHOW too.
Statuses == {"PENDING", "CONFIRMED", "DECLINED", "CANCELLED"}

Greetings == {"default", "by_name", "welcome_back"}

VARIABLES
  today,        \* the day of `now`
  calls,        \* rows of `calls`, oldest first
  reservations, \* rows of `reservations`, oldest first; `kept`: committed
  line,         \* the call on each line, as an index of `calls`, and what it knows
  touched       \* history: rows whose status changed since the line was answered

memoryVars == <<today, calls, reservations, line, touched>>

Free == [at |-> "free", call |-> 0, greeting |-> "default", known |-> 0, made |-> {}]

Live(l) == line[l].at \in {"live", "booking"}
Caller(l) == calls[line[l].call].number
Restaurant(l) == calls[line[l].call].restaurant

-----------------------------------------------------------------------------
(* get_caller_profile.                                                      *)

\* (mutant: the call's own row is counted)
PreviousCalls_OwnRow(restaurant, number) ==
  Cardinality({i \in DOMAIN calls : /\ calls[i].restaurant = restaurant
                                    /\ calls[i].number = number
                                    /\ calls[i].day + Window >= today})

\* Calls inside the window, less the one being answered, whose row is already there.
PreviousCalls(restaurant, number) ==
  Cardinality({i \in DOMAIN calls : /\ calls[i].restaurant = restaurant
                                    /\ calls[i].number = number
                                    /\ calls[i].day + Window >= today}) - 1

BookedFor(restaurant, number) ==
  {i \in DOMAIN reservations : /\ reservations[i].kept
                               /\ reservations[i].restaurant = restaurant
                               /\ reservations[i].phone = number}

\* ORDER BY created_at DESC LIMIT
Newest(rows) == {i \in rows : Cardinality({j \in rows : j > i}) < Limit}

\* A date is stored as its midnight, so that today's has passed.
Upcoming(rows) ==
  {i \in rows : reservations[i].day > today /\ reservations[i].status # "CANCELLED"}

First(rows) == IF rows = {} THEN 0 ELSE CHOOSE i \in rows : \A j \in rows : j <= i

\* greeting_for; every reservation bears a name.
GreetingFor(previous, rows) ==
  IF rows # {} THEN "by_name" ELSE IF previous > 0 THEN "welcome_back" ELSE "default"

-----------------------------------------------------------------------------
(* A call.                                                                  *)

\* The voice webhook commits the row of the call.
Ring(l, restaurant, number) ==
  /\ line[l].at = "free" /\ Len(calls) < MaxCalls
  /\ calls' = Append(calls, [restaurant |-> restaurant, number |-> number, day |-> today])
  /\ line' = [line EXCEPT ![l] = [Free EXCEPT !.at = "ringing", !.call = Len(calls) + 1]]
  /\ touched' = [touched EXCEPT ![l] = {}]
  /\ UNCHANGED <<today, reservations>>

\* The stream starts: the lookup, the greeting, and the booking to be recited.  A caller
\* without a number is not looked up, and a lookup that fails greets like one.
Answer(l) ==
  /\ line[l].at = "ringing"
  /\ LET rows == Newest(BookedFor(Restaurant(l), Caller(l)))
         found == [line[l] EXCEPT
                     !.at = "live",
                     !.greeting = GreetingFor(PreviousCalls(Restaurant(l), Caller(l)), rows),
                     !.known = First(Upcoming(rows))]
     IN line' = [line EXCEPT
                   ![l] = IF Caller(l) = Withheld THEN [line[l] EXCEPT !.at = "live"]
                          ELSE found]
  /\ UNCHANGED <<today, calls, reservations, touched>>

AnswerUnknown(l) ==
  /\ line[l].at = "ringing"
  /\ line' = [line EXCEPT ![l].at = "live"]
  /\ UNCHANGED <<today, calls, reservations, touched>>

\* (mutant: the booking found at the start is recited still)
Book_KeepsOld(l, number, day) ==
  /\ line[l].at = "live" /\ Len(reservations) < MaxRows
  /\ reservations' = Append(reservations,
       [restaurant |-> Restaurant(l), phone |-> number, day |-> day,
        status |-> "PENDING", kept |-> FALSE])
  /\ LET new == Len(reservations) + 1
     IN line' = [line EXCEPT ![l].at = "booking", ![l].made = @ \cup {new}]
  /\ UNCHANGED <<today, calls, touched>>

\* The engine books for the caller's own number or another they give, and recites the
\* new booking from now on, or none if it cannot be put into words.
Book(l, number, day) ==
  /\ line[l].at = "live" /\ Len(reservations) < MaxRows
  /\ reservations' = Append(reservations,
       [restaurant |-> Restaurant(l), phone |-> number, day |-> day,
        status |-> "PENDING", kept |-> FALSE])
  /\ LET new == Len(reservations) + 1
     IN \E known \in {new, 0} :
          line' = [line EXCEPT ![l].at = "booking", ![l].known = known,
                               ![l].made = @ \cup {new}]
  /\ UNCHANGED <<today, calls, touched>>

\* The turn that booked is committed.
CommitTurn(l) ==
  /\ line[l].at = "booking"
  /\ reservations' = [i \in DOMAIN reservations |->
                        IF i \in line[l].made THEN [reservations[i] EXCEPT !.kept = TRUE]
                        ELSE reservations[i]]
  /\ line' = [line EXCEPT ![l].at = "live"]
  /\ UNCHANGED <<today, calls, touched>>

\* (mutant: the call survives the rollback with what it remembers)
RollbackTurn_CallGoesOn(l) ==
  /\ line[l].at = "booking"
  /\ line' = [line EXCEPT ![l].at = "live"]
  /\ UNCHANGED <<today, calls, reservations, touched>>

\* The turn that booked fails, or the caller hangs up before its commit.  After a
\* rollback every later turn of the call fails (CallSession): nothing is recited again.
RollbackTurn(l) ==
  /\ line[l].at = "booking"
  /\ line' = [line EXCEPT ![l].at = "mute"]
  /\ UNCHANGED <<today, calls, reservations, touched>>

LineHangsUp(l) ==
  /\ line[l].at \in {"ringing", "live", "mute"}
  /\ line' = [line EXCEPT ![l] = Free]
  /\ touched' = [touched EXCEPT ![l] = {}]
  /\ UNCHANGED <<today, calls, reservations>>

-----------------------------------------------------------------------------
(* The staff, and the calendar.                                             *)

\* PATCH: any status over any other; the last one stands.
UpdateStatus(i, value) ==
  /\ i \in DOMAIN reservations /\ reservations[i].kept
  /\ reservations[i].status # value
  /\ reservations' = [reservations EXCEPT ![i].status = value]
  /\ touched' = [l \in Lines |-> IF Live(l) THEN touched[l] \cup {i} ELSE touched[l]]
  /\ UNCHANGED <<today, calls, line>>

NextDay ==
  /\ today < LastDay
  /\ today' = today + 1
  /\ UNCHANGED <<calls, reservations, line, touched>>

MemoryInit ==
  /\ today = 0
  /\ calls = <<>>
  /\ reservations = <<>>
  /\ line = [l \in Lines |-> Free]
  /\ touched = [l \in Lines |-> {}]

MemoryNext ==
  \/ \E l \in Lines :
       \/ \E restaurant \in Restaurants, number \in Numbers \cup {Withheld} :
            Ring(l, restaurant, number)
       \/ Answer(l)
       \/ AnswerUnknown(l)
       \/ \E number \in Numbers, day \in Days : Book(l, number, day)
       \/ CommitTurn(l)
       \/ RollbackTurn(l)
       \/ LineHangsUp(l)
  \/ \E i \in 1 .. MaxRows, value \in Statuses : UpdateStatus(i, value)
  \/ NextDay

MemorySpec == MemoryInit /\ [][MemoryNext]_memoryVars

-----------------------------------------------------------------------------
(* Properties.                                                              *)

\* Every variable keeps its type.
MemoryTypeOK ==
  /\ today \in Days
  /\ calls \in Seq([restaurant : Restaurants, number : Numbers \cup {Withheld}, day : Days])
  /\ reservations \in Seq([restaurant : Restaurants, phone : Numbers, day : Days,
                           status : Statuses, kept : BOOLEAN])
  /\ line \in [Lines -> [at : {"free", "ringing", "live", "booking", "mute"},
                         call : 0 .. Len(calls), greeting : Greetings,
                         known : 0 .. Len(reservations),
                         made : SUBSET (1 .. Len(reservations))]]
  /\ \A l \in Lines : line[l].at # "free" => line[l].call > 0
  /\ touched \in [Lines -> SUBSET (1 .. Len(reservations))]

\* What can be recited on a line is a booking its caller has: of the restaurant that was
\* called, in the caller's own number or made on this very call, committed by the end of
\* the turn that booked it, and not cancelled -- unless the staff did so while the caller
\* was on the line (get_caller_profile reads once; _book remembers before the commit).
RecitesWhatTheyHave ==
  \A l \in Lines : Live(l) /\ line[l].known # 0 =>
    LET told == reservations[line[l].known] IN
      /\ told.restaurant = Restaurant(l)
      /\ told.phone = Caller(l) \/ line[l].known \in line[l].made
      /\ line[l].at = "live" => told.kept
      /\ line[l].known \notin touched[l] => told.status # "CANCELLED"

\* A caller who has just booked and asks for the booking hears that one, not the one
\* found when the call began ("the reservation that I just made", engine._book).
RecitesTheNewest ==
  \A l \in Lines : Live(l) /\ line[l].made # {} =>
    line[l].known \in {0, First(line[l].made)}

\* The other calls of this line's caller to this restaurant that are in the window, and
\* the bookings in the caller's number.
Acquainted(l) ==
  \/ \E i \in DOMAIN calls \ {line[l].call} :
       /\ calls[i].restaurant = Restaurant(l) /\ calls[i].number = Caller(l)
       /\ today - calls[i].day <= Window
  \/ \E i \in DOMAIN reservations :
       /\ reservations[i].kept /\ reservations[i].restaurant = Restaurant(l)
       /\ reservations[i].phone = Caller(l)

\* Nobody is greeted as known who is not: neither for the call they are making, nor for a
\* dealing with another restaurant, nor for a number they do not show (greeting_for: "an
\* unrecognized caller must never hear anything that hints a lookup happened").
StrangersHearTheDefault ==
  [][\A l \in Lines :
       /\ line[l].at = "ringing" /\ line'[l].at = "live"
       /\ line'[l].greeting # "default"
       => Acquainted(l) /\ Caller(l) # Withheld]_memoryVars

\* What engine._book calls the worst outcome: a caller told of a table they do not have.
\* The staff's refusal of a booking before the call should therefore be heeded.
RecitesNothingDeclined ==
  \A l \in Lines : Live(l) /\ line[l].known \notin {0} \cup touched[l] =>
    reservations[line[l].known].status # "DECLINED"
=============================================================================
