# A formal model of the AI restaurant receptionist

The program answers a restaurant's telephone: Twilio streams the call's audio over a
WebSocket, the backend transcribes it, a state machine decides what to say with the help
of language models, and the answer is synthesized and streamed back. Bookings are rows in
PostgreSQL, the restaurant's documents are chunks in Chroma, the owner is told of a booking
by a worker process that polls an outbox, and a React dashboard edits everything.

This directory holds TLA+ modules translated from that code, TLC configurations that check
them on small instances, and TLAPS proofs for every value of the constants. Line numbers
refer to `src/backend/app/` unless a path says otherwise.

## 1. The system

| Part | State it keeps | Operations | Talks to |
|---|---|---|---|
| Conversation engine (`conversation/engine.py`, `state.py`) | the conversation context: state, draft, UNCLEAR count, pending offer, transfer reason | `handle_turn` and its handlers, one await after another | language models, hours and knowledge services, `create_reservation_request` |
| Call session (`voice/session.py`) | turn task, `_speaking_until`, `_interrupted`, strikes, outcome, `should_close` | `start`, `handle_media`, `_run_turn`, `_speak`, `end` | engine, speech models, the call row, the socket |
| Webhooks and call record (`api/endpoints/twilio_webhooks.py`, `services/call_service.py`) | the `calls` row | voice, media stream, status, transfer | Twilio, session |
| Notification outbox (`conversation/tools.py`, `worker.py`, `services/notification_service.py`) | the `notifications` rows | enqueue, poll, send, flush, commit | SMS and e-mail providers |
| Knowledge base (`services/knowledge_service.py`, `rag/`) | document rows and Chroma chunks | create, delete, reindex, search | embedder, Chroma, engine |
| Turn detection (`audio/vad.py`) | buffered frames, trailing silence, the run of an interruption | `add_frame`, `pop_utterance`, `pop_frames`, `reset` | session |
| Opening hours (`services/hours_service.py`, `conversation/hours_answer.py`, `src/frontend/src/pages/HoursPage.tsx`) | one row per weekday | replace the week, answer | dashboard, engine |
| Caller memory (`services/caller_service.py`) | none: queries over calls and reservations | `get_caller_profile` | session |
| Reservations, FAQs, restaurants | rows | CRUD, one statement each | dashboard |
| Accounts (`services/auth_service.py`, `core/security.py`, `api/deps.py`) | users; stateless tokens | register, log in, refresh | dashboard |
| HTTP application, database session, metrics, settings, cache, providers, audio coding | connections and counters | routing, adapters | everything |
| Dashboard (`src/frontend/src`) | access and refresh token | pages, shared token refresh | API |

Where they meet:

* The media stream's **read loop** and the **turn task** it spawns run on one event loop and
  share the conversation context, the session's flags and *one* `AsyncSession`, which must not
  be used by two tasks at a time. A hangup can arrive at any await of the turn.
* The session, the status callbacks and the transfer webhook share the **call row**, each in a
  transaction of its own.
* A booking's transaction also queues **notifications**; workers read and write them later,
  without locking them when they poll.
* A knowledge request changes **Chroma at once and PostgreSQL at commit**; nothing ties the two.

What is hard, and what makes each part correct:

* *Engine.* Every await may raise and leaves the context half-way through a handler; a yes may
  arrive to a question asked long ago. Correct: rows are written only for the booking as it was
  last read back, a caller is handed over only when they agreed or asked, and nothing collected
  for one purpose is found by the next.
* *Session.* Frames, interruptions and a hangup during a turn; failures of recognition,
  synthesis, engine and database; a drain with a timeout. Correct: one speaker, one user of the
  database session, the outcome filed agrees with what was promised, and the call always ends.
  (A commit that outlives its cancelled turn is the one second user, section 3.)
* *Record.* Callbacks out of order, repeated webhooks, a process that dies. Correct: a caller
  promised a person is dialled, and every call is ended with an outcome.
* *Outbox.* Crashes between a send and its commit, lost answers, several replicas, channels
  switched off. Correct: nothing is dropped silently, nothing repeated needlessly, every row that
  a poll has room for is settled in the end.
* *Knowledge base.* Failures between the two stores, overlapping requests, a restart with other
  chunk settings. Correct: the stores agree, and old chunks are never mixed with new.
* *Turn detection.* The caller's frames, the assistant's own audio that is still being played
  and a turn that is working on the previous utterance, on three clocks. Correct: nothing heard
  is lost, the assistant never hears itself, an utterance is bounded and answered.
* *Opening hours.* Pages loaded at different times replace the whole week in overlapping
  transactions; answers cross midnight and the end of the week. Correct: a saved week is the
  week, an edit changes one day, and callers are told when the door is open (not so past midnight,
  section 8).
* *Caller memory.* Several calls, the bookings they make and the staff who change them, read once
  at the start of a call. Correct: a caller hears of their own bookings at this restaurant only,
  and a stranger hears nothing that hints at a lookup.
* *Dashboard session.* Requests refused together share a refresh; log-ins, log-outs and reloads
  happen while answers are on their way. Correct: nobody waits for an answer that has come, and
  the tokens are those of the user shown.

## 2. The modules

| Module | Models | Status |
|---|---|---|
| `ConversationEngine` | the engine, every handler, suspended and failing at every await | checked and proved |
| `CallerConsent` | abstract: what the conversation promises its caller | refined by `ConversationEngine` |
| `EngineResults` | pure: what a turn may make of the part of the context the session looks at | used by `CallSession` and `EngineTurns` |
| `EngineTurns` | abstract: the engine as the session takes it to be | refined by `ConversationEngine` |
| `ConversationEngineProofs` | the engine's inductive invariant, its theorems and both refinements | proved |
| `CallSession`, `CallSessionProofs` | read loop, turn task, speaking, drain and end of one call; it implements the session of `CallRecord` | checked and proved |
| `TurnDetection`, `TurnDetectionProofs` | the detectors of the caller's turn, under the session's clock of its own audio | checked and proved |
| `CallRecord`, `CallRecordProofs` | the row of one call and its four handlers; the proofs also hold those of `CallerMemory` | checked and proved |
| `CallerMemory` | calls and reservations as the greeting and the recited booking use them | checked and proved |
| `NotificationOutbox`, `NotificationOutboxProofs` | the notifications table and its workers | checked and proved |
| `KnowledgeBase`, `KnowledgeBaseProofs` | document rows and Chroma under concurrent requests | checked and proved |
| `HoursAnswers` | pure: the answers about the hours, and what a week means minute by minute | checked against each other in `OpeningHours` and proved to agree |
| `OpeningHours`, `OpeningHoursProofs` | the page, the API and overlapping replacements of the week | checked and proved |
| `DashboardSession`, `DashboardSessionProofs` | the tokens and the user of one tab, its requests and the server's accounts | checked and proved |
| `MC…` | instances for TLC: values for the constants, nothing else | |

A definition whose name contains an underscore (`Abandoned_KeepsDraft`) is a *mutant*: the
definition named before the underscore as a plausible bug would change it. `PROJECT.json`
pairs each checked property with a mutant that breaks it. No action uses them.

The modules of one call hang together by refinement, so that no model relies on more of its
neighbour than the neighbour's own model gives:

    CallerConsent <== ConversationEngine ==> EngineTurns
                                                 |  the operators of EngineResults
                                             CallSession ==> CallRecord

### ConversationEngine

`ctx` is `ConversationContext`; `pc` names the await a turn is suspended on, so that each
action is the code between two awaits, and `TurnRaises` may strike at any await that can raise.
`msg` is the utterance in hand, abstracted to what the word lists of `engine.py` and
`smalltalk.py` read in it: whether it says yes or no, whether it is short, wants out, is a
farewell, a question, and so on. What a language model answers (intent, escalation, extracted
fields, a reading of a reply, whether an answer is grounded) is a free choice, as is whether the
sentence about a new booking renders. Validation of fields is reduced to its contract: a
validated value replaces the old one, nothing known is dropped. `bookings` are the rows written.
`heard`, `read_back` and `taken` are history: what kind of line the caller heard last, the details
recited in the read-back under discussion, and how the caller's last words have been read so far
in this turn: as a yes, a no, neither, or a wish for a person.

| Action | Code |
|---|---|
| `Turn` with `IdentifyIntent`, `CollectingTurn`, `ConfirmingTurn`, `ConfirmTransferTurn` | `handle_turn` up to its first await |
| `Classify` | `_handle_identify_intent` after the two classifiers, `_route_intent` |
| `AnswerHours`, `AnswerFaq` | `_handle_faq` |
| `FirstDetails`, `MoreDetails`, `AnswerSideQuestion` | `_handle_reservation_intent`, `_handle_reservation_collecting`, `_answer_without_losing_the_booking` |
| `Correction`, `ReadAgreement`, `Book` | `_handle_reservation_confirming`, `read_confirmation`, `_book` |
| `ReadTransferReply` | `_handle_confirm_transfer` after `read_confirmation` |

`CallerConsent` knows four things: what has been put to the caller (`asked`), how they have been
understood since (`said`), what was booked, whether the call was connected. `ImplementsConsent` is
`Consent!Spec` under the mapping `AskedOfCaller` and `taken`: a booking step of the engine must be
an `AgreeToBooking` of exactly the details read aloud, on words read as a yes; a handover an
`AgreeToTransfer` on words read as a yes to the pending offer, or a `DemandPerson` on words read as
a wish for a person with nothing pending; and everything else an `Ask`, a `Hear` or a stutter. An
engine that connected a caller who said no, or who said nothing decisive, would not implement it:
that is the mutant of the run.

`EngineTurns` is the engine seen from the session: the state, the reason of a transfer and
`answered_something`, what a turn waits for, and the result it hands back. `ImplementsTurns` is
`Turns!Spec` under `SessionView`, which reduces the conversation context to those, and
`LastResult`. What the engine may do is written once, in `EngineResults` (`Replies`, `Connected`,
`Listened`, `Settled`, `Informed`), and both `EngineTurns` and the engine actions of `CallSession`
are made of it: what the session is checked against is what the engine is shown to give.

### CallSession

`loop` and `turn` name the await the read loop and the turn task are suspended on. `line` is the
line being spoken, sentence by sentence; `playing` is `_is_speaking()`, reckoned from synthesis
as in the code, and so ends by the clock and not by the caller. `session` holds the flags and
the part of the context the session reads. `store` is the one `AsyncSession`: a refused
statement aborts its transaction, a cancelled one breaks it, a rollback expires the loaded call
row even with `expire_on_commit=False`, and a commit under `asyncio.shield` survives the
cancellation of its task as an orphan. Speech, engine and database may fail at every await, the
commits included: a commit the database refuses, and one of which only the answer is lost
(`CommitFails`), end a turn in its rollback (`CommitTurn`), the greeting in the end of the stream
(`CommitGreeting`), the filing in an exception out of `media_stream` (`FilingRefused`), and that of
a turn already cancelled unheard (`OrphanCommits`). The
engine is abstracted to the results `ConversationEngine` is shown to give (`EngineTurns`): an offer
dismissed before a model is asked (`EngineListens`), a reply, a handover, a query, a booking, a
raise. `ImplementsRecord` maps the session to the writer that `CallRecord` has for it: from the
opening of the stream on, every step is one of `CallRecord` or a stutter, a caller who is there is
given up only by a decision to hand over or by a failure, and what is filed is one decision whose
outcome and flag agree. Frames that are dropped or incomplete change nothing, except that the loop
looks at `should_close` after each (`CloseOnFrame`).

### TurnDetection

One unit of time is a frame of 20 ms. A frame is known by its energy against the two thresholds
(`Sounds`), an utterance by how many frames it has, how many of them are voiced and how many
silent ones it ends in. `Listen` is `handle_media` while the assistant is silent (`add_frame`, and
`create_task` when the utterance is complete), `TalkOver` while it plays (`BargeInDetector`),
`Interrupt` and `Cleared` the two halves of `_interrupt` around the await of `clear_audio`, after
which the run is replayed into the utterance. `TakeUtterance` is the turn's first step
(`pop_utterance`). `BeginLine`, `Synthesized`, `Skipped`, `Sent` are `_speak`, with
`playback_ends_at` and `_speaking_until` as time left from now; `Tick` moves the clock. `audio` is
what Twilio really holds; `overlapped` and `overtaken` are history and mark the two races of
section 8. `CallSession` leaves frames out and has the database and the end of the call instead.

### CallRecord

`row` is the committed row. The media stream's request and each status callback load it, work on
their copy and write back the columns they changed, as SQLAlchemy's unit of work does; a flush
waits for the row's lock. `twilio` is where Twilio is with the call. `SessionDies` stands for a
process that dies and for an `end()` that raises. `CanDial` says whether the restaurant has a
transfer number.

### NotificationOutbox

A worker's poll selects by SQL, then filters by feature flag and backoff, sends row after row,
flushes each and commits once at the end. `Fault` is a crash or a refused statement. `cooling`
holds the rows inside their backoff window, whose length is abstracted to "for some time".
`handed` and `unanswered` are history: what the provider accepted, and what it accepted with the
answer lost.

### KnowledgeBase

Between `Begin` and `Commit` a request empties Chroma (`Purge`), waits for the embeddings,
adds (`Index`), flushes and commits. Chroma's client is synchronous, so each call is atomic on
the event loop; `add` ignores ids it already holds. `Flush` issues an UPDATE only if the list of
ids differs from the one loaded, otherwise it takes no lock, and `refresh` fails if the row is
gone. `Fail` may strike at every await; `Redeploy` kills what is in flight and changes the chunk
settings. `trusted` and `spoiled` are history: which documents a failed or clashing request may
have left in an uncertain state. Documents share no state, so one suffices for TLC; the proofs
are for any number.

### HoursAnswers and OpeningHours

`HoursAnswers` holds `hours_answer.py` as operators on a week (`AnswerOpenNow`,
`AnswerHoursTomorrow`, `AnswerClosingTimeTonight`, `Groups` for the summary) and, independently,
`OpenAt` and `WaitFrom`: whether the door is open at a minute of an endless repetition of the week,
and for how long it is not. An entry whose closing time is not after its opening time runs past
midnight (`RunsPastMidnight`): until midnight when it closes at 00:00, around the clock when both
times are the same, as the API admits. A day without a row and a closed one are told apart from any
pair of times (`Key`), and the answers are compared with the entries, never with the keys the
summary is built from. A sentence is known by its kind and the days and times it names.
`OpeningHours` has one request per editor: the page is loaded and laid over its default week
(`Load`, `Merge`), or another client leaves days out (`Send`), then `replace_hours` as PostgreSQL
runs it. `BeginDelete` fixes which rows the DELETE sees, `Delete` waits for rows that others hold
and skips those they have deleted, `Insert` waits for others' uncommitted rows of the same day and
is refused by `uq_restaurant_day` where a committed one is in the way.

### CallerMemory

`calls` and `reservations` are the tables, oldest row first, `line` the calls that are live.
`Ring` is the voice webhook, `Answer` the lookup and the greeting, `Book` a booking in its turn,
flushed, remembered for reciting and not yet committed, `CommitTurn` and `RollbackTurn` what
becomes of it (a rollback leaves the line mute, as in `CallSession`), `UpdateStatus` the staff.
What is recited is known by the row it came from. Names that `CallRecord` has too begin with
`Memory` here (`MemorySpec`, `MemoryTypeOK`): `CallRecordProofs` extends both modules.

### DashboardSession

`tokens` is `localStorage`, `user` and `loading` are `AuthContext`, `request` has a slot for
`restoreSession`, one for log-in or registration and one for each request a page may have on its
way. `Unauthorized` is the response interceptor of `client.ts`: sent again already, or waiting for
the shared refresh, or signed out by a full load of `/login`. `RefreshAnswered` releases all that
wait. The server checks each request against the live row (`Authenticated`, `MayAccess`);
`RegisterAnswered` answers before `AccountCommitted`, because with `fastapi==0.104.1` the code of
`get_db_session` after its `yield` runs when the response has been sent. `overtaken` is history: a
log-in or log-out overtook an answer that was on its way.

## 3. The runs

A run's properties are those a reader would argue about. Type invariants and some further
invariants (`ReasonWhileTransferring`, `AwaitingAgreementToReadBack`, `TurnBelongsToState`,
`HandedOverOnce`, `NoEmptyTurn`, `HeldIsOfThisLine`, `DialedOnlyIfDecided`, `EndedIsResolved`,
`SentMeansHanded`, `DisabledIsUntouched`, `HeldOnce`, `OneRefresh`, `ClosesOnlyToHandOver`) are
proved for every value of the constants (section 6) and not listed in a run again.

| Run | Question | Result |
|---|---|---|
| `engine` | Whatever is said, answered or raised, do bookings and handovers happen only as agreed, and is the engine what the session takes it for? | holds; 375 thousand states |
| `session` | Do loop and turn keep out of each other's way, agree on what is filed, is that what the record expects, and does the call end? | holds; 104 thousand states |
| `turns` | Is what the caller says kept, bounded and answered, and is the assistant never heard as the caller? | holds; 23 thousand states |
| `record` | Do session, callbacks and transfer webhook agree on the row in any order, with crashes? | holds; 927 states |
| `callers` | Is a caller told of their own bookings only, and a stranger of nothing? | holds; 1.6 million states |
| `hours` | Does a saved week survive overlapping saves, does an edit change its day only, and are callers told when the door is open, past midnight excepted? | holds; 238 thousand states |
| `dashboard` | Do shared refreshes, log-ins, log-outs and reloads leave the right tokens and nobody waiting? | holds; 54 thousand states |
| `outbox` | Does one worker with crashes, lost answers and a disabled channel lose, repeat or strand nothing that a poll has room for? | holds; 2 thousand states |
| `outbox_replicas` | Do two workers with stale copies ever take back that a row was sent? | no; 2.1 million states |
| `knowledge` | Do the two stores agree wherever no failure or clash explains otherwise, and is a document ever mixed? | they agree, never mixed; 159 thousand states |

What the properties say, beyond the comment each carries in its module:

* `DraftOnlyWhileBooking`, `UnclearCallerIsOffered`: leftovers. Each relates a field to the
  conversation state across every exit, including a raise half-way.
* `AgreementAnswersItsQuestion`, `BookedOnlyAsAgreed`, `ImplementsConsent`: a yes to a booking or to
  a handover means what the caller thinks it means. (A yes to an offered topic need not, section 8.)
* `ImplementsTurns`, `ImplementsRecord`, `HandOverEndsStream` and `PromiseIsKept`: the chain from
  "connecting you" to the restaurant's telephone ringing. Engine, session and record each carry one
  link, and the two refinements join the links.
* `OneSpeaker`, `OneUserOfTheDatabase`: the interleavings of loop and turn. The second counts a
  cancelled turn's commit as use of the database session and names the one case in which the loop
  meets it: in `finalize_call`, after a drain that timed out during the commit.
* `StrikesHandOver`, `OutcomeAgreesWithTransfer`, `BookingIsFiled`: what is filed about the call
  agrees with what happened on it, although flag and outcome are set at different times with a
  database write that may fail in between, and although each commit may be refused or only seem so.
* `HangUpEndsSession`: however slow or stuck the turn is.
* `UtteranceIsBounded`, `HeardIsKept`, `SilentWhenListening`, `HeardIsAnswered`: the buffer that
  interruptions are replayed into while another turn is in flight, and the reckoned end of
  playback against the real one.
* `TransferredIsFinal`, `PromiseIsKept`, `EveryCallIsEnded`: the row under stale writers and crashes.
* `RecitesWhatTheyHave`, `RecitesTheNewest`, `StrangersHearTheDefault`: what is read once at the
  start of a call against what becomes of it during the call.
* `SavedMeansSaved`, `OnlyTheEditChanges`, `EveryRequestEnds`, `AnswersAreRight`: overlapping saves
  of whole weeks, and the answers given from whatever week they leave, at every day and minute.
  `AnswersAreRight` has three parts: nobody is told that a shut door is open, an open one is said to
  be open unless it is open past midnight, and when it opens or shuts next is right but for that
  time too (`OpenNowIsRight`); the answers about now, tonight and tomorrow, each found on its own, never contradict
  each other (`AnswersTellOneStory`); the summary gives each day its own entry (`SummaryIsRight`).
* `NobodyLeftWaiting`, `TokensFollowUser`, `EveryFetchEnds`, `LoadingEnds`: the shared refresh.
* `ExhaustedIsExplained`, `NoNeedlessDuplicate`, `DueRowsAreSettled`, `SentIsFinal`: the outbox.
  `DueRowsAreSettled` says under which condition a row is settled: fewer rows of switched-off
  channels precede it than a poll fetches.
* `StoresAgree`, `NoMixedChunks`, `ReindexIsCurrent`: the knowledge base; the last is the promise
  of `reindex_document` to repair what a partial failure left behind.

Two runs end in a counterexample, each for a sentence the repository says of itself (section 8
lists the disagreements no run repeats):

| Run | What it shows |
|---|---|
| `session_rolled_back` | `session.py:387` says a failed turn leaves "the call standing"; the rollback expires the call row and each later turn fails on it. |
| `caller_declined` | `caller_service.py:110` leaves out cancelled bookings only, so a booking the restaurant has declined is still recited; `engine.py` calls a caller told of a table they do not have the worst outcome. |

## 4. Bounds, and why they are enough

* `engine`: two fields (the phone number, which is recited only sometimes, and one that always
  is), two values, one booking, a limit of two misunderstood turns (as in the code). One booking
  already leads back to every state with an empty draft, so a second would repeat the same steps.
  Utterances have every reading and length with no phrase, one phrase or two that meet in one
  handler. Calls are of unbounded length: the state space is finite without a bound on turns.
* `session`: four turns, lines of one or two sentences, the code's limits of three strikes. Four
  turns give three strikes in a row and a turn after them, two sentences an interruption between
  and during sentences. The filler is spoken and barge-in is on, which is the richer setting; the
  run that ends in a counterexample uses the smaller instance without filler and with two turns.
* `turns`: a hangover of three frames, a cap of eight, an interruption of three. The ratio is the
  code's: two interruptions (one per line of a turn, filler and reply) fit under the cap with room
  to spare (2 x 15 frames of 750), which is what `UtteranceIsBounded` rests on. Lines of up to
  three sentences of one or two frames, a playback tail of two; the call is of any length.
* `record`: two status callbacks and one repeated webhook: a stale callback beside a fresh one.
* `callers`: two lines, restaurants and numbers (interchangeable, hence the symmetry; there is no
  liveness to check), two calls, two reservations, two days with a window of none, a lookup that
  reads one row: a lookup that returns another's row, too old a row or the wrong one of two is
  within reach.
* `hours`: a week of three days of three minutes, two editors; the entries are closed, within a day,
  past midnight and around the clock. Two overlapping transactions are the hazard; with three the code
  behaves as for some pair of them.
* `dashboard`: two users, one request of a page besides those that restore the session and log in:
  three requests that can fail together, of two different users.
* `outbox`: five rows of all three kinds, two of them of the disabled channel, a limit of two, two
  attempts, one fault. Rows before, between and after the disabled ones: the last row is one that
  `DueRowsAreSettled` excludes, and that is in fact never sent (section 8).
  `outbox_replicas`: two workers, two rows, one fault.
* `knowledge`: one document, four requests, three configurations with two, three and one chunk:
  enough for a creation, a failed reindexing under a second configuration and two requests that
  overlap under a third.

Deadlock is checked where the system runs for ever (engine, outbox). A call and a finite set of
requests come to an end: `CHECK_DEADLOCK FALSE` there.

## 5. Fairness, and why the code justifies it

* `CallSession!FairSpec`: weak fairness of the read loop's own steps. They are local synthesis,
  database statements with the driver's time-outs, frames every 20 ms while the caller is on the
  line, and a drain bounded by `asyncio.wait_for`. **Nothing** is assumed of the turn: a model that
  never answers is allowed, and the hangup still ends the session.
* `TurnDetection!FairSpec`: the clock moves, a frame arrives while an utterance is
  buffered (Twilio sends one every 20 ms, silent ones too), and the loop's `clear_audio` returns.
  Nothing is assumed of the turn's own awaits.
* `CallRecord!FairSpec`: a request that was begun ends, and Twilio reports the end of a call. A
  session's death is not assumed away (it disables the session's steps).
* `OpeningHours!FairSpec`: each request goes on when it is not waiting for a lock.
* `DashboardSession!FairSpec`: each request on its way is answered or fails. Nothing is assumed of
  the person at the page: `LoadingEnds` excludes only one who reloads for ever.
* `NotificationOutbox!FairSpec`: `main()` polls in an endless loop that survives exceptions,
  providers have time-outs, and the backoff is capped. Faults are bounded by `MaxFaults`: if every
  poll crashed nothing could be promised.

## 6. What is proved

For **every** value of the constants that satisfies the assumption the module names. In each
module an `IInv` is shown to hold initially and to be preserved by every step, with a lemma per
action or family of actions; the theorems follow from it.

* `ConversationEngineProofs` (`EngineAssumption`: required and spoken fields are fields, `NoValue`
  is no value, utterances and profiles have their type, the UNCLEAR limit is positive). That a
  booking is agreed needs to know what may reach `_book` (`TurnBelongsToState`) and what has been
  read back, with the draft untouched between the read-back and the yes; the count stays in its
  type only because a person is offered at the limit. Since every turn ends in one of a few ways
  (`Say`, `Await`, `ConnectCaller`, `OfferTransfer`, `PromptOrReadBack`, `IdentifyIntent`), the
  invariant is proved once for each way of ending, in a `Sound` context, and each action only has
  to be shown to reach an ending in one. `EngineImplementsConsent` is the refinement: initial
  state to initial state, every step to a step of `CallerConsent` or a stutter. Its handover steps
  need what the words were taken for at the point of connecting (`taken`), not only that an offer
  was pending.
  `EngineImplementsTurns` is the second refinement, laid out the same way: one lemma for each way
  of ending says which step of `EngineTurns` it is (`SayMaps`, `ConnectMaps`, `OfferMaps` and so
  on), one for each handler brings it to an ending, and `TurnsStep` collects them. It uses the
  invariant where the state decides what a turn may become, above all that a turn waiting for the
  database is no longer in a state that offers a person.
* `CallSessionProofs` (`SessionAssumption`: positive limits). Two invariants: `IInv` is about
  control (where the loop can be while a turn is in flight, whose line is spoken, in which turns a
  strike may still be counted), `JInv` about the database session. The second says when the call
  is *spoiled* (its row expired, or the transaction refused and not yet rolled back): the outcome
  and the conversation's state may part while the line that tells of the change is being recorded,
  and for longer only in a spoiled call, which is never filed. A refused commit spoils the call as
  a refused statement does, and one whose answer was lost does so with the booking already saved. From it `OutcomeAgreesWithTransfer`,
  `BookingIsFiled` and `StrikesHandOver`; from the first `OneSpeaker` and `ClosesOnlyToHandOver`; from
  both `OneUserOfTheDatabase`, since when a commit may be orphaned is the second's.
  `SessionImplementsRecord` is the refinement of `CallRecord`'s session. `ClosesOnlyToHandOver` is
  too weak for it, because the turn in flight when the loop leaves may still change flags and
  outcome; `EndInv` says what must be so of a caller who is there while the call is ending, and
  is carried through the drain.
* `TurnDetectionProofs` (`DetectionAssumption`: among others, two interruptions fit under the cap).
  The cap holds because an interrupted line never speaks again, so that at most one run per line
  of a turn is replayed into the buffer (`RoomInBuffer`); `SilentWhenListening` because the reckoned
  end of playback covers the real one (`ClockCoversAudio`).
* `CallRecordProofs` (`RecordAssumption`). The writers work on copies; whoever reads a row that has
  not ended reads the row as it was created, so the columns a copy writes back are known
  (`RowIsNewUntilEnded`, `SessionCopy`, `StatusCopy`). The second half is about `CallerMemory`
  (`MemoryAssumption`: a withheld number is nobody's): `MemoryInv` says of each line where the
  booking it knows comes from (`Knows`), and that rows stay whose they are while staff and other
  calls change them (`RowsStay`). For `RecitesTheNewest` the booking just made
  is the last row, and so the newest of all the line has made. `StrangersHearTheDefault` is an action property of the greeting.
* `NotificationOutboxProofs` (`OutboxAssumption`; `NoNeedlessDuplicate` also `OneWorker`). Each
  worker's copy is related to what it saw and that to the table, which only grows in what it says
  of a row (`CopyOfSeen`, `SeenIsOld`).
* `KnowledgeBaseProofs` (`KnowledgeAssumption`: every configuration cuts at least one chunk).
  `NoMixedChunks` needs that a request about to add finds nothing or its own chunks
  (`EmbedsOnClean`). `StoresAgree` and `ReindexIsCurrent` need `TrustInv`: which requests can still
  meet on a document nobody has spoiled.
* `OpeningHoursProofs` (`EditorsAssumption`, `HoursAssumption`). A transaction about to commit holds every day it has
  put a row for (`InsertsAreHeld`) and no day is held twice, so the last commit is the whole truth.
  `AnswersAgree` is `AnswersAreRight` for a week and a day of any length: the division of an
  endless minute into weekday and time of day is unique (`QuotientAndRest`), so the entries of a
  minute are those of its day and of the day before (`EntriesOfMinute`, `OpenAtMinute`); the next
  open day is the least number of days ahead (`LeastNumber`), and the wait it gives is the first
  minute with the door open, on the condition that it is not open past midnight now: a shut door
  has nothing left of yesterday's entry. The summary is a recursive function on the days. The library's induction rules
  cannot be used, so `TablesExist` and `TableIsFaithful` argue by least counterexample:
  if some day were missing from the table or wrong in it there would be a first one, and the day
  before it contradicts that.
* `DashboardSessionProofs` (`UsersAssumption`, `SlotsAssumption`). Whoever starts a refresh waits
  for it and for no other (`Shared`); as long as nothing was overtaken, all that is on its way is
  about the user of the stored tokens (`InStep`).

Theorems and the properties of the runs they state are listed in `PROJECT.json`. Type correctness
is proved of every state machine too (`EngineTypeOK`, `SessionTypeOK`, `DetectionTypeOK`,
`RecordTypeOK`, `MemoryIsTyped`, `OutboxTypeOK`, `KnowledgeTypeOK`, `HoursTypeOK`,
`DashboardTypeOK`), and not listed there.

Attempts that failed were findings about the models. `ImplementsTurns` did not hold of the session's
first abstraction of the engine: a caller may talk past the offer of a person, which dismisses it
(`engine.py:985`), and the same turn may then raise or go to the database, so that the offer and its
reason are gone although no reply was given. The session had the offer standing until a reply.
`EngineListens` was missing there, and all of `CallSessionProofs` was proved again with it.

## 7. What is only model-checked

Every safety property and every refinement that a passing run checks is also a theorem. TLC alone
shows

* liveness under fairness, which is beyond the prover: `HangUpEndsSession`, `HandOverEndsStream`,
  `HeardIsAnswered`, `EveryCallIsEnded`, `EveryRequestEnds`, `EveryFetchEnds`, `LoadingEnds`,
  `DueRowsAreSettled`;
* the two counterexamples, and that each property fails for its mutant.

`EngineTurns` and `CallSession` are joined by the operators they share and not by a theorem about
the two running side by side: the session's engine has no memory of its own, it works on the
session's context, so there is no second state to relate.

## 8. Disagreements met on the way that have no run

Conversation:

* `engine.py:838` says changed details are "read back, never applied silently"; a phone number
  corrected to any number but the caller's own is not in the read-back (`_confirmation_text`).
* `engine.py:51` speaks of *consecutive* UNCLEAR turns. The count is reset only where an intent is
  classified, so an understood yes or no between two misses (`_answer_to_our_own_question`) does
  not interrupt the streak.
* `state.py:114` calls `pending_question` an offer "just made". It is cleared only by a short reply
  in IDENTIFY_INTENT or the next grounded answer, so after small talk or a whole booking a bare
  yes still looks up the old offer. `AgreementAnswersItsQuestion` covers bookings and handovers only.
* `session.py:561` says `answered_something` is set only where a real answer is given;
  `_answer_without_losing_the_booking` sets it also after "I don't have that one to hand".
* While details are collected, a request for a person is taken for booking details: only a
  farewell or an abandon phrase leaves the state.

Session and turns:

* `session.py:397` says cancellation "waits for the write to land first"; awaiting
  `asyncio.shield` raises at once, and `end()` goes on with the session while that commit runs
  (`OrphanCommits`): the exception `OneUserOfTheDatabase` makes.
* `session.py:9` says a caller who talks over the assistant "cuts it off"; with
  `SPEAK_PROCESSING_FILLER`, one who talks over the filler is forgotten when the answer begins
  (`session.py:634`, `BeginLine`) and is spoken over.
* `session.py:289` says a failing caller lookup "must never stop a call from being answered"; if it
  fails in the database, the aborted transaction refuses the greeting's transcript row and the
  stream is torn down (`RecordGreeting`).
* `session.py:101` says a caller no word reached is put through; that is so for the greeting only.
  In a turn `SpeechUnavailable` ends in a rollback and silence (`SynthesizeFails`).
* `session.py:506` wants an engine failure to become something a person can hear. If it failed in
  a database statement, the apology cannot be recorded and is not spoken (`RecordLine`).
* `session.py:630` says `_speaking_until` stops the caller's audio being taken for an utterance "while
  the assistant is still talking". With `SPEAK_PROCESSING_FILLER` a turn speaks two lines, and the
  second reckons from now although the first is still being played, so its end is reckoned too
  early (`overlapped` in `SilentWhenListening`).
* A booking whose commit is refused has been announced by then, and nobody tells the caller
  (`CommitTurn`; it is not filed as a booking, `BookingIsFiled`). Nothing in the code says they would.
* A line that begins while the loop waits in `clear_audio` resets the barge-in detector, and the
  caller's run is lost (`overtaken` in `HeardIsKept`).
* `metrics.py:24` and `metrics.py:40`: `calls_total` can be incremented twice for one call (a status
  callback that read the row before the session filed it), and `active_calls` is not decremented
  when `finalize_call` raises (`FinalizeRaises`).

Records, notifications, knowledge:

* `call_service.py:126` says a finalized call "must not be re-processed"; the check and the UPDATE
  are not atomic, and the status callback's CALL_ABANDONED can overwrite the session's outcome.
* `notification_service.py:130` promises every due row; the limit is applied before rows of
  disabled channels are filtered out (line 165), and as many of them as the limit starve the rest
  for ever: the condition `DueRowsAreSettled` makes.
* `docs/architecture.md:546` says the worker scales to several replicas; the poll locks nothing,
  and two replicas send the same row twice. `notification_service.py:17` says every attempt writes
  the row; a crash before the batch's commit loses the attempts of messages already sent.
* `knowledge_service.py:4` keeps row and vectors "in agreement"; a reindexing that overlaps a
  deletion brings the vectors back after the row is gone, where no request can reach them any more.
* The transfer webhook hangs up without dialling if the restaurant has no transfer number
  (`CanDial`), although the caller has been told they are being connected.

Caller memory:

* Tonight's booking is no longer upcoming once its hour has come; the upcoming booking is the one
  created last, not the soonest; reservations, unlike calls, are read without a window;
  `describe_reservation` formats the stored time in UTC.

Opening hours:

* `hours_answer.py:126` promises "a direct yes or no about *now*". A closing time at or after
  midnight compares as earlier than the opening time, and after midnight the entry of the day
  before is not looked at: while the door is open past midnight callers are told "we've closed for
  tonight", or that it opens later. `OpenNowIsRight` names that time as its one exception.
* `hours_service.py:23` says "atomically replace": two API clients that send different days leave
  the union of both, and of two overlapping full saves the second is refused with a 500.
* A day without a row is "closed" to callers and nine to five on the page, which saves it as such
  when another day is edited. Two pages loaded from the same week: the second save undoes the first.
* `docs/database.md:144` says "supports holiday hours via separate entries"; the table admits one row
  per weekday.

Accounts and dashboard:

* `auth_service.py:24` says that if the commit fails neither row is left behind: that is so, but the
  tokens have been sent by then, because the pinned `fastapi==0.104.1` runs the commit after the
  response. A new owner's `/auth/me` may overtake it and be refused. "Saved." on any page precedes
  its commit for the same reason, and so do the answers of the knowledge base.
* A log-out during a refresh is undone by the refresh's answer, which stores new tokens; a log-in
  overtaken by a slow `restoreSession` shows the other user (`overtaken` in `TokensFollowUser`).
* `restoreSession` clears the tokens on any error, a time-out included.
* `client.ts:14` shares the refresh because the first would have "rotated/invalidated" the token; the
  backend invalidates nothing, an old refresh token stays good until it expires.

## 9. Plan

Done: all modules of section 2; a theorem for each safety property of a run; the composition of
engine, session and record by refinement. Next:

1. An abstract specification of the outbox ("at least once, in the end settled") and of the
   knowledge base ("a document is served whole or not at all"), refined by the detailed modules
   and proved in the modules of their proofs.
2. The opening of the stream: `CallRecord` from `StreamOpen` on is implemented by `CallSession`;
   what comes before it (the voice webhook and its repetition) belongs to `CallRecord` alone.
3. `Chunking`: `chunk_text` on sentence lengths: every sentence kept, in order, sizes bounded (the
   overlap carried over and the next sentence can exceed the size together).

## 10. What is not modelled, and why

Audio resampling and the rewriting of text for speech (sequential conversions of data that unit
tests cover); prompts, wording and logging; the cutting of texts into chunks and retrieval; CRUD of
one statement per transaction (restaurants, FAQs, all of reservations but their status); hashing
and signing of tokens; Twilio's signature check; the recording webhook, which is never enabled, and
`record_event`, which nothing calls; the Redis cache, which only the readiness check uses; routing,
schemas, migrations and deployment. Providers are nondeterministic: any result, any failure, any
delay. Hazards that no property covers bear a note saying why: most are things the code does, that
a property of a run has to exclude (`overtaken`, `spoiled`, missing rows), and section 8 describes them.
`PROJECT.json` lists every component with what is and is not modelled of it, and every hazard with
the properties aimed at it.
