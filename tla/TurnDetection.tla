--------------------------- MODULE TurnDetection ---------------------------
(***************************************************************************)
(* Whose turn it is to speak: TurnDetector and BargeInDetector             *)
(* (audio/vad.py), fed by CallSession.handle_media, and the clock by which *)
(* _speak reckons when its own audio will have been played                 *)
(* (voice/session.py).  The read loop, the turn task and the clock are     *)
(* three processes.  One unit of time is one frame of 20 ms; a frame is    *)
(* known by its energy, an utterance by how many frames it has.            *)
(***************************************************************************)
EXTENDS Integers

CONSTANTS
  Hangover,     \* silence_hangover_ms, in frames
  MaxUtterance, \* max_utterance_ms, in frames
  BargeIn,      \* FEATURE_BARGE_IN
  BargeInRun,   \* BargeInConfig.speech_ms, in frames
  Filler,       \* SPEAK_PROCESSING_FILLER: a turn speaks two lines
  Tail,         \* _PLAYBACK_TAIL_BUFFER_S, in frames
  MaxSentences, \* bound: sentences of a line
  MaxDuration,  \* bound: frames of audio of a sentence
  MaxAudio      \* bound: frames of audio Twilio holds

MaxLines == IF Filler THEN 2 ELSE 1

ASSUME DetectionAssumption ==
  /\ {Hangover, MaxUtterance, BargeInRun, MaxSentences, MaxDuration} \subseteq Nat \ {0}
  /\ Tail \in Nat /\ MaxAudio \in Nat
  /\ BargeIn \in BOOLEAN /\ Filler \in BOOLEAN
  /\ BargeInRun + BargeInRun < MaxUtterance

VARIABLES
  detector,    \* TurnDetector: frames buffered, of which voiced; trailing silence
  held,        \* BargeInDetector: frames of the caller's run, so far
  loop,        \* the read loop reads frames, or waits in clear_audio
  turn,        \* the await _run_turn is suspended on; "idle": none in flight
  left,        \* sentences of the line still to be spoken
  ends,        \* playback_ends_at of the line, as time from now
  until,       \* _speaking_until, as time from now
  interrupted, \* _interrupted
  online,      \* the stream is open
  audio,       \* history: audio Twilio holds and has not played, as time from now
  said,        \* history: lines since an utterance was taken (the greeting is one)
  owed,        \* history: voiced frames taken from the caller, in no turn yet
  fresh,       \* history: of those held, the frames heard over the present line
  overlapped,  \* history: a line began while the one before it was being played
  overtaken    \* history: a line began while the loop was in clear_audio

vars == <<detector, held, loop, turn, left, ends, until, interrupted, online, audio,
          said, owed, fresh, overlapped, overtaken>>
speech == <<left, ends, until, interrupted, audio, said, overlapped>>

Sounds == {"quiet", "speech", "loud"} \* below both thresholds, between them, above both

Empty == [frames |-> 0, voiced |-> 0, silence |-> 0]

-----------------------------------------------------------------------------
(* TurnDetector.                                                            *)

\* Silence belongs to an utterance once speech has been heard.
AddFrame(d, c) ==
  IF c = "quiet"
  THEN IF d.frames = 0 THEN d
       ELSE [frames |-> d.frames + 1, voiced |-> d.voiced, silence |-> d.silence + 1]
  ELSE [frames |-> d.frames + 1, voiced |-> d.voiced + 1, silence |-> 0]

\* (mutant: no safety cap)
Complete_NoCap(d) == d.silence >= Hangover

\* The caller has stopped talking, or has talked for too long.
Complete(d) == d.silence >= Hangover \/ d.frames >= MaxUtterance

-----------------------------------------------------------------------------
(* The read loop: handle_media, one frame.                                  *)

\* In silence: the frame goes to the turn detector, and a turn begins when it
\* says that the utterance is complete.  Mid-turn, frames are dropped.
Listen(c) ==
  /\ online /\ loop = "read" /\ until = 0 /\ turn = "idle"
  /\ detector' = AddFrame(detector, c)
  /\ owed' = IF c = "quiet" THEN owed ELSE owed + 1
  /\ turn' = IF detector'.frames > 0 /\ Complete(detector') THEN "created" ELSE turn
  /\ UNCHANGED <<held, loop, speech, online, fresh, overtaken>>

\* While the assistant speaks: a run of loud frames is held, anything else breaks it.
TalkOver(c) ==
  /\ online /\ loop = "read" /\ until > 0 /\ BargeIn
  /\ c = "loud" => held + 1 < BargeInRun
  /\ held' = IF c = "loud" THEN held + 1 ELSE 0
  /\ fresh' = IF c = "loud" THEN fresh + 1 ELSE 0
  /\ UNCHANGED <<detector, loop, turn, speech, online, owed, overtaken>>

\* The run is long enough: _interrupt silences the line and waits for clear_audio.
Interrupt ==
  /\ online /\ loop = "read" /\ until > 0 /\ BargeIn
  /\ held + 1 >= BargeInRun
  /\ held' = held + 1
  /\ fresh' = fresh + 1
  /\ interrupted' = TRUE
  /\ until' = 0
  /\ audio' = 0
  /\ loop' = "clearing"
  /\ owed' = owed + held'
  /\ UNCHANGED <<detector, turn, left, ends, online, said, overlapped, overtaken>>

\* (mutant: the frames that proved the interruption are thrown away)
Cleared_Discards ==
  /\ online /\ loop = "clearing"
  /\ loop' = "read"
  /\ held' = 0
  /\ fresh' = 0
  /\ UNCHANGED <<detector, turn, speech, online, owed, overtaken>>

\* clear_audio has returned: the held frames are replayed into the turn detector,
\* whose answer is not looked at.
Cleared ==
  /\ online /\ loop = "clearing"
  /\ loop' = "read"
  /\ detector' = IF held = 0 THEN detector
                 ELSE [frames |-> detector.frames + held, voiced |-> detector.voiced + held,
                       silence |-> 0]
  /\ held' = 0
  /\ fresh' = 0
  /\ UNCHANGED <<turn, speech, online, owed, overtaken>>

-----------------------------------------------------------------------------
(* The turn task.                                                           *)

\* (mutant: the utterance is not reset)
TakeUtterance_NotReset ==
  /\ online /\ turn = "created"
  /\ turn' = "thinking"
  /\ owed' = 0
  /\ said' = 0
  /\ overtaken' = FALSE
  /\ UNCHANGED <<detector, held, loop, left, ends, until, interrupted, online, audio,
                 fresh, overlapped>>

\* The task's first step: pop_utterance; without audio there is nothing to do.
TakeUtterance ==
  /\ online /\ turn = "created"
  /\ turn' = IF detector.frames = 0 THEN "idle" ELSE "thinking"
  /\ detector' = Empty
  /\ owed' = 0
  /\ said' = 0
  /\ overtaken' = FALSE
  /\ UNCHANGED <<held, loop, left, ends, until, interrupted, online, audio, fresh,
                 overlapped>>

\* _speak begins: the filler, the reply, or another line of the session.
BeginLine ==
  /\ online /\ turn = "thinking" /\ said < MaxLines
  /\ turn' = "synthesize"
  /\ left' \in 1 .. MaxSentences
  /\ ends' = 0
  /\ interrupted' = FALSE
  /\ held' = 0
  /\ fresh' = 0
  /\ said' = said + 1
  /\ overlapped' = IF audio > 0 THEN TRUE ELSE overlapped
  /\ overtaken' = IF loop = "clearing" THEN TRUE ELSE overtaken
  /\ UNCHANGED <<detector, loop, until, online, audio, owed>>

\* The next sentence, unless it was the last or the caller has interrupted.
NextSentence ==
  IF left = 1 \/ interrupted THEN left' = 0 /\ turn' = "thinking"
  ELSE left' = left - 1 /\ turn' = "synthesize"

\* (mutant: every sentence is reckoned from now, not from the end of the last)
EndOfPlayback_FromNow(duration) == duration

\* Sentences are played back to back.
EndOfPlayback(duration) == ends + duration

\* A sentence is synthesized and handed to Twilio.
Synthesized ==
  /\ online /\ turn = "synthesize" /\ ~interrupted
  /\ \E duration \in 1 .. MaxDuration :
       /\ audio + duration <= MaxAudio
       /\ ends' = EndOfPlayback(duration)
       /\ until' = ends' + Tail
       /\ audio' = audio + duration
  /\ turn' = "send"
  /\ UNCHANGED <<detector, held, loop, left, interrupted, online, said, owed, fresh,
                 overlapped, overtaken>>

\* There was nothing to synthesize, or the caller interrupted meanwhile.
Skipped ==
  /\ online /\ turn = "synthesize"
  /\ NextSentence
  /\ UNCHANGED <<detector, held, loop, ends, until, interrupted, online, audio, said, owed,
                 fresh, overlapped, overtaken>>

Sent ==
  /\ online /\ turn = "send"
  /\ NextSentence
  /\ UNCHANGED <<detector, held, loop, ends, until, interrupted, online, audio, said, owed,
                 fresh, overlapped, overtaken>>

\* Synthesis fails: the line ends there, and the turn with it if no word was spoken.
SynthesisFails ==
  /\ online /\ turn = "synthesize"
  /\ turn' \in {"thinking", "idle"}
  /\ left' = 0
  /\ UNCHANGED <<detector, held, loop, ends, until, interrupted, online, audio, said, owed,
                 fresh, overlapped, overtaken>>

\* The turn has been committed or rolled back.
EndTurn ==
  /\ online /\ turn = "thinking"
  /\ turn' = "idle"
  /\ UNCHANGED <<detector, held, loop, speech, online, owed, fresh, overtaken>>

-----------------------------------------------------------------------------
(* The clock, and the caller.                                               *)

Later(time) == IF time = 0 THEN 0 ELSE time - 1

Tick ==
  /\ online
  /\ ends' = Later(ends)
  /\ until' = Later(until)
  /\ audio' = Later(audio)
  /\ UNCHANGED <<detector, held, loop, turn, left, interrupted, online, said, owed, fresh,
                 overlapped, overtaken>>

HangUp ==
  /\ online
  /\ online' = FALSE
  /\ UNCHANGED <<detector, held, loop, turn, speech, owed, fresh, overtaken>>

\* The greeting, if there is one, has been handed to Twilio before a frame is read.
Init ==
  /\ detector = Empty /\ held = 0
  /\ loop = "read" /\ turn = "idle"
  /\ left = 0 /\ ends = 0 /\ interrupted = FALSE
  /\ audio \in 0 .. MaxSentences * MaxDuration
  /\ until = IF audio = 0 THEN 0 ELSE audio + Tail
  /\ online = TRUE
  /\ said = 1 /\ owed = 0 /\ fresh = 0
  /\ overlapped = FALSE /\ overtaken = FALSE

Next ==
  \/ \E c \in Sounds : Listen(c) \/ TalkOver(c)
  \/ Interrupt
  \/ Cleared
  \/ TakeUtterance
  \/ BeginLine
  \/ Synthesized
  \/ Skipped
  \/ Sent
  \/ SynthesisFails
  \/ EndTurn
  \/ Tick
  \/ HangUp

Spec == Init /\ [][Next]_vars

\* A frame arrives every 20 ms, whatever is in it, and the socket is written to.
\* Nothing is assumed of the turn, and the caller is never made to speak.
FairSpec ==
  /\ Spec
  /\ WF_vars(Tick)
  /\ WF_vars(Cleared)
  /\ WF_vars(detector.frames > 0 /\ \E c \in Sounds : Listen(c))

-----------------------------------------------------------------------------
(* Properties.                                                              *)

\* Every variable keeps its type.
TypeOK ==
  /\ detector \in [frames : Nat, voiced : Nat, silence : Nat]
  /\ detector.voiced + detector.silence <= detector.frames
  /\ held \in 0 .. BargeInRun
  /\ loop \in {"read", "clearing"}
  /\ turn \in {"idle", "created", "thinking", "synthesize", "send"}
  /\ left \in 0 .. MaxSentences /\ (left > 0 <=> turn \in {"synthesize", "send"})
  /\ ends \in Nat /\ until \in Nat /\ audio \in Nat
  /\ interrupted \in BOOLEAN /\ online \in BOOLEAN
  /\ said \in 0 .. MaxLines
  /\ owed \in Nat /\ fresh \in Nat
  /\ overlapped \in BOOLEAN /\ overtaken \in BOOLEAN

\* An utterance never outgrows the safety cap, although the frames of interruptions are
\* put into it unchecked, of the filler as well as of the reply, and a turn that is in
\* flight leaves them there (TurnDetectorConfig.max_utterance_ms, handle_media).
UtteranceIsBounded == detector.frames <= MaxUtterance

\* A turn is never begun with nothing to transcribe: silence before the first word is no
\* utterance, and nobody takes the audio between the verdict and the turn's first step
\* (add_frame, create_task, pop_utterance).
NoEmptyTurn == turn = "created" => detector.voiced > 0

\* Whatever was accepted from the caller, as speech or as an interruption, is in the
\* buffer of the next turn or about to be replayed into it -- unless the next line began
\* while the playback was still being cleared (handle_media, _interrupt, pop_frames).
HeardIsKept ==
  ~overtaken => owed = detector.voiced + (IF loop = "clearing" THEN held ELSE 0)

\* The run that interrupts a line was heard over that very line: what was held over an
\* earlier one never counts (_speak resets the barge-in detector).
HeldIsOfThisLine == held <= fresh

\* While the loop takes frames for the caller's words, none of the assistant's own audio
\* is left to be played -- unless a line began over the end of the one before it
\* (_speaking_until, playback_ends_at).
SilentWhenListening == until = 0 /\ ~overlapped => audio = 0

\* Once something was heard and no turn is in flight, a turn begins or the call is over:
\* a caller who falls silent, talks on for ever or interrupts is answered all the same
\* -- but for the same race as in HeardIsKept, which may leave nothing to answer.
HeardIsAnswered ==
  (owed > 0 /\ turn = "idle" /\ ~overtaken) ~> (turn # "idle" \/ ~online)
=============================================================================
