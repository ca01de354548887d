------------------------- MODULE TurnDetectionProofs -------------------------
(***************************************************************************)
(* Proofs about TurnDetection, for every hangover, cap, interruption run,  *)
(* tail and bound on the lines spoken.  That the utterance stays under its *)
(* cap is the one that needs an argument: frames enter the buffer one at a *)
(* time while the caller has the floor, and BargeInRun at a time after an  *)
(* interruption -- once for each line of a turn, because an interrupted    *)
(* line never speaks again.                                                *)
(***************************************************************************)
EXTENDS TurnDetection, TLAPS

InTurn == {"thinking", "synthesize", "send"}
Speaking == {"synthesize", "send"}

\* The frames interruptions can have put into the buffer since it was emptied: of
\* the lines before the present one, and of the present one too.
Before(lines) == IF lines <= 1 THEN 0 ELSE BargeInRun
After(lines) ==
  IF lines = 0 THEN 0 ELSE IF lines = 1 THEN BargeInRun ELSE BargeInRun + BargeInRun

\* The loop holds less than a whole run unless it is busy clearing, and never
\* clears while a turn is being created.
LoopAndRun ==
  /\ loop = "read" => held < BargeInRun
  /\ turn = "created" => loop = "read" /\ until = 0
  /\ loop = "clearing" /\ ~interrupted => held = 0
  /\ loop = "clearing" /\ until > 0 => ~interrupted

\* The buffer has room for the run of an interruption.
RoomInBuffer ==
  /\ until > 0 => said >= 1 /\ detector.frames <= Before(said)
  /\ turn \in Speaking => said >= 1
  /\ turn \in Speaking /\ ~interrupted => detector.frames <= Before(said)
  /\ turn \in InTurn => detector.frames <= After(said)
  /\ loop = "clearing" => detector.frames + held <= After(said)
  /\ turn = "idle" => detector.frames < MaxUtterance

\* The buffer starts with a voiced frame.
NoLeadingSilence == detector.frames > 0 => detector.voiced > 0

\* Our own clock never runs ahead of what Twilio plays.
ClockCoversAudio ==
  ~overlapped => audio <= until /\ (turn \in Speaking => audio <= ends)

\* The inductive invariant.
IInv ==
  /\ TypeOK
  /\ LoopAndRun
  /\ RoomInBuffer
  /\ NoLeadingSilence
  /\ ClockCoversAudio
  /\ UtteranceIsBounded
  /\ NoEmptyTurn
  /\ HeardIsKept
  /\ HeldIsOfThisLine

\* The constants, each by itself.
LEMMA Constants ==
  /\ Hangover \in Nat /\ MaxUtterance \in Nat /\ BargeInRun \in Nat /\ Tail \in Nat
  /\ BargeInRun >= 1 /\ BargeInRun + BargeInRun < MaxUtterance
  /\ MaxSentences \in Nat /\ MaxSentences >= 1 /\ MaxDuration \in Nat
  /\ MaxLines \in {1, 2}
<1>1. MaxLines \in {1, 2}
  BY DEF MaxLines
<1>2. QED
  BY <1>1, DetectionAssumption

USE Constants DEF speech

-----------------------------------------------------------------------------
\* The greeting is being played and nobody has spoken.
LEMMA InitIInv == Init => IInv
<1> SUFFICES ASSUME Init PROVE IInv
  OBVIOUS
<1> USE DEF Init, Empty
<1>1. TypeOK
  <2>1. audio \in Nat /\ until \in Nat
    BY DEF Init
  <2>2. detector \in [frames : Nat, voiced : Nat, silence : Nat]
    OBVIOUS
  <2>3. detector.voiced + detector.silence <= detector.frames
    OBVIOUS
  <2>4. turn \in {"idle", "created", "thinking", "synthesize", "send"}
        /\ loop \in {"read", "clearing"}
        /\ left \in 0 .. MaxSentences /\ (left > 0 <=> turn \in {"synthesize", "send"})
    OBVIOUS
  <2>5. held \in 0 .. BargeInRun /\ said \in 0 .. MaxLines /\ ends \in Nat
        /\ owed \in Nat /\ fresh \in Nat
    OBVIOUS
  <2>6. interrupted \in BOOLEAN /\ online \in BOOLEAN /\ overlapped \in BOOLEAN
        /\ overtaken \in BOOLEAN
    BY Zenon
  <2>7. QED
    BY <2>1, <2>2, <2>3, <2>4, <2>5, <2>6 DEF TypeOK
<1>2. LoopAndRun /\ RoomInBuffer /\ NoLeadingSilence /\ ClockCoversAudio
  BY <1>1 DEF LoopAndRun, RoomInBuffer, NoLeadingSilence, ClockCoversAudio, TypeOK,
     Before, Speaking, InTurn
<1>3. UtteranceIsBounded /\ NoEmptyTurn /\ HeardIsKept /\ HeldIsOfThisLine
  BY DEF UtteranceIsBounded, NoEmptyTurn, HeardIsKept, HeldIsOfThisLine
<1>4. QED
  BY <1>1, <1>2, <1>3 DEF IInv

\* A frame is taken for the caller's words.
LEMMA ListenKeepsIInv ==
  ASSUME IInv, NEW c \in Sounds, Listen(c)
  PROVE  IInv'
<1> USE DEF IInv, Listen, TypeOK
<1>1. /\ detector' \in [frames : Nat, voiced : Nat, silence : Nat]
      /\ detector'.voiced + detector'.silence <= detector'.frames
      /\ detector'.frames <= detector.frames + 1
      /\ detector'.frames > 0 => detector'.voiced > 0
      /\ detector'.voiced = detector.voiced + (IF c = "quiet" THEN 0 ELSE 1)
  <2>1. CASE c = "quiet"
    BY <2>1 DEF AddFrame, NoLeadingSilence
  <2>2. CASE c # "quiet"
    BY <2>2 DEF AddFrame
  <2>3. QED
    BY <2>1, <2>2
<1>2. TypeOK'
  BY <1>1
<1>3. LoopAndRun' /\ NoLeadingSilence' /\ NoEmptyTurn' /\ ClockCoversAudio'
  BY <1>1 DEF LoopAndRun, NoLeadingSilence, NoEmptyTurn, ClockCoversAudio, Speaking
<1>4. UtteranceIsBounded'
  BY <1>1 DEF UtteranceIsBounded, RoomInBuffer
<1>5. RoomInBuffer'
  BY <1>1, <1>4 DEF RoomInBuffer, UtteranceIsBounded, Complete, Speaking, InTurn
<1>6. HeardIsKept' /\ HeldIsOfThisLine'
  BY <1>1 DEF HeardIsKept, HeldIsOfThisLine
<1>7. QED
  BY <1>2, <1>3, <1>4, <1>5, <1>6

\* A frame is heard over the assistant.
LEMMA TalkOverKeepsIInv ==
  ASSUME IInv, NEW c \in Sounds, TalkOver(c)
  PROVE  IInv'
<1> USE DEF IInv, TalkOver, TypeOK
<1>1. TypeOK'
  OBVIOUS
<1>2. LoopAndRun' /\ RoomInBuffer'
  BY DEF LoopAndRun, RoomInBuffer
<1>3. NoLeadingSilence' /\ NoEmptyTurn' /\ ClockCoversAudio' /\ UtteranceIsBounded'
  BY DEF NoLeadingSilence, NoEmptyTurn, ClockCoversAudio, UtteranceIsBounded
<1>4. HeardIsKept' /\ HeldIsOfThisLine'
  BY DEF HeardIsKept, HeldIsOfThisLine
<1>5. QED
  BY <1>1, <1>2, <1>3, <1>4

\* The caller interrupts.
LEMMA InterruptKeepsIInv == IInv /\ Interrupt => IInv'
<1> SUFFICES ASSUME IInv, Interrupt PROVE IInv'
  OBVIOUS
<1> USE DEF IInv, Interrupt, TypeOK
<1>1. TypeOK'
  BY DEF LoopAndRun
<1>2. LoopAndRun' /\ RoomInBuffer'
  BY DEF LoopAndRun, RoomInBuffer, Before, After, Speaking, InTurn
<1>3. NoLeadingSilence' /\ NoEmptyTurn' /\ ClockCoversAudio' /\ UtteranceIsBounded'
  BY DEF NoLeadingSilence, NoEmptyTurn, ClockCoversAudio, UtteranceIsBounded, Speaking
<1>4. HeardIsKept' /\ HeldIsOfThisLine'
  BY DEF HeardIsKept, HeldIsOfThisLine
<1>5. QED
  BY <1>1, <1>2, <1>3, <1>4

\* The frames of the interruption are replayed.
LEMMA ClearedKeepsIInv == IInv /\ Cleared => IInv'
<1> SUFFICES ASSUME IInv, Cleared PROVE IInv'
  OBVIOUS
<1> USE DEF IInv, Cleared, TypeOK
<1>1. /\ detector' \in [frames : Nat, voiced : Nat, silence : Nat]
      /\ detector'.voiced + detector'.silence <= detector'.frames
      /\ detector'.frames = detector.frames + held
      /\ detector'.voiced = detector.voiced + held
  OBVIOUS
<1>2. TypeOK'
  BY <1>1
<1>3. LoopAndRun' /\ RoomInBuffer'
  BY <1>1 DEF LoopAndRun, RoomInBuffer, After, Speaking, InTurn
<1>4. NoLeadingSilence' /\ NoEmptyTurn' /\ ClockCoversAudio'
  BY <1>1 DEF NoLeadingSilence, NoEmptyTurn, ClockCoversAudio, Speaking
<1>5. UtteranceIsBounded'
  BY <1>1 DEF UtteranceIsBounded, RoomInBuffer, After
<1>6. HeardIsKept' /\ HeldIsOfThisLine'
  BY <1>1 DEF HeardIsKept, HeldIsOfThisLine
<1>7. QED
  BY <1>2, <1>3, <1>4, <1>5, <1>6

-----------------------------------------------------------------------------
\* The buffer is emptied into a turn.
LEMMA TakeKeepsIInv == IInv /\ TakeUtterance => IInv'
<1> SUFFICES ASSUME IInv, TakeUtterance PROVE IInv'
  OBVIOUS
<1> USE DEF IInv, TakeUtterance, TypeOK, Empty
<1>1. TypeOK'
  <2>1. /\ detector' \in [frames : Nat, voiced : Nat, silence : Nat]
        /\ detector'.voiced + detector'.silence <= detector'.frames
    OBVIOUS
  <2>2. turn' \in {"idle", "thinking"} /\ left = 0
    OBVIOUS
  <2>3. said' \in 0 .. MaxLines
    OBVIOUS
  <2>4. overtaken' \in BOOLEAN
    BY Zenon
  <2>5. QED
    BY <2>1, <2>2, <2>3, <2>4
<1>2. LoopAndRun' /\ RoomInBuffer'
  BY DEF LoopAndRun, RoomInBuffer, Before, After, Speaking, InTurn
<1>3. NoLeadingSilence' /\ NoEmptyTurn' /\ ClockCoversAudio' /\ UtteranceIsBounded'
  BY DEF NoLeadingSilence, NoEmptyTurn, ClockCoversAudio, UtteranceIsBounded, Speaking
<1>4. HeardIsKept' /\ HeldIsOfThisLine'
  BY DEF HeardIsKept, HeldIsOfThisLine, LoopAndRun
<1>5. QED
  BY <1>1, <1>2, <1>3, <1>4

\* A line begins.
LEMMA BeginLineKeepsIInv == IInv /\ BeginLine => IInv'
<1> SUFFICES ASSUME IInv, BeginLine PROVE IInv'
  OBVIOUS
<1> USE DEF IInv, BeginLine, TypeOK
<1>1. overlapped' \in BOOLEAN /\ overtaken' \in BOOLEAN
  OBVIOUS
<1>2. TypeOK'
  <2>1. said' \in 0 .. MaxLines
    OBVIOUS
  <2>2. left' \in 0 .. MaxSentences /\ left' > 0 /\ turn' = "synthesize"
    OBVIOUS
  <2>3. interrupted' \in BOOLEAN
    BY Zenon
  <2>4. held' \in 0 .. BargeInRun /\ ends' \in Nat /\ fresh' \in Nat
    OBVIOUS
  <2>5. QED
    BY <1>1, <2>1, <2>2, <2>3, <2>4
<1>3. LoopAndRun' /\ RoomInBuffer'
  BY DEF LoopAndRun, RoomInBuffer, Before, After, Speaking, InTurn
<1>4. NoLeadingSilence' /\ NoEmptyTurn' /\ UtteranceIsBounded' /\ HeldIsOfThisLine'
  BY DEF NoLeadingSilence, NoEmptyTurn, UtteranceIsBounded, HeldIsOfThisLine
<1>5. ClockCoversAudio'
  <2>1. ~overlapped' => ~overlapped /\ audio = 0
    OBVIOUS
  <2>2. QED
    BY <2>1 DEF ClockCoversAudio
<1>6. HeardIsKept'
  <2>1. ~overtaken' => ~overtaken /\ loop # "clearing"
    OBVIOUS
  <2>2. QED
    BY <2>1 DEF HeardIsKept
<1>7. QED
  BY <1>2, <1>3, <1>4, <1>5, <1>6

\* A sentence is handed to Twilio.
LEMMA SynthesizedKeepsIInv == IInv /\ Synthesized => IInv'
<1> SUFFICES ASSUME IInv, NEW duration \in 1 .. MaxDuration,
                    online, turn = "synthesize", ~interrupted,
                    ends' = ends + duration, until' = ends + duration + Tail,
                    audio' = audio + duration, turn' = "send",
                    UNCHANGED <<detector, held, loop, left, interrupted, online, said,
                                owed, fresh, overlapped, overtaken>>
             PROVE  IInv'
  BY DEF Synthesized, EndOfPlayback
<1> USE DEF IInv, TypeOK
<1>1. TypeOK'
  OBVIOUS
<1>2. LoopAndRun' /\ RoomInBuffer'
  BY DEF LoopAndRun, RoomInBuffer, Speaking, InTurn
<1>3. NoLeadingSilence' /\ NoEmptyTurn' /\ ClockCoversAudio' /\ UtteranceIsBounded'
  BY DEF NoLeadingSilence, NoEmptyTurn, ClockCoversAudio, UtteranceIsBounded, Speaking
<1>4. HeardIsKept' /\ HeldIsOfThisLine'
  BY DEF HeardIsKept, HeldIsOfThisLine
<1>5. QED
  BY <1>1, <1>2, <1>3, <1>4

\* The turn goes on, or ends, without a sound.
LEMMA QuietTurnKeepsIInv ==
  ASSUME IInv, Skipped \/ Sent \/ SynthesisFails \/ EndTurn
  PROVE  IInv'
<1> USE DEF IInv, TypeOK
<1>1. /\ turn \in InTurn /\ turn' \in InTurn \cup {"idle"}
      /\ turn' \in Speaking => turn \in Speaking
      /\ left' \in 0 .. MaxSentences /\ (left' > 0 <=> turn' \in Speaking)
      /\ UNCHANGED <<detector, held, loop, ends, until, interrupted, online, audio, said,
                     owed, fresh, overlapped, overtaken>>
  BY DEF Skipped, Sent, SynthesisFails, EndTurn, NextSentence, Speaking, InTurn
<1>2. TypeOK'
  BY <1>1 DEF Speaking, InTurn
<1>3. LoopAndRun' /\ RoomInBuffer'
  BY <1>1 DEF LoopAndRun, RoomInBuffer, After, Speaking, InTurn
<1>4. NoLeadingSilence' /\ NoEmptyTurn' /\ ClockCoversAudio' /\ UtteranceIsBounded'
  BY <1>1 DEF NoLeadingSilence, NoEmptyTurn, ClockCoversAudio, UtteranceIsBounded, Speaking,
     InTurn
<1>5. HeardIsKept' /\ HeldIsOfThisLine'
  BY <1>1 DEF HeardIsKept, HeldIsOfThisLine
<1>6. QED
  BY <1>2, <1>3, <1>4, <1>5

\* Time passes, or the caller is gone.
LEMMA ClockKeepsIInv ==
  ASSUME IInv, Tick \/ HangUp
  PROVE  IInv'
<1> USE DEF IInv, TypeOK, Tick, HangUp, Later
<1>1. TypeOK'
  <2>1. CASE Tick
    BY <2>1
  <2>2. CASE HangUp
    BY <2>2
  <2>3. QED
    BY <2>1, <2>2
<1>2. LoopAndRun' /\ RoomInBuffer'
  BY DEF LoopAndRun, RoomInBuffer
<1>3. NoLeadingSilence' /\ NoEmptyTurn' /\ ClockCoversAudio' /\ UtteranceIsBounded'
  BY DEF NoLeadingSilence, NoEmptyTurn, ClockCoversAudio, UtteranceIsBounded
<1>4. HeardIsKept' /\ HeldIsOfThisLine'
  BY DEF HeardIsKept, HeldIsOfThisLine
<1>5. QED
  BY <1>1, <1>2, <1>3, <1>4

-----------------------------------------------------------------------------
\* Every step preserves the invariant.
LEMMA NextKeepsIInv == IInv /\ [Next]_vars => IInv'
<1>1. IInv /\ UNCHANGED vars => IInv'
  BY DEF IInv, vars, TypeOK, LoopAndRun, RoomInBuffer, NoLeadingSilence, ClockCoversAudio,
     UtteranceIsBounded, NoEmptyTurn, HeardIsKept, HeldIsOfThisLine
<1>2. QED
  BY <1>1, ListenKeepsIInv, TalkOverKeepsIInv, InterruptKeepsIInv, ClearedKeepsIInv,
     TakeKeepsIInv, BeginLineKeepsIInv, SynthesizedKeepsIInv, QuietTurnKeepsIInv,
     ClockKeepsIInv DEF Next

\* Turn detection never leaves the inductive invariant.
THEOREM DetectionInvariant == Spec => []IInv
  BY InitIInv, NextKeepsIInv, PTL DEF Spec

\* Type correctness: the runs, lines and buffers stay in their ranges.
THEOREM DetectionTypeOK == Spec => []TypeOK
<1>1. IInv => TypeOK
  BY DEF IInv
<1>2. QED
  BY <1>1, DetectionInvariant, PTL

\* The safety cap on an utterance holds whatever is interrupted, as long as it
\* exceeds two barge-in runs (vad.py, is_utterance_complete; session.py, handle_media).
THEOREM CapHolds == Spec => []UtteranceIsBounded
<1>1. IInv => UtteranceIsBounded
  BY DEF IInv
<1>2. QED
  BY <1>1, DetectionInvariant, PTL

\* No turn begins with nothing to transcribe (vad.py, add_frame; session.py, _run_turn).
THEOREM TurnsHaveAudio == Spec => []NoEmptyTurn
<1>1. IInv => NoEmptyTurn
  BY DEF IInv
<1>2. QED
  BY <1>1, DetectionInvariant, PTL

\* What the caller said is in the next turn (session.py, handle_media and _interrupt).
THEOREM NothingHeardIsLost == Spec => []HeardIsKept
<1>1. IInv => HeardIsKept
  BY DEF IInv
<1>2. QED
  BY <1>1, DetectionInvariant, PTL

\* A run heard over one line never interrupts another (session.py, _speak).
THEOREM RunsAreOfOneLine == Spec => []HeldIsOfThisLine
<1>1. IInv => HeldIsOfThisLine
  BY DEF IInv
<1>2. QED
  BY <1>1, DetectionInvariant, PTL

\* The assistant never hears itself while its lines do not overlap (session.py, _speak).
THEOREM NeverHearsItself == Spec => []SilentWhenListening
<1>1. IInv => SilentWhenListening
  BY DEF IInv, ClockCoversAudio, TypeOK, SilentWhenListening
<1>2. QED
  BY <1>1, DetectionInvariant, PTL
=============================================================================
