---------------------------- MODULE ModelsProofs ----------------------------
(***************************************************************************)
(* The parts between a text and a voice's samples, for any number of calls *)
(* and any sizes: the windows of a Piper sentence tile its audio; the      *)
(* settings of a voice are not torn by calls that change them at once;     *)
(* calls that share eSpeak get the clauses of their own texts; a Kokoro    *)
(* sentence is cut into pieces and spoken as a whole; the pinyin network   *)
(* is asked about the character it has to decide; a Hebrew word keeps its  *)
(* consonants and a Japanese text its morae; a buffer of samples keeps its *)
(* sound through every sequence of calls; a loaded voice has its engines.  *)
(***************************************************************************)
EXTENDS MelChunker, VoiceSettings, EspeakPhonemizer, KokoroVoice, PinyinSentence,
        HebrewWord, JapaneseText, AudioBuffer, VoiceModel, RecursionLemmas, SequenceTheorems,
        FiniteSetTheorems, TLAPS

Types ==
  /\ frames \in Nat /\ base \in Nat /\ size \in Nat /\ padding \in Nat
  /\ live \in BOOLEAN
  /\ cursor \in Nat
  /\ emitted \in Nat
  /\ window \in Nat
  /\ fresh \in Nat
  /\ heard \in Nat

(* While windows are left, all audio up to the padding before the cursor   *)
(* was heard, the cursor leaves room for two paddings of context, and more *)
(* than the minimum is still to come.  A sentence decoded in one run never *)
(* moves the cursor.                                                       *)
Tiling ==
  PaddingFits /\ live =>
    /\ heard = IF cursor = 0 THEN 0 ELSE cursor - padding
    /\ cursor = 0 <=> emitted = 0
    /\ cursor # 0 => /\ ~one_shot
                     /\ cursor >= 2 * padding
                     /\ frames - cursor > MIN_CHUNK_SIZE

LEMMA ProductAtLeast ==
  ASSUME NEW a \in Nat, NEW b \in Nat
  PROVE  a * (b + 1) \in Nat /\ a * (b + 1) >= a
<1>1. a * b \in Nat
  OBVIOUS
<1>2. a * (b + 1) = a * b + a
  OBVIOUS
<1>3. QED
  BY <1>1, <1>2

(* A window is never empty, never above the cap, and the first one is the  *)
(* narrowest.                                                              *)
LEMMA WidthRange ==
  ASSUME Types
  PROVE  /\ current_chunk_width \in 1..MAX_CHUNK_SIZE
         /\ current_chunk_width >= Lesser(size, MAX_CHUNK_SIZE)
<1> DEFINE unit == Greater(size, 1)
<1>1. unit \in Nat /\ unit >= 1 /\ unit >= size
  BY DEF Types, Greater
<1>2. unit * (emitted + 1) \in Nat /\ unit * (emitted + 1) >= unit
  BY <1>1, ProductAtLeast DEF Types
<1>3. current_chunk_width = Lesser(unit * (emitted + 1), MAX_CHUNK_SIZE)
  BY DEF current_chunk_width
<1> HIDE DEF unit
<1>4. QED
  BY <1>1, <1>2, <1>3, LimitsAssumption DEF Types, Lesser

LEMMA HearTypes ==
  ASSUME Types, NEW from \in Int, NEW to \in Int, Hear(from, to)
  PROVE  fresh' \in Nat /\ heard' \in Nat
  BY DEF Types, Hear, Greater

LEMMA BoundIsInt ==
  ASSUME NEW index \in Int, NEW length \in Int
  PROVE  Bound(index, length) \in Int
  BY DEF Bound

(* Where a window starts and which part of its audio is kept, in frames of *)
(* the sentence.                                                           *)
LEMMA WindowStart ==
  ASSUME Types, Tiling, PaddingFits, live
  PROVE  /\ Bound(mel_start, frames) = mel_start
         /\ mel_start \in Nat
         /\ mel_start + lead_trim = heard
         /\ mel_start >= cursor - 2 * padding
         /\ mel_start <= cursor
         /\ padding \in Nat /\ padding >= 1
<1>1. padding \in Nat /\ padding >= 1
  BY LimitsAssumption DEF PaddingFits, Types, Lesser
<1>2. CASE cursor = 0
  <2>1. mel_start = 0 /\ lead_trim = 0 /\ heard = 0
    BY <1>2 DEF mel_start, lead_trim, Tiling
  <2>2. QED
    BY <1>1, <1>2, <2>1 DEF Bound, Types
<1>3. CASE cursor # 0
  <2>1. mel_start = cursor - padding * 2 /\ lead_trim = padding
    BY <1>3 DEF mel_start, lead_trim
  <2>2. heard = cursor - padding /\ cursor >= 2 * padding
    BY <1>3 DEF Tiling
  <2>3. QED
    BY <1>1, <2>1, <2>2 DEF Bound, Types
<1>4. QED
  BY <1>2, <1>3

LEMMA TypesInit == Init => Types
<1> SUFFICES ASSUME Init PROVE Types
  OBVIOUS
<1>1. PICK n \in SentenceIndices : size = next_chunk_size(base, n)
  BY DEF Init
<1>2. base \in Nat /\ n \in Nat
  BY InputsAssumption DEF Init
<1>3. Lesser(n, 4) \in Nat
  BY <1>2 DEF Lesser
<1>4. base * Lesser(n, 4) \in Nat
  BY <1>2, <1>3
<1>5. size \in Nat
  BY <1>1, <1>2, <1>4, LimitsAssumption DEF next_chunk_size, Lesser
<1>6. QED
  BY <1>5, InputsAssumption DEF Init, Types

LEMMA TypesStep == Types /\ [Next]_vars => Types'
<1> SUFFICES ASSUME Types, [Next]_vars PROVE Types'
  OBVIOUS
<1>1. current_chunk_width \in Nat
  BY WidthRange, LimitsAssumption
<1>2. CASE DecodeWhole
  <2>1. fresh' \in Nat /\ heard' \in Nat
    BY <1>2, HearTypes DEF Types, DecodeWhole
  <2>2. live' \in BOOLEAN
    BY <1>2 DEF DecodeWhole
  <2>3. UNCHANGED input /\ cursor' = cursor /\ emitted' = emitted + 1 /\ window' = frames
    BY <1>2 DEF DecodeWhole
  <2>4. QED
    BY <2>1, <2>2, <2>3 DEF Types, input
<1>3. CASE DecodeWindow
  <2>1. padded_end \in Nat /\ mel_start \in Int /\ lead_trim \in Nat
    BY <1>1 DEF padded_end, mel_start, lead_trim, Types
  <2> DEFINE start == Bound(mel_start, frames)
             length == Greater(padded_end - start, 0)
  <2>2. start \in Int
    BY <2>1, BoundIsInt DEF Types
  <2>3. length \in Nat
    BY <2>1, <2>2 DEF Greater
  <2>4. Bound(-padding, length) \in Int
    BY <2>3, BoundIsInt DEF Types
  <2>5. window' = length /\ Hear(start + lead_trim, start + Bound(-padding, length))
    BY <1>3 DEF DecodeWindow, Decode
  <2> HIDE DEF start, length
  <2>6. fresh' \in Nat /\ heard' \in Nat
    BY <2>1, <2>2, <2>4, <2>5, HearTypes
  <2>7. QED
    BY <1>3, <2>1, <2>3, <2>5, <2>6 DEF Types, DecodeWindow, input
<1>4. CASE DecodeLast
  <2>1. mel_start \in Int /\ lead_trim \in Nat
    BY DEF mel_start, lead_trim, Types
  <2> DEFINE start == Bound(mel_start, frames)
             length == Greater(frames - start, 0)
  <2>2. start \in Int
    BY <2>1, BoundIsInt DEF Types
  <2>3. length \in Nat
    BY <2>2 DEF Greater, Types
  <2>4. Bound(length, length) \in Int
    BY <2>3, BoundIsInt
  <2>5. window' = length /\ Hear(start + lead_trim, start + Bound(length, length))
    BY <1>4 DEF DecodeLast, Decode
  <2> HIDE DEF start, length
  <2>6. fresh' \in Nat /\ heard' \in Nat
    BY <2>1, <2>2, <2>4, <2>5, HearTypes
  <2>7. live' \in BOOLEAN
    BY <1>4 DEF DecodeLast
  <2>8. UNCHANGED input /\ cursor' = cursor /\ emitted' = emitted + 1
    BY <1>4 DEF DecodeLast
  <2>9. QED
    BY <2>3, <2>5, <2>6, <2>7, <2>8 DEF Types, input
<1>5. CASE UNCHANGED vars
  BY <1>5 DEF Types, vars
<1>6. QED
  BY <1>2, <1>3, <1>4, <1>5 DEF Next

(* One step of the chunker, for the part the properties speak about: the   *)
(* audio heard, the length of the window, and what is left.                *)
LEMMA WindowStep ==
  ASSUME Types, Tiling, PaddingFits, DecodeWindow
  PROVE  /\ heard' = cursor' - padding
         /\ cursor' >= 2 * padding /\ cursor' > cursor
         /\ frames - cursor' > MIN_CHUNK_SIZE
         /\ window' <= MAX_CHUNK_SIZE + 3 * padding
<1> DEFINE w == current_chunk_width
           length == Greater(padded_end - mel_start, 0)
<1>1. live /\ ~is_final /\ cursor' = padded_end
  BY DEF DecodeWindow
<1>2. /\ Bound(mel_start, frames) = mel_start /\ mel_start \in Nat
      /\ mel_start + lead_trim = heard /\ mel_start >= cursor - 2 * padding
      /\ mel_start <= cursor /\ padding \in Nat /\ padding >= 1
  BY <1>1, WindowStart
<1>3. w \in Nat /\ w >= 1 /\ w <= MAX_CHUNK_SIZE /\ w >= padding
  <2>1. w \in 1..MAX_CHUNK_SIZE /\ w >= Lesser(size, MAX_CHUNK_SIZE)
    BY WidthRange
  <2>2. QED
    BY <2>1, LimitsAssumption DEF PaddingFits, Lesser, Types
<1>4. padded_end = cursor + w + padding
  BY DEF padded_end
<1> HIDE DEF w
<1>5. length = padded_end - mel_start /\ length \in Nat /\ length > padding
  BY <1>2, <1>3, <1>4 DEF Greater, Types
<1>6. window' = length /\ Hear(mel_start + lead_trim, mel_start + Bound(-padding, length))
  BY <1>2 DEF DecodeWindow, Decode
<1> HIDE DEF length
<1>7. mel_start + Bound(-padding, length) = padded_end - padding
  BY <1>2, <1>3, <1>4, <1>5 DEF Bound, Types
<1>8. padded_end - padding > heard
  <2>1. heard = IF cursor = 0 THEN 0 ELSE cursor - padding
    BY <1>1 DEF Tiling
  <2>2. QED
    BY <1>2, <1>3, <1>4, <2>1 DEF Types
<1>9. heard' = padded_end - padding
  BY <1>2, <1>6, <1>7, <1>8 DEF Hear
<1>10. frames - padded_end > MIN_CHUNK_SIZE
  BY <1>1, <1>2, <1>3, <1>4, LimitsAssumption DEF is_final, Types
<1>11. window' <= MAX_CHUNK_SIZE + 3 * padding
  BY <1>2, <1>3, <1>4, <1>5, <1>6, LimitsAssumption DEF Types
<1>12. padded_end >= 2 * padding /\ padded_end > cursor
  BY <1>2, <1>3, <1>4 DEF Types
<1>13. QED
  BY <1>1, <1>9, <1>10, <1>11, <1>12

LEMMA LastStep ==
  ASSUME Types, Tiling, PaddingFits, DecodeLast
  PROVE  /\ heard' = frames
         /\ window' <= MAX_CHUNK_SIZE + 3 * padding + MIN_CHUNK_SIZE
         /\ emitted' > 1 => fresh' > MIN_CHUNK_SIZE
<1> DEFINE w == current_chunk_width
           length == Greater(frames - mel_start, 0)
<1>1. live /\ ~one_shot /\ is_final /\ emitted' = emitted + 1
  BY DEF DecodeLast
<1>2. /\ Bound(mel_start, frames) = mel_start /\ mel_start \in Nat
      /\ mel_start + lead_trim = heard /\ mel_start >= cursor - 2 * padding
      /\ mel_start <= cursor /\ padding \in Nat /\ padding >= 1
  BY <1>1, WindowStart
<1>3. w \in Nat /\ w >= 1 /\ w <= MAX_CHUNK_SIZE
  BY WidthRange, LimitsAssumption
<1>4. padded_end = cursor + w + padding
  BY DEF padded_end
<1> HIDE DEF w
<1>5. frames > 0 /\ frames > cursor
  <2>1. frames > size * 2 + padding * 2
    BY <1>1 DEF one_shot, Types
  <2>2. QED
    BY <1>1, <1>2, <2>1, LimitsAssumption DEF Types, Tiling
<1>6. length = frames - mel_start /\ length \in Nat
  BY <1>2, <1>5 DEF Greater, Types
<1>7. window' = length /\ Hear(mel_start + lead_trim, mel_start + Bound(length, length))
  BY <1>2 DEF DecodeLast, Decode
<1> HIDE DEF length
<1>8. mel_start + Bound(length, length) = frames
  BY <1>2, <1>6 DEF Bound, Types
<1>9. frames > heard
  BY <1>1, <1>2, <1>5, LimitsAssumption DEF Types, Tiling
<1>10. heard' = frames /\ fresh' = frames - heard
  BY <1>2, <1>7, <1>8, <1>9 DEF Hear, Greater, Types
<1>11. window' <= MAX_CHUNK_SIZE + 3 * padding + MIN_CHUNK_SIZE
  <2>1. frames - padded_end <= MIN_CHUNK_SIZE
    BY <1>1 DEF is_final
  <2>2. QED
    BY <1>2, <1>3, <1>4, <1>6, <1>7, <2>1, LimitsAssumption DEF Types
<1>12. emitted' > 1 => fresh' > MIN_CHUNK_SIZE
  <2>1. ASSUME emitted' > 1 PROVE cursor # 0
    BY <1>1, <2>1 DEF Types, Tiling
  <2>2. QED
    BY <1>1, <1>2, <1>10, <2>1, LimitsAssumption DEF Types, Tiling
<1>13. QED
  BY <1>10, <1>11, <1>12

(* What holds in every state: the tiling, and its consequences.            *)
ChunkerInv ==
  Types /\ Tiling /\ AudioIsComplete /\ WindowIsBounded /\ NoRuntAtTheEnd

LEMMA ChunkerInvInit == Init => ChunkerInv
<1> SUFFICES ASSUME Init PROVE ChunkerInv
  OBVIOUS
<1>1. Types
  BY TypesInit
<1>2. cursor = 0 /\ emitted = 0 /\ window = 0 /\ heard = 0
  BY DEF Init
<1>3. live
  BY DEF Init
<1>4. Tiling
  BY <1>2 DEF Tiling
<1>5. WindowIsBounded
  BY <1>1, <1>2, LimitsAssumption DEF WindowIsBounded, Types
<1>6. QED
  BY <1>1, <1>3, <1>4, <1>5 DEF ChunkerInv, AudioIsComplete, NoRuntAtTheEnd

LEMMA ChunkerInvStep == ChunkerInv /\ [Next]_vars => ChunkerInv'
<1> SUFFICES ASSUME ChunkerInv, [Next]_vars PROVE ChunkerInv'
  OBVIOUS
<1>1. Types /\ Tiling /\ Types'
  BY TypesStep DEF ChunkerInv
<1>2. CASE DecodeWhole
  <2>1. ~live' /\ one_shot /\ UNCHANGED <<frames, size, padding>>
    BY <1>2 DEF DecodeWhole, input
  <2>2. live
    BY <1>2 DEF DecodeWhole
  <2>3. one_shot' /\ (PaddingFits' <=> PaddingFits)
    BY <2>1 DEF one_shot, PaddingFits
  <2>4. emitted' = emitted + 1 /\ cursor' = cursor
    BY <1>2 DEF DecodeWhole
  <2>5. /\ fresh' = Greater(frames - 0, 0)
        /\ heard' = IF 0 = heard /\ frames > 0 THEN frames ELSE heard
    BY <1>2 DEF DecodeWhole, Hear
  <2>6. ASSUME PaddingFits PROVE heard = 0 /\ emitted = 0
    BY <1>1, <2>1, <2>2, <2>6 DEF Tiling
  <2>7. AudioIsComplete'
    <3>1. ASSUME PaddingFits PROVE heard' = frames
      BY <1>1, <2>5, <2>6, <3>1 DEF Types
    <3>2. QED
      BY <2>1, <2>3, <3>1 DEF AudioIsComplete
  <2>8. NoRuntAtTheEnd'
    <3>1. ASSUME PaddingFits PROVE ~(emitted' > 1)
      BY <2>4, <2>6, <3>1
    <3>2. QED
      BY <2>3, <3>1 DEF NoRuntAtTheEnd
  <2>9. Tiling' /\ WindowIsBounded'
    BY <2>1, <2>3 DEF Tiling, WindowIsBounded
  <2>10. QED
    BY <1>1, <2>7, <2>8, <2>9 DEF ChunkerInv
<1>3. CASE DecodeWindow
  <2>1. live' = live /\ live /\ ~one_shot /\ UNCHANGED <<frames, size, padding>>
    BY <1>3 DEF DecodeWindow, input
  <2>2. ~one_shot' /\ (PaddingFits' <=> PaddingFits)
    BY <2>1 DEF one_shot, PaddingFits
  <2>3. emitted' = emitted + 1
    BY <1>3 DEF DecodeWindow
  <2>4. ASSUME PaddingFits
        PROVE  /\ heard' = cursor' - padding
               /\ cursor' >= 2 * padding /\ cursor' > cursor
               /\ frames - cursor' > MIN_CHUNK_SIZE
               /\ window' <= MAX_CHUNK_SIZE + 3 * padding
    BY <1>1, <1>3, <2>4, WindowStep
  <2>5. Tiling'
    <3>1. ASSUME PaddingFits PROVE cursor' # 0 /\ emitted' # 0
      BY <1>1, <2>3, <2>4, <3>1 DEF Types
    <3>2. QED
      BY <2>1, <2>2, <2>4, <3>1 DEF Tiling
  <2>6. WindowIsBounded'
    <3>1. ASSUME PaddingFits
          PROVE  window' <= MAX_CHUNK_SIZE + 3 * padding + MIN_CHUNK_SIZE
      BY <1>1, <2>4, <3>1, LimitsAssumption DEF Types
    <3>2. QED
      BY <2>1, <2>2, <3>1 DEF WindowIsBounded
  <2>7. AudioIsComplete' /\ NoRuntAtTheEnd'
    BY <2>1 DEF AudioIsComplete, NoRuntAtTheEnd
  <2>8. QED
    BY <1>1, <2>5, <2>6, <2>7 DEF ChunkerInv
<1>4. CASE DecodeLast
  <2>1. ~live' /\ UNCHANGED <<frames, size, padding>>
    BY <1>4 DEF DecodeLast, input
  <2>2. PaddingFits' <=> PaddingFits
    BY <2>1 DEF PaddingFits
  <2>3. ASSUME PaddingFits
        PROVE  /\ heard' = frames
               /\ window' <= MAX_CHUNK_SIZE + 3 * padding + MIN_CHUNK_SIZE
               /\ emitted' > 1 => fresh' > MIN_CHUNK_SIZE
    BY <1>1, <1>4, <2>3, LastStep
  <2>4. AudioIsComplete'
    BY <2>1, <2>2, <2>3 DEF AudioIsComplete
  <2>5. WindowIsBounded'
    BY <2>1, <2>2, <2>3 DEF WindowIsBounded
  <2>6. NoRuntAtTheEnd'
    BY <2>2, <2>3 DEF NoRuntAtTheEnd
  <2>7. Tiling'
    BY <2>1 DEF Tiling
  <2>8. QED
    BY <1>1, <2>4, <2>5, <2>6, <2>7 DEF ChunkerInv
<1>5. CASE UNCHANGED vars
  BY <1>5 DEF ChunkerInv, Types, Tiling, AudioIsComplete, WindowIsBounded,
              NoRuntAtTheEnd, PaddingFits, one_shot, vars
<1>6. QED
  BY <1>2, <1>3, <1>4, <1>5 DEF Next

LEMMA ChunkerInvAlways == Spec => []ChunkerInv
<1>1. QED
  BY ChunkerInvInit, ChunkerInvStep, PTL DEF Spec

(* For every sentence, chunk size and fitting padding: once the stream has *)
(* ended, the trimmed windows of SpeechStreamer add up to the whole        *)
(* sentence, in order, nothing missing and nothing twice.                  *)
THEOREM NoAudioIsLost == Spec => []AudioIsComplete
<1>1. ChunkerInv => AudioIsComplete
  BY DEF ChunkerInv
<1>2. QED
  BY <1>1, ChunkerInvAlways, PTL

(* For every sentence, chunk size and fitting padding the trimmed windows  *)
(* add up to the sentence; no decoder run exceeds the capped chunk width   *)
(* by more than its context and the merged tail, and the merge of a short  *)
(* rest into the last window leaves no window of MIN_CHUNK_SIZE new frames *)
(* or fewer behind others.                                                 *)
THEOREM WindowsFit == Spec => []WindowsFitTheDecoder
<1>1. ChunkerInv => WindowIsBounded /\ NoRuntAtTheEnd
  BY DEF ChunkerInv
<1>2. Spec => [](WindowIsBounded /\ NoRuntAtTheEnd)
  BY <1>1, ChunkerInvAlways, PTL
<1>3. QED
  BY <1>2, NoAudioIsLost, PTL DEF WindowsFitTheDecoder

(* Whatever the chunk size and the padding, zero included, a window either *)
(* moves the cursor on or is the last: the decoding loop cannot hang.      *)
THEOREM WindowsAdvance == Spec => EveryWindowAdvances
<1> DEFINE Advance == ~live' \/ cursor' > cursor
<1>1. Types /\ [Next]_vars => [Advance]_vars
  <2> SUFFICES ASSUME Types, [Next]_vars PROVE Advance \/ UNCHANGED vars
    OBVIOUS
  <2>1. CASE DecodeWhole \/ DecodeLast
    BY <2>1 DEF DecodeWhole, DecodeLast
  <2>2. CASE DecodeWindow
    <3>1. current_chunk_width \in 1..MAX_CHUNK_SIZE
      BY WidthRange
    <3>2. cursor' = cursor + current_chunk_width + padding
      BY <2>2 DEF DecodeWindow, padded_end
    <3> HIDE DEF current_chunk_width
    <3>3. QED
      BY <3>1, <3>2, LimitsAssumption DEF Types
  <2>3. QED
    BY <2>1, <2>2 DEF Next
<1>2. Spec => []Types
  BY TypesInit, TypesStep, PTL DEF Spec
<1>3. QED
  BY <1>1, <1>2, PTL DEF Spec, EveryWindowAdvances

-----------------------------------------------------------------------------
(* The settings of a voice.                                                *)

(* The lock: who copies is a reader of it, who writes is its writer.       *)
LockInv ==
  /\ SettingsTypeOK
  /\ \A c \in Call : stage[c] = "copying" => c \in readers
  /\ \A c \in Call : stage[c] = "writing" => writer = {c}
  /\ \A c \in Reader : stage[c] \in {"idle", "begun", "copying", "done"}
  /\ \A c \in Replacer : stage[c] \notin {"begun", "copying"}

(* With no writer the settings are whole; what was copied of them is what  *)
(* they are, and a reader's copy is what they were at some time.           *)
WholeInv ==
  /\ writer = {} => config \in settled
  /\ \A c \in Call : stage[c] = "copying" =>
       \A f \in Field \ left[c] : copy[c][f] = config[f]
  /\ SnapshotIsOneConfig

(* A call knows no value of a setting from before it began; one that did   *)
(* not copy names what it writes.                                          *)
SinceInv ==
  /\ \A c \in Call : stage[c] # "idle" => \A f \in Field : config[f] \in since[c][f]
  /\ \A c \in Patcher : stage[c] \in {"merged", "writing"} =>
       \A f \in Field : copy[c][f] \in since[c][f]
  /\ \A c \in Replacer : stage[c] \in {"merged", "writing"} => Scale \subseteq named[c]
  /\ \A c \in Updater : stage[c] = "writing" => left[c] \cap Skipped(c) = {}

SettingsInv == LockInv /\ WholeInv /\ SinceInv

LEMMA SettingsInvInit == SettingsInit => SettingsInv
<1> SUFFICES ASSUME SettingsInit PROVE SettingsInv
  OBVIOUS
<1> USE DEF SettingsInit
<1>1. LockInv
  <2>1. config \in [Field -> Value]
    BY DEF Loaded, Value
  <2>2. copy \in [Call -> [Field -> Value]] /\ since \in [Call -> [Field -> SUBSET Value]]
    BY DEF Value
  <2>3. SettingsTypeOK
    BY <2>1, <2>2 DEF SettingsTypeOK
  <2>4. \A c \in Call : stage[c] = "idle"
    OBVIOUS
  <2>5. QED
    BY <2>3, <2>4 DEF LockInv, Call, Updater
<1>2. WholeInv
  BY DEF WholeInv, SnapshotIsOneConfig, Call
<1>3. SinceInv
  BY DEF SinceInv, Call, Updater
<1>4. QED
  BY <1>1, <1>2, <1>3 DEF SettingsInv

LEMMA BeginStep ==
  ASSUME SettingsInv, NEW c \in Call, NEW names \in SUBSET Field, NEW place,
         Begins(c, names, place),
         \/ place = "begun" /\ c \in Patcher \cup Reader
         \/ place = "merged" /\ c \in Replacer /\ Scale \subseteq names
  PROVE  SettingsInv'
<1> USE DEF SettingsInv
<1>1. SettingsTypeOK /\ stage[c] = "idle"
  BY DEF LockInv, Begins
<1>2. /\ named' = [named EXCEPT ![c] = names] /\ stage' = [stage EXCEPT ![c] = place]
      /\ since' = [since EXCEPT ![c] = [f \in Field |-> {config[f]}]]
      /\ UNCHANGED <<config, readers, writer, left, copy, settled>>
  BY DEF Begins
<1>3. SettingsTypeOK'
  <2>1. [f \in Field |-> {config[f]}] \in [Field -> SUBSET Value]
    BY <1>1 DEF SettingsTypeOK
  <2>2. since' \in [Call -> [Field -> SUBSET Value]]
    BY <1>1, <1>2, <2>1 DEF SettingsTypeOK
  <2>3. QED
    BY <1>1, <1>2, <2>2 DEF SettingsTypeOK
<1>4. stage'[c] = place /\ \A d \in Call \ {c} : stage'[d] = stage[d]
  BY <1>1, <1>2 DEF SettingsTypeOK
<1>5. since'[c] = [f \in Field |-> {config[f]}] /\ \A d \in Call \ {c} : since'[d] = since[d]
  BY <1>1, <1>2 DEF SettingsTypeOK
<1>6. named'[c] = names /\ \A d \in Call \ {c} : named'[d] = named[d]
  BY <1>1, <1>2 DEF SettingsTypeOK
<1>7. LockInv'
  BY <1>1, <1>2, <1>3, <1>4, CallAssumption DEF LockInv, Call, Updater
<1>8. WholeInv'
  BY <1>2, <1>4 DEF WholeInv, SnapshotIsOneConfig, Call
<1>9. \A d \in Call : stage'[d] # "idle" => \A f \in Field : config'[f] \in since'[d][f]
  BY <1>2, <1>4, <1>5 DEF SinceInv
<1>10. \A d \in Patcher : stage'[d] \in {"merged", "writing"} =>
         \A f \in Field : copy'[d][f] \in since'[d][f]
  BY <1>2, <1>4, <1>5, CallAssumption DEF SinceInv, Call, Updater
<1>11. \A d \in Replacer : stage'[d] \in {"merged", "writing"} => Scale \subseteq named'[d]
  BY <1>4, <1>6 DEF SinceInv, Call, Updater
<1>12. \A d \in Updater : stage'[d] = "writing" => left'[d] \cap (Skipped(d))' = {}
  BY <1>2, <1>4, <1>6 DEF SinceInv, Call, Skipped
<1>13. QED
  BY <1>7, <1>8, <1>9, <1>10, <1>11, <1>12 DEF SinceInv

(* A step of one call that leaves the settings, and what the call named    *)
(* and copied, be.                                                         *)
LEMMA ReadLockStep ==
  ASSUME SettingsInv, NEW c \in Patcher \cup Reader, ReadLock(c)
  PROVE  SettingsInv'
<1> USE DEF SettingsInv
<1>1. SettingsTypeOK /\ c \in Call
  BY DEF LockInv, Call, Updater
<1>2. /\ stage[c] = "begun" /\ writer = {} /\ readers' = readers \cup {c}
      /\ stage' = [stage EXCEPT ![c] = "copying"] /\ left' = [left EXCEPT ![c] = Field]
      /\ UNCHANGED <<config, writer, named, copy, settled, since>>
  BY DEF ReadLock, historyVars
<1>3. stage'[c] = "copying" /\ \A d \in Call \ {c} : stage'[d] = stage[d] /\ left'[d] = left[d]
  BY <1>1, <1>2 DEF SettingsTypeOK
<1>4. left'[c] = Field
  BY <1>1, <1>2 DEF SettingsTypeOK
<1>5. SettingsTypeOK'
  BY <1>1, <1>2 DEF SettingsTypeOK
<1>6. LockInv'
  BY <1>1, <1>2, <1>3, <1>5, CallAssumption DEF LockInv, Call, Updater
<1>7. WholeInv'
  BY <1>2, <1>3, <1>4 DEF WholeInv, SnapshotIsOneConfig, Call
<1>8. SinceInv'
  BY <1>2, <1>3 DEF SinceInv, Call, Updater, Skipped
<1>9. QED
  BY <1>6, <1>7, <1>8

LEMMA CopyStep ==
  ASSUME SettingsInv, NEW c \in Patcher \cup Reader, CopyField(c)
  PROVE  SettingsInv'
<1> USE DEF SettingsInv
<1>1. SettingsTypeOK /\ c \in Call
  BY DEF LockInv, Call, Updater
<1>2. PICK f \in left[c] :
        /\ copy' = [copy EXCEPT ![c][f] = config[f]]
        /\ left' = [left EXCEPT ![c] = @ \ {f}]
  BY DEF CopyField, Copied
<1>3. stage[c] = "copying" /\ UNCHANGED <<config, readers, writer, stage, named, settled, since>>
  BY DEF CopyField, historyVars
<1>4. f \in Field
  BY <1>1, <1>2 DEF SettingsTypeOK
<1>5. left'[c] = left[c] \ {f} /\ \A d \in Call \ {c} : copy'[d] = copy[d] /\ left'[d] = left[d]
  BY <1>1, <1>2 DEF SettingsTypeOK
<1>6. copy'[c] = [copy[c] EXCEPT ![f] = config[f]]
  BY <1>1, <1>2 DEF SettingsTypeOK
<1>7. copy'[c][f] = config[f] /\ \A g \in Field \ {f} : copy'[c][g] = copy[c][g]
  BY <1>1, <1>4, <1>6 DEF SettingsTypeOK
<1>8. SettingsTypeOK'
  <2>1. copy'[c] \in [Field -> Value]
    BY <1>1, <1>4, <1>6 DEF SettingsTypeOK
  <2>2. copy' \in [Call -> [Field -> Value]]
    BY <1>1, <1>2, <1>6, <2>1 DEF SettingsTypeOK
  <2>3. QED
    BY <1>1, <1>2, <1>3, <2>2 DEF SettingsTypeOK
<1>9. LockInv'
  BY <1>3, <1>8 DEF LockInv
<1>10. WholeInv'
  BY <1>3, <1>5, <1>7 DEF WholeInv, SnapshotIsOneConfig, Call
<1>11. SinceInv'
  BY <1>3, <1>5 DEF SinceInv, Call, Updater, Skipped
<1>12. QED
  BY <1>9, <1>10, <1>11

(* A reader's finished copy is of the settings as they are, with no        *)
(* writer inside.                                                          *)
LEMMA ReadUnlockStep ==
  ASSUME SettingsInv, NEW c \in Patcher \cup Reader, ReadUnlock(c)
  PROVE  SettingsInv'
<1> USE DEF SettingsInv
<1> DEFINE place == IF c \in Reader THEN "done" ELSE "merged"
<1>1. SettingsTypeOK /\ c \in Call
  BY DEF LockInv, Call, Updater
<1>2. /\ stage[c] = "copying" /\ left[c] = {} /\ readers' = readers \ {c}
      /\ stage' = [stage EXCEPT ![c] = place]
      /\ UNCHANGED <<config, writer, named, left, copy, settled, since>>
  BY DEF ReadUnlock, historyVars
<1>3. stage'[c] = place /\ \A d \in Call \ {c} : stage'[d] = stage[d]
  BY <1>1, <1>2 DEF SettingsTypeOK
<1>4. SettingsTypeOK'
  BY <1>1, <1>2 DEF SettingsTypeOK
<1>5. LockInv'
  BY <1>1, <1>2, <1>3, <1>4, CallAssumption DEF LockInv, Call, Updater
<1>6. writer = {} /\ config \in settled
  BY <1>1, <1>2 DEF LockInv, WholeInv, SettingsTypeOK
<1>7. \A f \in Field : copy[c][f] = config[f]
  BY <1>1, <1>2 DEF WholeInv
<1>8. copy[c] = config
  <2>1. copy[c] \in [Field -> Value] /\ config \in [Field -> Value]
    BY <1>1 DEF SettingsTypeOK
  <2>2. QED
    BY <1>7, <2>1
<1>9. WholeInv'
  <2>1. \A d \in Call : stage'[d] = "copying" =>
          \A f \in Field \ left'[d] : copy'[d][f] = config'[f]
    BY <1>2, <1>3 DEF WholeInv
  <2>2. SnapshotIsOneConfig'
    BY <1>2, <1>3, <1>6, <1>8 DEF WholeInv, SnapshotIsOneConfig, Call
  <2>3. QED
    BY <1>2, <1>6, <2>1, <2>2 DEF WholeInv
<1>10. SinceInv'
  <2>1. \A f \in Field : copy[c][f] \in since[c][f]
    BY <1>1, <1>2, <1>7 DEF SinceInv
  <2>2. \A d \in Patcher : stage'[d] \in {"merged", "writing"} =>
          \A f \in Field : copy'[d][f] \in since'[d][f]
    BY <1>2, <1>3, <2>1 DEF SinceInv, Call, Updater
  <2>3. \A d \in Replacer : stage'[d] \in {"merged", "writing"} => Scale \subseteq named'[d]
    BY <1>1, <1>2, <1>3 DEF SinceInv, LockInv, Call, Updater
  <2>4. \A d \in Updater : stage'[d] = "writing" => left'[d] \cap (Skipped(d))' = {}
    BY <1>2, <1>3 DEF SinceInv, Call, Skipped
  <2>5. \A d \in Call : stage'[d] # "idle" => \A f \in Field : config'[f] \in since'[d][f]
    BY <1>2, <1>3 DEF SinceInv
  <2>6. QED
    BY <2>2, <2>3, <2>4, <2>5 DEF SinceInv
<1>11. QED
  BY <1>5, <1>9, <1>10

LEMMA RefuseStep ==
  ASSUME SettingsInv, NEW c \in Updater, RefuseSpeaker(c)
  PROVE  SettingsInv'
<1> USE DEF SettingsInv
<1>1. SettingsTypeOK /\ c \in Call
  BY DEF LockInv, Call
<1>2. /\ stage[c] = "merged" /\ stage' = [stage EXCEPT ![c] = "refused"]
      /\ UNCHANGED <<config, readers, writer, named, left, copy, settled, since>>
  BY DEF RefuseSpeaker, historyVars
<1>3. stage'[c] = "refused" /\ \A d \in Call \ {c} : stage'[d] = stage[d]
  BY <1>1, <1>2 DEF SettingsTypeOK
<1>4. SettingsTypeOK'
  BY <1>1, <1>2 DEF SettingsTypeOK
<1>5. LockInv'
  BY <1>2, <1>3, <1>4, CallAssumption DEF LockInv, Call, Updater
<1>6. WholeInv'
  BY <1>2, <1>3 DEF WholeInv, SnapshotIsOneConfig, Call
<1>7. SinceInv'
  BY <1>1, <1>2, <1>3 DEF SinceInv, Call, Updater, Skipped
<1>8. QED
  BY <1>5, <1>6, <1>7

LEMMA WriteLockStep ==
  ASSUME SettingsInv, NEW c \in Updater, WriteLock(c)
  PROVE  SettingsInv'
<1> USE DEF SettingsInv
<1>1. SettingsTypeOK /\ c \in Call
  BY DEF LockInv, Call
<1>2. /\ stage[c] = "merged" /\ writer = {} /\ readers = {} /\ writer' = {c}
      /\ stage' = [stage EXCEPT ![c] = "writing"]
      /\ left' = [left EXCEPT ![c] = Field \ Skipped(c)]
      /\ UNCHANGED <<config, readers, named, copy, settled, since>>
  BY DEF WriteLock, historyVars
<1>3. stage'[c] = "writing" /\ \A d \in Call \ {c} : stage'[d] = stage[d] /\ left'[d] = left[d]
  BY <1>1, <1>2 DEF SettingsTypeOK
<1>4. left'[c] = Field \ Skipped(c) /\ \A d \in Call : (Skipped(d))' = Skipped(d)
  BY <1>1, <1>2 DEF SettingsTypeOK, Skipped
<1>5. SettingsTypeOK'
  BY <1>1, <1>2 DEF SettingsTypeOK
<1>6. \A d \in Call : stage[d] \notin {"copying", "writing"}
  BY <1>2 DEF LockInv
<1>7. LockInv'
  BY <1>2, <1>3, <1>5, <1>6, CallAssumption DEF LockInv, Call, Updater
<1>8. WholeInv'
  BY <1>2, <1>3, <1>6 DEF WholeInv, SnapshotIsOneConfig, Call
<1>9. SinceInv'
  BY <1>1, <1>2, <1>3, <1>4, <1>6 DEF SinceInv, Call, Updater
<1>10. QED
  BY <1>7, <1>8, <1>9

(* What a call writes is its own value, or one the setting has had since   *)
(* the call began.                                                         *)
LEMMA WritesKnownValue ==
  ASSUME SettingsInv, NEW c \in Updater, stage[c] = "writing", NEW f \in left[c]
  PROVE  f \in Field /\ (IF f \in named[c] THEN Asked(c, f) = c ELSE Asked(c, f) \in since[c][f])
<1>1. f \in Field /\ f \notin Skipped(c)
  BY DEF SettingsInv, LockInv, SinceInv, SettingsTypeOK, Call
<1>2. CASE f \in named[c]
  BY <1>1, <1>2 DEF Asked
<1>3. CASE f \notin named[c] /\ c \in Patcher
  BY <1>1, <1>3 DEF Asked, SettingsInv, SinceInv
<1>4. CASE f \notin named[c] /\ c \in Replacer
  <2>1. f = Speaker
    BY <1>1, <1>4 DEF SettingsInv, SinceInv, Field
  <2>2. QED
    BY <1>1, <1>4, <2>1 DEF Skipped
<1>5. QED
  BY <1>2, <1>3, <1>4 DEF Updater

LEMMA WriteStep ==
  ASSUME SettingsInv, NEW c \in Updater, WriteField(c)
  PROVE  SettingsInv'
<1> USE DEF SettingsInv
<1>1. SettingsTypeOK /\ c \in Call
  BY DEF LockInv, Call
<1>2. PICK f \in left[c] :
        /\ config' = [config EXCEPT ![f] = Asked(c, f)]
        /\ left' = [left EXCEPT ![c] = @ \ {f}]
        /\ since' = [d \in Call |-> [since[d] EXCEPT ![f] = @ \cup {Asked(c, f)}]]
  BY DEF WriteField
<1>3. stage[c] = "writing" /\ UNCHANGED <<readers, writer, stage, named, copy, settled>>
  BY DEF WriteField
<1>4. f \in Field /\ Asked(c, f) \in Value
  BY <1>1, <1>2, <1>3, WritesKnownValue DEF SettingsTypeOK, Asked, Value
<1>5. writer = {c} /\ readers = {} /\ \A d \in Call : stage[d] # "copying"
  BY <1>1, <1>3 DEF LockInv, SettingsTypeOK
<1>6. left'[c] = left[c] \ {f} /\ \A d \in Call \ {c} : left'[d] = left[d]
  BY <1>1, <1>2 DEF SettingsTypeOK
<1>7. /\ config'[f] = Asked(c, f) /\ \A g \in Field \ {f} : config'[g] = config[g]
      /\ \A d \in Call : /\ since'[d][f] = since[d][f] \cup {Asked(c, f)}
                         /\ \A g \in Field \ {f} : since'[d][g] = since[d][g]
  BY <1>1, <1>2, <1>4 DEF SettingsTypeOK
<1>8. SettingsTypeOK'
  <2>1. config' \in [Field -> Value]
    BY <1>1, <1>2, <1>4 DEF SettingsTypeOK
  <2>2. left' \in [Call -> SUBSET Field]
    BY <1>1, <1>2 DEF SettingsTypeOK
  <2>3. since' \in [Call -> [Field -> SUBSET Value]]
    <3>1. \A d \in Call : [since[d] EXCEPT ![f] = @ \cup {Asked(c, f)}] \in [Field -> SUBSET Value]
      BY <1>1, <1>4 DEF SettingsTypeOK
    <3>2. QED
      BY <1>2, <3>1
  <2>4. QED
    BY <1>1, <1>3, <2>1, <2>2, <2>3 DEF SettingsTypeOK
<1>9. LockInv'
  BY <1>3, <1>8 DEF LockInv
<1>10. WholeInv'
  BY <1>3, <1>5 DEF WholeInv, SnapshotIsOneConfig
<1>11. \A d \in Call : stage'[d] # "idle" => \A g \in Field : config'[g] \in since'[d][g]
  BY <1>3, <1>7 DEF SinceInv
<1>12. \A d \in Patcher : stage'[d] \in {"merged", "writing"} =>
         \A g \in Field : copy'[d][g] \in since'[d][g]
  BY <1>3, <1>7 DEF SinceInv, Call, Updater
<1>13. \A d \in Updater : stage'[d] = "writing" => left'[d] \cap (Skipped(d))' = {}
  BY <1>1, <1>3, <1>6 DEF SinceInv, Call, Skipped
<1>14. SinceInv'
  BY <1>3, <1>11, <1>12, <1>13 DEF SinceInv
<1>15. QED
  BY <1>9, <1>10, <1>14

LEMMA WriteUnlockStep ==
  ASSUME SettingsInv, NEW c \in Updater, WriteUnlock(c)
  PROVE  SettingsInv'
<1> USE DEF SettingsInv
<1>1. SettingsTypeOK /\ c \in Call
  BY DEF LockInv, Call
<1>2. /\ stage[c] = "writing" /\ writer' = {} /\ stage' = [stage EXCEPT ![c] = "done"]
      /\ settled' = settled \cup {config}
      /\ UNCHANGED <<config, readers, named, left, copy, since>>
  BY DEF WriteUnlock
<1>3. stage'[c] = "done" /\ \A d \in Call \ {c} : stage'[d] = stage[d]
  BY <1>1, <1>2 DEF SettingsTypeOK
<1>4. SettingsTypeOK'
  BY <1>1, <1>2 DEF SettingsTypeOK
<1>5. writer = {c} /\ \A d \in Call \ {c} : stage[d] # "writing"
  <2>1. writer = {c}
    BY <1>1, <1>2 DEF LockInv
  <2>2. QED
    BY <2>1 DEF LockInv
<1>6. LockInv'
  BY <1>2, <1>3, <1>4, <1>5, CallAssumption DEF LockInv, Call, Updater
<1>7. WholeInv'
  BY <1>2, <1>3, CallAssumption DEF WholeInv, SnapshotIsOneConfig, Call
<1>8. SinceInv'
  BY <1>1, <1>2, <1>3 DEF SinceInv, Call, Updater, Skipped
<1>9. QED
  BY <1>6, <1>7, <1>8

LEMMA SettingsInvStep == SettingsInv /\ SettingsNext => SettingsInv'
<1> SUFFICES ASSUME SettingsInv, SettingsNext PROVE SettingsInv'
  OBVIOUS
<1>1. ASSUME NEW c \in Call, BeginPatch(c) PROVE SettingsInv'
  BY <1>1, BeginStep DEF BeginPatch
<1>2. ASSUME NEW c \in Call, BeginParameter(c) PROVE SettingsInv'
  BY <1>2, BeginStep DEF BeginParameter, Field
<1>3. ASSUME NEW c \in Call, BeginReplace(c) PROVE SettingsInv'
  BY <1>3, BeginStep DEF BeginReplace, Field
<1>4. ASSUME NEW c \in Call, BeginRead(c) PROVE SettingsInv'
  BY <1>4, BeginStep DEF BeginRead
<1>5. QED
  BY <1>1, <1>2, <1>3, <1>4, ReadLockStep, CopyStep, ReadUnlockStep, RefuseStep, WriteLockStep,
     WriteStep, WriteUnlockStep DEF SettingsNext

(* Settings change in WriteField only.                                     *)
LEMMA WritesSurvive ==
  SettingsInv /\ [SettingsNext]_settingsVars => UpdatesSurvive
<1> SUFFICES ASSUME SettingsInv, [SettingsNext]_settingsVars PROVE UpdatesSurvive
  OBVIOUS
<1>1. CASE UNCHANGED config
  BY <1>1 DEF UpdatesSurvive
<1>2. CASE \E c \in Updater : WriteField(c)
  <2>1. PICK c \in Updater : WriteField(c)
    BY <1>2
  <2>2. PICK f \in left[c] : config' = [config EXCEPT ![f] = Asked(c, f)]
    BY <2>1 DEF WriteField
  <2>3. stage[c] = "writing" /\ c \in Call
    BY <2>1 DEF WriteField, Call
  <2>4. writer = {c}
    BY <2>3 DEF SettingsInv, LockInv
  <2>5. SUFFICES ASSUME NEW g \in Field, config'[g] # config[g]
                 PROVE  IF g \in named[c] THEN config'[g] = c ELSE config'[g] \in since[c][g]
    BY <2>4 DEF UpdatesSurvive
  <2>6. g = f /\ config'[g] = Asked(c, f)
    BY <2>2, <2>5 DEF SettingsInv, LockInv, SettingsTypeOK
  <2>7. QED
    BY <2>3, <2>6, WritesKnownValue
<1>3. QED
  BY <1>1, <1>2 DEF SettingsNext, BeginPatch, BeginParameter, BeginReplace, BeginRead, Begins,
     ReadLock, CopyField, ReadUnlock, RefuseSpeaker, WriteLock, WriteUnlock, settingsVars

(* However many calls patch, replace and read the settings of a voice at   *)
(* once: an inference's snapshot is one the voice had while no update was  *)
(* half-way, and an update writes nothing older than itself.               *)
THEOREM SettingsKeepTogether == SettingsSpec => SettingsAreNeverTorn
<1>1. SettingsInv /\ UNCHANGED settingsVars => SettingsInv'
  BY DEF SettingsInv, LockInv, WholeInv, SinceInv, SettingsTypeOK, SnapshotIsOneConfig, Skipped,
         settingsVars
<1>2. SettingsInv /\ [SettingsNext]_settingsVars => SettingsInv'
  BY <1>1, SettingsInvStep
<1>3. SettingsInv /\ SettingsInv' /\ [SettingsNext]_settingsVars
        => UpdatesSurvive /\ SnapshotIsOneConfig'
  BY WritesSurvive DEF SettingsInv, WholeInv
<1>4. QED
  BY <1>2, <1>3, SettingsInvInit, PTL DEF SettingsSpec, SettingsAreNeverTorn
-----------------------------------------------------------------------------
(* eSpeak.  What a call has copied out of the one shared library is, in    *)
(* order, what lies before the place it is at; a call inside is alone, and *)
(* finds the voice it selected.                                            *)

TextPlaces == {"outside", "entered", "selected", "done", "failed"}
Said == [line : Nat, clause : Nat, voice : KnownLanguages \cup {UnknownLanguage}]
ClausesTo(r, l, n) == [i \in 1..n |-> [line |-> l, clause |-> i, voice |-> r.language]]
ClausesOf(r, l) ==
  [n \in DOMAIN r.lines[l].ends |-> [line |-> l, clause |-> n, voice |-> r.language]]
LinesTo(r, l) == [i \in 1..l |-> ClausesOf(r, i)]

IsSentence(r, s) ==
  /\ s # << >>
  /\ \/ r.lines[Last(s).line].ends[Last(s).clause] = "sentence"
     \/ Last(s).clause = Len(r.lines[Last(s).line].ends)
  /\ \A k \in 1..(Len(s) - 1) :
       s[k].line = Last(s).line /\ r.lines[s[k].line].ends[s[k].clause] = "clause"

(* Sentences, the clauses of one that has begun on line l, up to n, and   *)
(* both together.                                                          *)
AreSentences(r, sentences) ==
  sentences \in Seq(Seq(Said)) /\ \A s \in 1..Len(sentences) : IsSentence(r, sentences[s])
IsBegun(r, begun, l, n) ==
  /\ begun \in Seq(Said)
  /\ \A k \in 1..Len(begun) : begun[k].line = l /\ r.lines[l].ends[begun[k].clause] = "clause"
  /\ begun # << >> => begun[Len(begun)].clause = n
AreInOrder(r, sentences, begun, l, n) ==
  FlattenSeq(sentences) \o begun = FlattenSeq(LinesTo(r, l - 1)) \o ClausesTo(r, l, n)

(* What is read before clause n of line l. *)
ReadUpTo(r, sentences, begun, l, n) ==
  /\ AreSentences(r, sentences)
  /\ IsBegun(r, begun, l, n - 1)
  /\ AreInOrder(r, sentences, begun, l, n - 1)

(* Nothing is begun outside; inside a call is alone with its voice.        *)
CallStands(c) ==
  /\ request[c] \in Requests
  /\ callAt[c] \in TextPlaces
  /\ textLine[c] \in 1..(Len(request[c].lines) + 1)
  /\ clause[c] \in Nat \ {0}
  /\ callAt[c] \in {"entered", "selected"} =>
       inside = {c} /\ textLine[c] <= Len(request[c].lines)
  /\ callAt[c] = "selected" =>
       selectedVoice = request[c].language /\ clause[c] <= Len(Line(c).ends) + 1
  /\ callAt[c] \in {"outside", "entered", "done"} => clause[c] = 1 /\ pending[c] = << >>
  /\ callAt[c] = "done" => textLine[c] = Len(request[c].lines) + 1

ReadInv ==
  \A c \in TextCaller : ReadUpTo(request[c], sentencesOut[c], pending[c], textLine[c], clause[c])
StandInv == \A c \in TextCaller : CallStands(c)
EspeakTypeInv ==
  /\ request \in [TextCaller -> Requests] /\ callAt \in [TextCaller -> TextPlaces]
  /\ textLine \in [TextCaller -> Nat \ {0}] /\ clause \in [TextCaller -> Nat \ {0}]
  /\ pending \in [TextCaller -> Seq(Said)] /\ sentencesOut \in [TextCaller -> Seq(Seq(Said))]
EspeakInv == EspeakTypeInv /\ StandInv /\ ReadInv

LEMMA TextShape ==
  ASSUME NEW r \in Requests
  PROVE  /\ r.lines \in Seq([nul : BOOLEAN, ends : Seq({"clause", "sentence"})])
         /\ Len(r.lines) \in Nat
         /\ r.language \in KnownLanguages \cup {UnknownLanguage}
         /\ \A l \in 1..Len(r.lines) :
              /\ r.lines[l].ends \in Seq({"clause", "sentence"})
              /\ Len(r.lines[l].ends) \in Nat
              /\ DOMAIN r.lines[l].ends = 1..Len(r.lines[l].ends)
<1>1. r.lines \in SpokenTexts /\ r.language \in KnownLanguages \cup {UnknownLanguage}
  BY DEF Requests
<1>2. r.lines \in Seq([nul : BOOLEAN, ends : Seq({"clause", "sentence"})])
  BY <1>1, EspeakAssumption
<1>3. \A l \in 1..Len(r.lines) : r.lines[l].ends \in Seq({"clause", "sentence"})
  <2>1. SUFFICES ASSUME NEW l \in 1..Len(r.lines)
                 PROVE  r.lines[l].ends \in Seq({"clause", "sentence"})
    OBVIOUS
  <2> DEFINE Lines == [nul : BOOLEAN, ends : Seq({"clause", "sentence"})]
  <2>2. \A k \in Lines : k.ends \in Seq({"clause", "sentence"})
    OBVIOUS
  <2> HIDE DEF Lines
  <2>3. r.lines \in Seq(Lines)
    BY <1>2 DEF Lines
  <2>4. r.lines[l] \in Lines
    BY <2>3
  <2>5. QED
    BY <2>2, <2>4
<1>4. QED
  BY <1>1, <1>2, <1>3

LEMMA ClausesToShape ==
  ASSUME NEW r \in Requests, NEW l \in Nat, NEW n \in Nat
  PROVE  /\ ClausesTo(r, l, n) \in Seq(Said)
         /\ Len(ClausesTo(r, l, n)) = n
         /\ [line |-> l, clause |-> n, voice |-> r.language] \in Said
<1>1. \A i \in Nat : [line |-> l, clause |-> i, voice |-> r.language] \in Said
  BY TextShape DEF Said
<1>2. \A i \in 1..n : [line |-> l, clause |-> i, voice |-> r.language] \in Said
  BY <1>1
<1>3. QED
  BY <1>1, <1>2 DEF ClausesTo

(* One clause more.                                                        *)
LEMMA ClausesToNext ==
  ASSUME NEW r \in Requests, NEW l \in Nat, NEW n \in Nat \ {0}
  PROVE  ClausesTo(r, l, n) =
           Append(ClausesTo(r, l, n - 1), [line |-> l, clause |-> n, voice |-> r.language])
<1> DEFINE x == [line |-> l, clause |-> n, voice |-> r.language]
           s == ClausesTo(r, l, n - 1)
<1>1. n - 1 \in Nat
  OBVIOUS
<1>2. s \in Seq(Said) /\ Len(s) = n - 1 /\ x \in Said
  BY <1>1, ClausesToShape
<1>3. \A i \in 1..(n - 1) : s[i] = [line |-> l, clause |-> i, voice |-> r.language]
  BY DEF ClausesTo
<1>4. ClausesTo(r, l, n) \in Seq(Said) /\ Len(ClausesTo(r, l, n)) = n
  BY ClausesToShape
<1>5. \A i \in 1..n : ClausesTo(r, l, n)[i] = [line |-> l, clause |-> i, voice |-> r.language]
  BY DEF ClausesTo
<1> HIDE DEF s, x
<1>6. Append(s, x) \in Seq(Said) /\ Len(Append(s, x)) = n
  BY <1>2
<1>7. \A i \in 1..n : ClausesTo(r, l, n)[i] = Append(s, x)[i]
  <2>1. SUFFICES ASSUME NEW i \in 1..n PROVE ClausesTo(r, l, n)[i] = Append(s, x)[i]
    OBVIOUS
  <2>2. CASE i = n
    <3>1. Append(s, x)[n] = x
      BY <1>2
    <3>2. QED
      BY <1>5, <2>2, <3>1 DEF x
  <2>3. CASE i # n
    <3>1. i \in 1..(n - 1)
      BY <2>3
    <3>2. Append(s, x)[i] = s[i]
      BY <1>2, <3>1
    <3>3. QED
      BY <1>3, <1>5, <3>1, <3>2
  <2>4. QED
    BY <2>2, <2>3
<1>8. ClausesTo(r, l, n) = Append(s, x)
  BY <1>4, <1>6, <1>7, SeqEqual
<1>9. QED
  BY <1>8 DEF s, x

LEMMA ClausesOfLine ==
  ASSUME NEW r \in Requests, NEW l \in 1..Len(r.lines)
  PROVE  ClausesOf(r, l) = ClausesTo(r, l, Len(r.lines[l].ends)) /\ ClausesOf(r, l) \in Seq(Said)
<1>1. DOMAIN r.lines[l].ends = 1..Len(r.lines[l].ends) /\ Len(r.lines[l].ends) \in Nat
  BY TextShape
<1>2. ClausesOf(r, l) = ClausesTo(r, l, Len(r.lines[l].ends))
  BY <1>1 DEF ClausesOf, ClausesTo
<1>3. l \in Nat
  BY TextShape
<1>4. QED
  BY <1>1, <1>2, <1>3, ClausesToShape

LEMMA LinesToShape ==
  ASSUME NEW r \in Requests, NEW l \in 0..Len(r.lines)
  PROVE  LinesTo(r, l) \in Seq(Seq(Said)) /\ Len(LinesTo(r, l)) = l
<1>1. l \in Nat /\ \A i \in 1..l : i \in 1..Len(r.lines)
  BY TextShape
<1>2. \A i \in 1..l : ClausesOf(r, i) \in Seq(Said)
  BY <1>1, ClausesOfLine
<1>3. QED
  BY <1>1, <1>2 DEF LinesTo

(* One line more.                                                          *)
LEMMA LinesToNext ==
  ASSUME NEW r \in Requests, NEW l \in 1..Len(r.lines)
  PROVE  LinesTo(r, l) = Append(LinesTo(r, l - 1), ClausesOf(r, l))
<1> DEFINE x == ClausesOf(r, l)
           s == LinesTo(r, l - 1)
           t == LinesTo(r, l)
<1>1. l - 1 \in 0..Len(r.lines) /\ l \in 0..Len(r.lines) /\ l \in Nat \ {0}
  BY TextShape
<1>2. s \in Seq(Seq(Said)) /\ Len(s) = l - 1 /\ x \in Seq(Said) /\ t \in Seq(Seq(Said)) /\ Len(t) = l
  BY <1>1, LinesToShape, ClausesOfLine
<1>3. (\A i \in 1..(l - 1) : s[i] = ClausesOf(r, i)) /\ (\A i \in 1..l : t[i] = ClausesOf(r, i))
  BY DEF LinesTo
<1> HIDE DEF s, t
<1>4. t[l] = x
  BY <1>1, <1>3
<1> HIDE DEF x
<1>6. Append(s, x) \in Seq(Seq(Said)) /\ Len(Append(s, x)) = l
  BY <1>2
<1>7. \A i \in 1..l : t[i] = Append(s, x)[i]
  <2>1. SUFFICES ASSUME NEW i \in 1..l PROVE t[i] = Append(s, x)[i]
    OBVIOUS
  <2>2. CASE i = l
    <3>1. Append(s, x)[l] = x
      BY <1>1, <1>2
    <3>2. QED
      BY <1>4, <2>2, <3>1
  <2>3. CASE i # l
    <3>1. i \in 1..(l - 1)
      BY <2>3
    <3>2. Append(s, x)[i] = s[i]
      BY <1>2, <3>1
    <3>3. QED
      BY <1>3, <3>1, <3>2
  <2>4. QED
    BY <2>2, <2>3
<1>8. t = Append(s, x)
  BY <1>2, <1>6, <1>7, SeqEqual
<1>9. QED
  BY <1>8 DEF s, t, x

LEMMA AppendAfter ==
  ASSUME NEW X
  PROVE  \A s, t \in Seq(X) : \A x \in X : s \o Append(t, x) = Append(s \o t, x)
<1> SUFFICES ASSUME NEW s \in Seq(X), NEW t \in Seq(X), NEW x \in X
             PROVE  s \o Append(t, x) = Append(s \o t, x)
  OBVIOUS
<1>1. Append(t, x) = t \o <<x>> /\ Append(s \o t, x) = (s \o t) \o <<x>>
  BY AppendIsConcat, ConcatProperties
<1>2. <<x>> \in Seq(X)
  OBVIOUS
<1>3. s \o (t \o <<x>>) = (s \o t) \o <<x>>
  BY <1>2, ConcatAssociative
<1>4. QED
  BY <1>1, <1>3

(* What is begun is of one line, and ends no sentence before its last      *)
(* clause.                                                                 *)
LEMMA BegunIsSentence ==
  ASSUME NEW r, NEW s \in Seq(Said), NEW l \in Nat, NEW n \in Nat, s # << >>,
         \A k \in 1..(Len(s) - 1) : s[k].line = l /\ r.lines[l].ends[s[k].clause] = "clause",
         s[Len(s)].line = l, s[Len(s)].clause = n,
         r.lines[l].ends[n] = "sentence" \/ n = Len(r.lines[l].ends)
  PROVE  IsSentence(r, s)
<1>1. Last(s) = s[Len(s)]
  BY DEF Last
<1>2. QED
  BY <1>1, Zenon DEF IsSentence

LEMMA NothingIsBegun == \A r, l, n : IsBegun(r, << >>, l, n)
<1>1. << >> \in Seq(Said) /\ 1..Len(<< >>) = {}
  OBVIOUS
<1>2. QED
  BY <1>1 DEF IsBegun

(* One sentence more.                                                      *)
LEMMA SentencesGrow ==
  ASSUME NEW r, NEW sentences, AreSentences(r, sentences), NEW s \in Seq(Said), IsSentence(r, s)
  PROVE  /\ AreSentences(r, Append(sentences, s))
         /\ FlattenSeq(Append(sentences, s)) \o << >> = FlattenSeq(sentences) \o s
<1>0. sentences \in Seq(Seq(Said)) /\ \A k \in 1..Len(sentences) : IsSentence(r, sentences[k])
  BY DEF AreSentences
<1>1. Append(sentences, s) \in Seq(Seq(Said)) /\ Len(Append(sentences, s)) = Len(sentences) + 1
  BY <1>0
<1>2. ASSUME NEW k \in 1..Len(Append(sentences, s))
      PROVE  IsSentence(r, Append(sentences, s)[k])
  <2>1. CASE k = Len(sentences) + 1
    <3>1. Append(sentences, s)[k] = s
      BY <1>0, <2>1
    <3>2. QED
      BY <3>1
  <2>2. CASE k # Len(sentences) + 1
    <3>1. k \in 1..Len(sentences) /\ Append(sentences, s)[k] = sentences[k]
      BY <1>0, <1>1, <2>2
    <3>2. QED
      BY <1>0, <3>1
  <2>3. QED
    BY <2>1, <2>2
<1>3. FlattenSeq(Append(sentences, s)) = FlattenSeq(sentences) \o s
  BY <1>0, FlattenAppend
<1>4. FlattenSeq(sentences) \o s \in Seq(Said)
  <2>1. FlattenSeq(sentences) \in Seq(Said)
    BY <1>0, FlattenType
  <2>2. QED
    BY <2>1
<1>5. (FlattenSeq(sentences) \o s) \o << >> = FlattenSeq(sentences) \o s
  BY <1>4, ConcatEmptySeq
<1>6. QED
  BY <1>1, <1>2, <1>3, <1>5 DEF AreSentences

LEMMA ReadsClause ==
  ASSUME NEW r \in Requests, NEW sentences, NEW begun, NEW l \in 1..Len(r.lines),
         NEW n \in 1..Len(r.lines[l].ends),
         ReadUpTo(r, sentences, begun, l, n),
         NEW s, s = Append(begun, [line |-> l, clause |-> n, voice |-> r.language])
  PROVE  /\ r.lines[l].ends[n] = "sentence" =>
              ReadUpTo(r, Append(sentences, s), << >>, l, n + 1)
         /\ r.lines[l].ends[n] # "sentence" => ReadUpTo(r, sentences, s, l, n + 1)
<1> DEFINE x == [line |-> l, clause |-> n, voice |-> r.language]
           before == FlattenSeq(LinesTo(r, l - 1))
<1>1. /\ l \in Nat /\ n \in Nat \ {0} /\ n - 1 \in Nat /\ l - 1 \in 0..Len(r.lines)
      /\ r.lines[l].ends[n] \in {"clause", "sentence"}
  <2>1. Len(r.lines) \in Nat /\ Len(r.lines[l].ends) \in Nat
    BY TextShape
  <2>2. r.lines[l].ends \in Seq({"clause", "sentence"})
    BY TextShape
  <2>3. r.lines[l].ends[n] \in {"clause", "sentence"}
    BY <2>2
  <2>4. QED
    BY <2>1, <2>3
<1>2. x \in Said /\ ClausesTo(r, l, n - 1) \in Seq(Said)
  BY <1>1, ClausesToShape
<1>3. before \in Seq(Said)
  BY <1>1, LinesToShape, FlattenType
<1>4. /\ AreSentences(r, sentences) /\ sentences \in Seq(Seq(Said)) /\ begun \in Seq(Said)
      /\ FlattenSeq(sentences) \o begun = before \o ClausesTo(r, l, n - 1)
      /\ \A k \in 1..Len(begun) : begun[k].line = l /\ r.lines[l].ends[begun[k].clause] = "clause"
  BY DEF ReadUpTo, AreSentences, IsBegun, AreInOrder
<1>5. FlattenSeq(sentences) \in Seq(Said)
  BY <1>4, FlattenType
<1>6. ClausesTo(r, l, n) = Append(ClausesTo(r, l, n - 1), x)
  BY <1>1, ClausesToNext
<1>7. x.line = l /\ x.clause = n
  OBVIOUS
<1>8. s = Append(begun, x)
  OBVIOUS
<1> HIDE DEF x, before
<1>9. /\ s \in Seq(Said) /\ s # << >> /\ Len(s) = Len(begun) + 1 /\ s[Len(s)] = x
      /\ Len(begun) \in Nat
  <2>1. /\ Append(begun, x) \in Seq(Said) /\ Len(Append(begun, x)) = Len(begun) + 1
        /\ Append(begun, x)[Len(begun) + 1] = x /\ Len(begun) \in Nat
    BY <1>2, <1>4
  <2>2. Append(begun, x) # << >>
    BY <2>1
  <2>3. QED
    BY <1>8, <2>1, <2>2
<1>10. \A k \in 1..Len(begun) : s[k] = begun[k]
  BY <1>2, <1>4, <1>8
<1>11. FlattenSeq(sentences) \o s = before \o ClausesTo(r, l, n)
  <2> HIDE DEF x
  <2>4. \A a, b \in Seq(Said) : \A y \in Said : a \o Append(b, y) = Append(a \o b, y)
    BY AppendAfter
  <2>1. FlattenSeq(sentences) \o Append(begun, x) = Append(FlattenSeq(sentences) \o begun, x)
    BY <1>2, <1>4, <1>5, <2>4
  <2>2. before \o Append(ClausesTo(r, l, n - 1), x) = Append(before \o ClausesTo(r, l, n - 1), x)
    BY <1>2, <1>3, <2>4
  <2>3. QED
    BY <1>4, <1>6, <1>8, <2>1, <2>2
<1>12. \A k \in 1..(Len(s) - 1) : s[k].line = l /\ r.lines[l].ends[s[k].clause] = "clause"
  <2>1. \A k \in 1..(Len(s) - 1) : k \in 1..Len(begun)
    BY <1>9
  <2>2. QED
    BY <1>4, <1>10, <2>1
<1>13. n + 1 - 1 = n
  BY <1>1
<1>14. ASSUME r.lines[l].ends[n] = "sentence"
       PROVE  ReadUpTo(r, Append(sentences, s), << >>, l, n + 1)
  <2>1. IsSentence(r, s)
    <3>1. l \in Nat /\ n \in Nat /\ s[Len(s)].line = l /\ s[Len(s)].clause = n
      BY <1>1, <1>7, <1>9
    <3>2. QED
      BY <1>9, <1>12, <1>14, <3>1, BegunIsSentence, Zenon
  <2>2. /\ AreSentences(r, Append(sentences, s))
        /\ FlattenSeq(Append(sentences, s)) \o << >> = FlattenSeq(sentences) \o s
    BY <1>4, <1>9, <2>1, SentencesGrow
  <2>3. AreInOrder(r, Append(sentences, s), << >>, l, n)
    BY <1>11, <2>2 DEF AreInOrder, before
  <2>4. QED
    BY <1>13, <2>2, <2>3, NothingIsBegun DEF ReadUpTo
<1>15. ASSUME r.lines[l].ends[n] # "sentence"
       PROVE  ReadUpTo(r, sentences, s, l, n + 1)
  <2>1. \A k \in 1..Len(s) : s[k].line = l /\ r.lines[l].ends[s[k].clause] = "clause"
    <3>1. SUFFICES ASSUME NEW k \in 1..Len(s)
                   PROVE  s[k].line = l /\ r.lines[l].ends[s[k].clause] = "clause"
      OBVIOUS
    <3>2. CASE k = Len(s)
      BY <1>1, <1>7, <1>9, <1>15, <3>2
    <3>3. CASE k # Len(s)
      <4>1. k \in 1..(Len(s) - 1)
        BY <1>9, <3>3
      <4>2. QED
        BY <1>12, <4>1
    <3>4. QED
      BY <3>2, <3>3
  <2>2. s[Len(s)].clause = n
    BY <1>7, <1>9
  <2>3. IsBegun(r, s, l, n)
    BY <1>9, <2>1, <2>2 DEF IsBegun
  <2>4. AreInOrder(r, sentences, s, l, n)
    BY <1>11 DEF AreInOrder, before
  <2>5. QED
    BY <1>4, <1>13, <2>3, <2>4 DEF ReadUpTo
<1>16. QED
  BY <1>14, <1>15

LEMMA EndsLine ==
  ASSUME NEW r \in Requests, NEW sentences, NEW begun, NEW l \in 1..Len(r.lines),
         ReadUpTo(r, sentences, begun, l, Len(r.lines[l].ends) + 1)
  PROVE  ReadUpTo(r, IF begun = << >> THEN sentences ELSE Append(sentences, begun), << >>, l + 1, 1)
<1> DEFINE before == FlattenSeq(LinesTo(r, l - 1))
           n == Len(r.lines[l].ends)
<1>1. /\ l \in Nat \ {0} /\ n \in Nat /\ l - 1 \in 0..Len(r.lines) /\ l \in 0..Len(r.lines)
      /\ n + 1 - 1 = n /\ l + 1 - 1 = l /\ 1 - 1 = 0
  <2>1. Len(r.lines) \in Nat /\ n \in Nat
    BY TextShape
  <2> HIDE DEF n
  <2>2. QED
    BY <2>1
<1>2. /\ AreSentences(r, sentences) /\ sentences \in Seq(Seq(Said)) /\ begun \in Seq(Said)
      /\ FlattenSeq(sentences) \o begun = before \o ClausesTo(r, l, n)
      /\ \A k \in 1..Len(begun) : begun[k].line = l /\ r.lines[l].ends[begun[k].clause] = "clause"
      /\ begun # << >> => begun[Len(begun)].clause = n
  <2>1. AreSentences(r, sentences) /\ IsBegun(r, begun, l, n) /\ AreInOrder(r, sentences, begun, l, n)
    BY <1>1 DEF ReadUpTo
  <2>2. QED
    BY <2>1 DEF AreSentences, IsBegun, AreInOrder
<1>3. FlattenSeq(sentences) \o begun = FlattenSeq(LinesTo(r, l)) \o ClausesTo(r, l + 1, 0)
  <2>1. LinesTo(r, l - 1) \in Seq(Seq(Said)) /\ LinesTo(r, l) \in Seq(Seq(Said))
    BY <1>1, LinesToShape
  <2>2. ClausesOf(r, l) = ClausesTo(r, l, n) /\ ClausesOf(r, l) \in Seq(Said)
    BY ClausesOfLine
  <2>3. FlattenSeq(LinesTo(r, l)) = before \o ClausesTo(r, l, n)
    BY <2>1, <2>2, LinesToNext, FlattenAppend
  <2>4. ClausesTo(r, l + 1, 0) = << >>
    BY DEF ClausesTo
  <2>5. FlattenSeq(LinesTo(r, l)) \in Seq(Said)
    BY <2>1, FlattenType
  <2>6. QED
    BY <1>2, <2>3, <2>4, <2>5, ConcatEmptySeq
<1> HIDE DEF before, n
<1>4. ClausesTo(r, l + 1, 0) = ClausesTo(r, l + 1, 1 - 1)
  BY <1>1
<1>5. ASSUME NEW t, AreSentences(r, t), FlattenSeq(t) \o << >> = FlattenSeq(sentences) \o begun
      PROVE  ReadUpTo(r, t, << >>, l + 1, 1)
  <2>1. AreInOrder(r, t, << >>, l + 1, 1 - 1)
    BY <1>1, <1>3, <1>4, <1>5 DEF AreInOrder
  <2>2. QED
    BY <1>5, <2>1, NothingIsBegun DEF ReadUpTo
<1>6. CASE begun = << >>
  <2>1. ReadUpTo(r, sentences, << >>, l + 1, 1)
    BY <1>2, <1>5, <1>6
  <2>2. QED
    BY <1>6, <2>1, Zenon
<1>7. CASE begun # << >>
  <2>1. Len(begun) \in Nat \ {0} /\ \A k \in 1..(Len(begun) - 1) : k \in 1..Len(begun)
    BY <1>2, <1>7
  <2>2. Len(begun) \in 1..Len(begun)
    BY <2>1
  <2>3. IsSentence(r, begun)
    BY <1>1, <1>2, <1>7, <2>1, <2>2, BegunIsSentence DEF n
  <2>4. /\ AreSentences(r, Append(sentences, begun))
        /\ FlattenSeq(Append(sentences, begun)) \o << >> = FlattenSeq(sentences) \o begun
    BY <1>2, <2>3, SentencesGrow
  <2>5. ReadUpTo(r, Append(sentences, begun), << >>, l + 1, 1)
    BY <1>5, <2>4
  <2>6. QED
    BY <1>7, <2>5, Zenon
<1>8. QED
  BY <1>6, <1>7

LEMMA EspeakInvInit == EspeakInit => EspeakInv
<1> SUFFICES ASSUME EspeakInit PROVE EspeakInv
  OBVIOUS
<1> USE DEF EspeakInit, EspeakStarts
<1>1. \A r \in Requests : Len(r.lines) \in Nat
  BY TextShape
<1>2. << >> \in Seq(Said) /\ << >> \in Seq(Seq(Said)) /\ 1..Len(<< >>) = {}
  OBVIOUS
<1>3. EspeakTypeInv
  BY <1>2 DEF EspeakTypeInv, TextPlaces
<1>4. StandInv
  BY <1>1, <1>3 DEF EspeakTypeInv, StandInv, CallStands, TextPlaces
<1>5. ASSUME NEW c \in TextCaller PROVE ReadUpTo(request[c], << >>, << >>, 1, 1)
  <2>1. AreSentences(request[c], << >>)
    BY <1>2 DEF AreSentences
  <2>2. LinesTo(request[c], 1 - 1) = << >> /\ ClausesTo(request[c], 1, 1 - 1) = << >>
    BY DEF LinesTo, ClausesTo
  <2>3. AreInOrder(request[c], << >>, << >>, 1, 1 - 1)
    BY <2>2 DEF AreInOrder
  <2>4. QED
    BY <2>1, <2>3, NothingIsBegun DEF ReadUpTo
<1>6. ReadInv
  BY <1>5 DEF ReadInv
<1>7. QED
  BY <1>3, <1>4, <1>6 DEF EspeakInv

(* A call that is inside is the only one, and lets nobody else in.         *)
LEMMA InsideAlone ==
  ASSUME StandInv, NEW c \in TextCaller, NEW d \in TextCaller, c # d,
         callAt[c] \in {"entered", "selected"}
  PROVE  callAt[d] \notin {"entered", "selected"}
  BY DEF StandInv, CallStands

(* What does not touch the texts changes nothing of what was read.         *)
LEMMA TextRests ==
  ASSUME EspeakInv, UNCHANGED_text, callAt' \in [TextCaller -> TextPlaces]
  PROVE  EspeakTypeInv' /\ ReadInv'
<1> USE DEF UNCHANGED_text
<1>1. EspeakTypeInv'
  BY DEF EspeakInv, EspeakTypeInv
<1>2. ReadInv'
  BY DEF EspeakInv, ReadInv
<1>3. QED
  BY <1>1, <1>2

LEMMA EnteringStands ==
  ASSUME EspeakInv, NEW c \in TextCaller, TextEnds(c) \/ EnterEspeak(c) \/ InitEspeak(c)
  PROVE  EspeakInv'
<1> USE DEF EspeakInv, EspeakTypeInv, UNCHANGED_text, Moves
<1>1. callAt' \in [TextCaller -> TextPlaces]
  BY DEF TextEnds, EnterEspeak, InitEspeak, TextPlaces
<1>2. UNCHANGED_text
  BY DEF TextEnds, EnterEspeak, InitEspeak
<1>3. EspeakTypeInv' /\ ReadInv'
  BY <1>1, <1>2, TextRests
<1>4. ASSUME NEW d \in TextCaller PROVE CallStands(d)'
  <2>1. CallStands(d) /\ CallStands(c) /\ Len(request[d].lines) \in Nat
    BY TextShape DEF StandInv
  <2>2. CASE TextEnds(c)
    BY <1>1, <1>2, <2>1, <2>2 DEF CallStands, TextEnds, Line
  <2>3. CASE EnterEspeak(c)
    BY <1>1, <1>2, <2>1, <2>3 DEF CallStands, EnterEspeak, Line
  <2>4. CASE InitEspeak(c)
    BY <1>1, <1>2, <2>1, <2>4 DEF CallStands, InitEspeak, Line
  <2>5. QED
    BY <2>2, <2>3, <2>4
<1>5. QED
  BY <1>3, <1>4 DEF StandInv

LEMMA FailingStands ==
  ASSUME EspeakInv, NEW c \in TextCaller, callAt[c] \in {"entered", "selected"}, Fails(c)
  PROVE  EspeakInv'
<1> USE DEF EspeakInv, EspeakTypeInv, UNCHANGED_text, Moves, Fails
<1>1. callAt' \in [TextCaller -> TextPlaces]
  BY DEF TextPlaces
<1>2. EspeakTypeInv' /\ ReadInv'
  BY <1>1, TextRests
<1>3. ASSUME NEW d \in TextCaller PROVE CallStands(d)'
  <2>1. CallStands(d) /\ (d # c => callAt[d] \notin {"entered", "selected"})
    BY InsideAlone DEF StandInv
  <2>2. callAt'[d] = IF d = c THEN "failed" ELSE callAt[d]
    OBVIOUS
  <2>3. QED
    BY <1>1, <2>1, <2>2 DEF CallStands
<1>4. QED
  BY <1>2, <1>3 DEF StandInv

LEMMA SelectingStands ==
  ASSUME EspeakInv, NEW c \in TextCaller, SelectVoice(c), request[c].language # UnknownLanguage
  PROVE  EspeakInv'
<1> USE DEF EspeakInv, EspeakTypeInv, UNCHANGED_text, Moves, SelectVoice
<1>1. callAt' \in [TextCaller -> TextPlaces]
  BY DEF TextPlaces
<1>2. EspeakTypeInv' /\ ReadInv'
  BY <1>1, TextRests
<1>3. ASSUME NEW d \in TextCaller PROVE CallStands(d)'
  <2>1. CallStands(d) /\ (d # c => callAt[d] \notin {"entered", "selected"})
    BY InsideAlone DEF StandInv
  <2>2. callAt'[d] = IF d = c THEN "selected" ELSE callAt[d]
    OBVIOUS
  <2>3. CASE d = c
    <3>1. Len(Line(d).ends) \in Nat
      BY <2>1, <2>3, TextShape DEF CallStands, Line
    <3>2. QED
      BY <1>1, <2>1, <2>2, <2>3, <3>1 DEF CallStands, Line
  <2>4. CASE d # c
    BY <1>1, <2>1, <2>2, <2>4 DEF CallStands
  <2>5. QED
    BY <2>3, <2>4
<1>4. QED
  BY <1>2, <1>3 DEF StandInv

LEMMA ReadingStands ==
  ASSUME EspeakInv, NEW c \in TextCaller, ReadClause(c)
  PROVE  EspeakInv'
<1> USE DEF EspeakInv, EspeakTypeInv
<1> DEFINE l == textLine[c]
           n == clause[c]
           said == Append(pending[c], [line |-> l, clause |-> n, voice |-> request[c].language])
           closes == Line(c).ends[n] = "sentence"
<1>1. /\ callAt[c] = "selected" /\ n <= Len(Line(c).ends)
      /\ UNCHANGED <<library, inside, selectedVoice, request, callAt, textLine>>
      /\ clause' = [clause EXCEPT ![c] = n + 1]
  BY DEF ReadClause
<1>2. CallStands(c)
  BY DEF StandInv
<1>3. /\ request[c] \in Requests /\ l \in 1..Len(request[c].lines) /\ n \in Nat \ {0}
      /\ selectedVoice = request[c].language
  BY <1>1, <1>2 DEF CallStands
<1>4. Len(Line(c).ends) \in Nat
  BY <1>3, TextShape DEF Line
<1>5. n \in 1..Len(Line(c).ends) /\ n + 1 \in Nat \ {0}
  BY <1>1, <1>3, <1>4
<1>6. /\ closes => /\ sentencesOut' = [sentencesOut EXCEPT ![c] = Append(sentencesOut[c], said)]
                   /\ pending' = [pending EXCEPT ![c] = << >>]
      /\ ~closes => pending' = [pending EXCEPT ![c] = said] /\ sentencesOut' = sentencesOut
  BY <1>3 DEF ReadClause
<1>7. ReadUpTo(request[c], sentencesOut[c], pending[c], l, n)
  BY DEF ReadInv
<1>8. /\ closes => ReadUpTo(request[c], Append(sentencesOut[c], said), << >>, l, n + 1)
      /\ ~closes => ReadUpTo(request[c], sentencesOut[c], said, l, n + 1)
  BY <1>3, <1>5, <1>7, ReadsClause DEF Line
<1> HIDE DEF l, n, said, closes
<1>9. ReadUpTo(request[c], sentencesOut'[c], pending'[c], l, n + 1)
  BY <1>6, <1>8
<1>10. \A d \in TextCaller : d # c => sentencesOut'[d] = sentencesOut[d] /\ pending'[d] = pending[d]
  BY <1>6
<1>11. ReadInv'
  <2>1. ASSUME NEW d \in TextCaller
        PROVE  ReadUpTo(request'[d], sentencesOut'[d], pending'[d], textLine'[d], clause'[d])
    <3>1. CASE d = c
      BY <1>1, <1>9, <3>1 DEF l
    <3>2. CASE d # c
      BY <1>1, <1>10, <3>2 DEF ReadInv
    <3>3. QED
      BY <3>1, <3>2
  <2>2. QED
    BY <2>1 DEF ReadInv
<1>12. EspeakTypeInv'
  <2>1. /\ closes => Append(sentencesOut[c], said) \in Seq(Seq(Said))
        /\ ~closes => said \in Seq(Said)
    BY <1>8 DEF ReadUpTo, AreSentences, IsBegun
  <2>2. << >> \in Seq(Said)
    OBVIOUS
  <2>3. pending' \in [TextCaller -> Seq(Said)] /\ sentencesOut' \in [TextCaller -> Seq(Seq(Said))]
    BY <1>6, <2>1, <2>2
  <2>4. clause' \in [TextCaller -> Nat \ {0}]
    BY <1>1, <1>5
  <2>5. QED
    BY <1>1, <2>3, <2>4
<1>13. ASSUME NEW d \in TextCaller PROVE CallStands(d)'
  <2>1. CallStands(d) /\ (d # c => callAt[d] \notin {"entered", "selected"})
    BY <1>1, InsideAlone DEF StandInv
  <2>2. CASE d = c
    <3>1. clause'[d] = n + 1 /\ n + 1 <= Len(Line(c).ends) + 1 /\ n + 1 \in Nat \ {0}
      BY <1>1, <1>4, <1>5, <2>2
    <3>2. QED
      BY <1>1, <2>1, <2>2, <3>1 DEF CallStands, Line
  <2>3. CASE d # c
    BY <1>1, <1>10, <2>1, <2>3 DEF CallStands
  <2>4. QED
    BY <2>2, <2>3
<1>14. QED
  BY <1>11, <1>12, <1>13 DEF StandInv

LEMMA LeavingStands ==
  ASSUME EspeakInv, NEW c \in TextCaller, LeaveEspeak(c)
  PROVE  EspeakInv'
<1> USE DEF EspeakInv, EspeakTypeInv
<1> DEFINE l == textLine[c]
           begun == pending[c]
           sentences == IF begun = << >> THEN sentencesOut[c] ELSE Append(sentencesOut[c], begun)
<1>1. /\ callAt[c] = "selected" /\ clause[c] > Len(Line(c).ends)
      /\ inside' = {} /\ UNCHANGED <<library, selectedVoice, request>>
      /\ callAt' = [callAt EXCEPT ![c] = "outside"]
      /\ pending' = [pending EXCEPT ![c] = << >>]
      /\ textLine' = [textLine EXCEPT ![c] = l + 1]
      /\ clause' = [clause EXCEPT ![c] = 1]
  BY DEF LeaveEspeak, Moves
<1>2. CallStands(c)
  BY DEF StandInv
<1>3. request[c] \in Requests /\ l \in 1..Len(request[c].lines) /\ Len(request[c].lines) \in Nat
  BY <1>1, <1>2, TextShape DEF CallStands
<1>4. Len(Line(c).ends) \in Nat
  BY <1>3, TextShape DEF Line
<1>5. clause[c] = Len(Line(c).ends) + 1
  BY <1>1, <1>2, <1>4 DEF CallStands
<1>6. ReadUpTo(request[c], sentencesOut[c], begun, l, clause[c])
  BY DEF ReadInv
<1>7. ReadUpTo(request[c], sentences, << >>, l + 1, 1)
  BY <1>3, <1>5, <1>6, EndsLine DEF Line
<1>8. sentencesOut' = [sentencesOut EXCEPT ![c] = sentences]
  BY DEF LeaveEspeak
<1> HIDE DEF l, begun, sentences
<1>9. ReadInv'
  <2>1. ASSUME NEW d \in TextCaller
        PROVE  ReadUpTo(request'[d], sentencesOut'[d], pending'[d], textLine'[d], clause'[d])
    <3>1. CASE d = c
      BY <1>1, <1>7, <1>8, <3>1
    <3>2. CASE d # c
      BY <1>1, <1>8, <3>2 DEF ReadInv
    <3>3. QED
      BY <3>1, <3>2
  <2>2. QED
    BY <2>1 DEF ReadInv
<1>10. EspeakTypeInv'
  <2>1. sentences \in Seq(Seq(Said))
    BY <1>7 DEF ReadUpTo, AreSentences
  <2>2. << >> \in Seq(Said) /\ l + 1 \in Nat \ {0}
    BY <1>3
  <2>3. pending' \in [TextCaller -> Seq(Said)] /\ sentencesOut' \in [TextCaller -> Seq(Seq(Said))]
    BY <1>1, <1>8, <2>1, <2>2
  <2>4. /\ clause' \in [TextCaller -> Nat \ {0}] /\ textLine' \in [TextCaller -> Nat \ {0}]
        /\ callAt' \in [TextCaller -> TextPlaces]
    BY <1>1, <2>2 DEF TextPlaces
  <2>5. QED
    BY <1>1, <2>3, <2>4
<1>11. ASSUME NEW d \in TextCaller PROVE CallStands(d)'
  <2>1. CallStands(d) /\ (d # c => callAt[d] \notin {"entered", "selected"})
    BY <1>1, InsideAlone DEF StandInv
  <2>2. CASE d = c
    <3>1. textLine'[d] = l + 1 /\ l + 1 \in 1..(Len(request[d].lines) + 1)
      BY <1>1, <1>3, <2>2
    <3>2. callAt'[d] = "outside" /\ clause'[d] = 1 /\ pending'[d] = << >> /\ request'[d] \in Requests
      BY <1>1, <1>3, <2>2
    <3>3. QED
      BY <1>1, <3>1, <3>2 DEF CallStands, TextPlaces
  <2>3. CASE d # c
    BY <1>1, <2>1, <2>3 DEF CallStands
  <2>4. QED
    BY <2>2, <2>3
<1>12. QED
  BY <1>9, <1>10, <1>11 DEF StandInv

LEMMA EspeakInvStep == EspeakInv /\ [EspeakNext]_espeakVars => EspeakInv'
<1> SUFFICES ASSUME EspeakInv, [EspeakNext]_espeakVars PROVE EspeakInv'
  OBVIOUS
<1>1. ASSUME NEW c \in TextCaller,
             \/ TextEnds(c) \/ EnterEspeak(c) \/ InitEspeak(c) \/ FindBroken(c) \/ SelectVoice(c)
             \/ RejectNul(c) \/ ReadClause(c) \/ LeaveEspeak(c)
      PROVE  EspeakInv'
  <2>1. CASE TextEnds(c) \/ EnterEspeak(c) \/ InitEspeak(c)
    BY <2>1, EnteringStands
  <2>2. CASE FindBroken(c) \/ RejectNul(c)
    BY <2>2, FailingStands DEF FindBroken, RejectNul
  <2>3. CASE SelectVoice(c)
    <3>1. CASE request[c].language = UnknownLanguage
      BY <2>3, <3>1, FailingStands DEF SelectVoice
    <3>2. CASE request[c].language # UnknownLanguage
      BY <2>3, <3>2, SelectingStands
    <3>3. QED
      BY <3>1, <3>2
  <2>4. CASE ReadClause(c)
    BY <2>4, ReadingStands
  <2>5. CASE LeaveEspeak(c)
    BY <2>5, LeavingStands
  <2>6. QED
    BY <1>1, <2>1, <2>2, <2>3, <2>4, <2>5
<1>2. CASE UNCHANGED espeakVars
  BY <1>2 DEF espeakVars, EspeakInv, EspeakTypeInv, StandInv, CallStands, Line, ReadInv
<1>3. QED
  BY <1>1, <1>2 DEF EspeakNext

(* However the lines of texts in several languages interleave, every call  *)
(* that succeeds has its own clauses, each once, in order, and in the voice*)
(* it asked for: for any calls, languages and texts (phonemize_line,       *)
(* read_clauses under ESPEAK_LOCK).                                        *)
THEOREM TextsKeepVoices == EspeakSpec => []TextsKeepTheirVoices
<1>1. EspeakInv => TextsKeepTheirVoices
  <2> SUFFICES ASSUME EspeakInv PROVE TextsKeepTheirVoices
    OBVIOUS
  <2>1. ASSUME NEW c \in TextCaller, callAt[c] = "done"
        PROVE  /\ FlattenSeq(sentencesOut[c]) = AllClauses(request[c])
               /\ AreSentences(request[c], sentencesOut[c])
    <3>1. /\ request[c] \in Requests /\ pending[c] = << >> /\ clause[c] = 1
          /\ textLine[c] = Len(request[c].lines) + 1
      BY <2>1 DEF EspeakInv, StandInv, CallStands
    <3> DEFINE r == request[c]
    <3>2. Len(r.lines) \in Nat /\ DOMAIN r.lines = 1..Len(r.lines)
      BY <3>1, TextShape
    <3>3. ReadUpTo(r, sentencesOut[c], << >>, Len(r.lines) + 1, 1)
      BY <3>1 DEF EspeakInv, ReadInv
    <3> HIDE DEF r
    <3>4. Len(r.lines) + 1 - 1 = Len(r.lines) /\ 1 - 1 = 0
      BY <3>2
    <3>5. FlattenSeq(sentencesOut[c]) \o << >> =
            FlattenSeq(LinesTo(r, Len(r.lines))) \o ClausesTo(r, Len(r.lines) + 1, 0)
      BY <3>3, <3>4 DEF ReadUpTo, AreInOrder
    <3>6. ClausesTo(r, Len(r.lines) + 1, 0) = << >>
      BY DEF ClausesTo
    <3>7. LinesTo(r, Len(r.lines)) = [l \in DOMAIN r.lines |->
            [n \in DOMAIN r.lines[l].ends |-> [line |-> l, clause |-> n, voice |-> r.language]]]
      BY <3>2 DEF LinesTo, ClausesOf
    <3>8. FlattenSeq(LinesTo(r, Len(r.lines))) = AllClauses(r)
      BY <3>7, Zenon DEF AllClauses
    <3>9. FlattenSeq(sentencesOut[c]) \in Seq(Said) /\ FlattenSeq(LinesTo(r, Len(r.lines))) \in Seq(Said)
      <4>1. sentencesOut[c] \in Seq(Seq(Said))
        BY <3>3 DEF ReadUpTo, AreSentences
      <4>2. r \in Requests /\ Len(r.lines) \in 0..Len(r.lines)
        BY <3>1, <3>2 DEF r
      <4>3. LinesTo(r, Len(r.lines)) \in Seq(Seq(Said))
        BY <4>2, LinesToShape
      <4>4. QED
        BY <4>1, <4>3, FlattenType
    <3>10. FlattenSeq(sentencesOut[c]) = FlattenSeq(LinesTo(r, Len(r.lines)))
      BY <3>5, <3>6, <3>9, ConcatEmptySeq
    <3>11. QED
      BY <3>3, <3>8, <3>10 DEF ReadUpTo, r
  <2>2. ASSUME NEW c \in TextCaller, callAt[c] = "done"
        PROVE  /\ DOMAIN sentencesOut[c] = 1..Len(sentencesOut[c])
               /\ \A s \in 1..Len(sentencesOut[c]) : IsSentence(request[c], sentencesOut[c][s])
    BY <2>1, <2>2 DEF AreSentences
  <2>3. QED
    BY <2>1, <2>2, Zenon DEF TextsKeepTheirVoices, IsSentence
<1>2. QED
  BY <1>1, EspeakInvInit, EspeakInvStep, PTL DEF EspeakSpec
-----------------------------------------------------------------------------
(* A Kokoro sentence.  The pieces split_tokens makes are, one after the    *)
(* other, all its tokens; each is spoken once, at its turn.                *)

(* n tokens, from one on.                                                  *)
TokensFrom(from, n) == [i \in 1..n |-> from + i - 1]

(* A piece that does not end a sentence ends with the space, or is full    *)
(* and has none.                                                           *)
WellCut(ts, piece) ==
  \/ ts[Last(piece)]
  \/ Len(piece) = MAX_TOKEN_LEN /\ \A i \in Range(piece) : ~ts[i]
PiecesFit(ts, ps) ==
  \A p \in 1..Len(ps) :
    Len(ps[p]) <= MAX_TOKEN_LEN /\ (p < Len(ps) => WellCut(ts, ps[p]))

LEMMA TokensFromShape ==
  ASSUME NEW from \in Nat \ {0}, NEW n \in Nat
  PROVE  /\ TokensFrom(from, n) \in Seq(Nat) /\ Len(TokensFrom(from, n)) = n
         /\ DOMAIN TokensFrom(from, n) = 1..n
         /\ \A i \in 1..n : TokensFrom(from, n)[i] = from + i - 1
<1>1. \A i \in 1..n : from + i - 1 \in Nat
  OBVIOUS
<1>2. QED
  BY <1>1 DEF TokensFrom

LEMMA TokensJoin ==
  ASSUME NEW from \in Nat \ {0}, NEW m \in Nat, NEW n \in Nat
  PROVE  TokensFrom(from, m) \o TokensFrom(from + m, n) = TokensFrom(from, m + n)
<1> DEFINE a == TokensFrom(from, m)
           b == TokensFrom(from + m, n)
           c == TokensFrom(from, m + n)
<1>1. from + m \in Nat \ {0} /\ m + n \in Nat
  OBVIOUS
<1>2. /\ a \in Seq(Nat) /\ Len(a) = m /\ \A i \in 1..m : a[i] = from + i - 1
      /\ b \in Seq(Nat) /\ Len(b) = n /\ \A i \in 1..n : b[i] = from + m + i - 1
      /\ c \in Seq(Nat) /\ Len(c) = m + n /\ \A i \in 1..(m + n) : c[i] = from + i - 1
  BY <1>1, TokensFromShape
<1> HIDE DEF a, b, c
<1>3. a \in Seq(Nat) /\ b \in Seq(Nat) /\ c \in Seq(Nat) /\ Len(c) = Len(a) + Len(b)
  BY <1>2
<1>4. \A i \in 1..Len(a) : c[i] = a[i]
  <2>1. \A i \in 1..m : i \in 1..(m + n)
    OBVIOUS
  <2>2. QED
    BY <1>2, <2>1
<1>5. \A i \in 1..Len(b) : c[Len(a) + i] = b[i]
  <2>1. \A i \in 1..n : m + i \in 1..(m + n) /\ from + (m + i) - 1 = from + m + i - 1
    OBVIOUS
  <2>2. QED
    BY <1>2, <2>1
<1>6. c = a \o b
  BY <1>3, <1>4, <1>5, ConcatIs
<1>7. QED
  BY <1>6 DEF a, b, c

(* Where a window is cut leaves it no longer than it is, and well cut.     *)
LEMMA CutIsGood ==
  ASSUME NEW ts \in Seq(BOOLEAN), NEW from \in 1..Len(ts), from + MAX_TOKEN_LEN - 1 <= Len(ts)
  PROVE  /\ Cut(ts, from) \in 1..MAX_TOKEN_LEN
         /\ WellCut(ts, TokensFrom(from, Cut(ts, from)))
<1> DEFINE spaces == {k \in 1..MAX_TOKEN_LEN : ts[from + k - 1]}
           k0 == Cut(ts, from)
<1>1. MAX_TOKEN_LEN \in Nat \ {0} /\ Len(ts) \in Nat /\ from \in Nat \ {0}
  BY KokoroAssumption
<1>2. CASE spaces = {}
  <2>1. k0 = MAX_TOKEN_LEN
    BY <1>2 DEF Cut
  <2>2. \A k \in 1..MAX_TOKEN_LEN : ~ts[from + k - 1]
    BY <1>2
  <2>3. /\ Len(TokensFrom(from, MAX_TOKEN_LEN)) = MAX_TOKEN_LEN
        /\ DOMAIN TokensFrom(from, MAX_TOKEN_LEN) = 1..MAX_TOKEN_LEN
        /\ \A k \in 1..MAX_TOKEN_LEN : TokensFrom(from, MAX_TOKEN_LEN)[k] = from + k - 1
    BY <1>1, TokensFromShape
  <2>4. \A i \in Range(TokensFrom(from, MAX_TOKEN_LEN)) : ~ts[i]
    <3>1. SUFFICES ASSUME NEW k \in 1..MAX_TOKEN_LEN
                   PROVE  ~ts[TokensFrom(from, MAX_TOKEN_LEN)[k]]
      BY <2>3 DEF Range
    <3>2. TokensFrom(from, MAX_TOKEN_LEN)[k] = from + k - 1
      BY <2>3
    <3>3. QED
      BY <2>2, <3>2
  <2>5. QED
    BY <1>1, <2>1, <2>3, <2>4 DEF WellCut
<1>3. CASE spaces # {}
  <2>1. k0 = Max(spaces)
    BY <1>3 DEF Cut
  <2>2. spaces \subseteq 0..MAX_TOKEN_LEN
    BY <1>1
  <2>3. k0 \in spaces
    <3> HIDE DEF spaces, k0
    <3>1. QED
      BY <1>1, <1>3, <2>1, <2>2, MaxIsGreatest
  <2>4. k0 \in 1..MAX_TOKEN_LEN /\ ts[from + k0 - 1]
    BY <2>3
  <2> HIDE DEF k0
  <2>5. Len(TokensFrom(from, k0)) = k0 /\ TokensFrom(from, k0)[k0] = from + k0 - 1
    <3>1. k0 \in Nat /\ k0 \in 1..k0
      BY <1>1, <2>4
    <3>2. QED
      BY <1>1, <3>1, TokensFromShape
  <2>6. Last(TokensFrom(from, k0)) = from + k0 - 1
    BY <2>5 DEF Last
  <2>7. QED
    BY <2>4, <2>6 DEF WellCut, k0
<1>4. QED
  BY <1>2, <1>3

(* A well cut piece before others, and the others without the first.       *)
LEMMA PieceFirst ==
  ASSUME NEW ts, NEW x \in Seq(Nat), NEW ps \in Seq(Seq(Nat)),
         Len(x) <= MAX_TOKEN_LEN, WellCut(ts, x), PiecesFit(ts, ps)
  PROVE  PiecesFit(ts, <<x>> \o ps)
<1> DEFINE q == <<x>> \o ps
<1>1. /\ Len(q) = Len(ps) + 1 /\ q[1] = x /\ Len(ps) \in Nat
      /\ \A p \in 1..Len(ps) : q[p + 1] = ps[p]
  OBVIOUS
<1> HIDE DEF q
<1>2. ASSUME NEW p \in 1..Len(q)
      PROVE  Len(q[p]) <= MAX_TOKEN_LEN /\ (p < Len(q) => WellCut(ts, q[p]))
  <2>1. CASE p = 1
    BY <1>1, <2>1
  <2>2. CASE p # 1
    <3>1. p - 1 \in 1..Len(ps) /\ (p - 1) + 1 = p /\ (p < Len(q) => p - 1 < Len(ps))
      BY <1>1, <2>2
    <3>2. q[p] = ps[p - 1]
      BY <1>1, <3>1
    <3>3. Len(ps[p - 1]) <= MAX_TOKEN_LEN /\ (p - 1 < Len(ps) => WellCut(ts, ps[p - 1]))
      BY <3>1 DEF PiecesFit
    <3>4. QED
      BY <3>1, <3>2, <3>3
  <2>3. QED
    BY <2>1, <2>2
<1>3. QED
  BY <1>2 DEF PiecesFit, q

LEMMA PiecesLeft ==
  ASSUME NEW ts, NEW ps \in Seq(Seq(Nat)), ps # << >>, PiecesFit(ts, ps)
  PROVE  PiecesFit(ts, Tail(ps))
<1> DEFINE q == Tail(ps)
<1>1. /\ Len(q) = Len(ps) - 1 /\ Len(ps) \in Nat \ {0}
      /\ \A p \in 1..Len(q) : q[p] = ps[p + 1]
  OBVIOUS
<1> HIDE DEF q
<1>2. ASSUME NEW p \in 1..Len(q)
      PROVE  Len(q[p]) <= MAX_TOKEN_LEN /\ (p < Len(q) => WellCut(ts, q[p]))
  <2>1. p + 1 \in 1..Len(ps) /\ (p < Len(q) => p + 1 < Len(ps))
    BY <1>1
  <2>2. Len(ps[p + 1]) <= MAX_TOKEN_LEN /\ (p + 1 < Len(ps) => WellCut(ts, ps[p + 1]))
    BY <2>1 DEF PiecesFit
  <2>3. QED
    BY <1>1, <2>1, <2>2
<1>3. QED
  BY <1>2 DEF PiecesFit, q

(* f has the pieces of the tokens from each of first .. on.                *)
IsSplit(ts, f, first) ==
  f = [from \in first..(Len(ts) + 1) |->
        IF Len(ts) - from + 1 <= MAX_TOKEN_LEN THEN <<TokensFrom(from, Len(ts) - from + 1)>>
        ELSE <<TokensFrom(from, Cut(ts, from))>> \o f[from + Cut(ts, from)]]

LEMMA WindowAdvances ==
  ASSUME NEW ts \in Seq(BOOLEAN), NEW from \in 1..(Len(ts) + 1),
         ~(Len(ts) - from + 1 <= MAX_TOKEN_LEN)
  PROVE  /\ from + Cut(ts, from) \in (from + 1)..(Len(ts) + 1)
         /\ Cut(ts, from) \in 1..MAX_TOKEN_LEN
         /\ WellCut(ts, TokensFrom(from, Cut(ts, from)))
<1>1. MAX_TOKEN_LEN \in Nat \ {0} /\ Len(ts) \in Nat /\ from \in Nat \ {0}
  BY KokoroAssumption
<1>2. from \in 1..Len(ts) /\ from + MAX_TOKEN_LEN - 1 <= Len(ts)
  BY <1>1
<1>3. Cut(ts, from) \in 1..MAX_TOKEN_LEN /\ WellCut(ts, TokensFrom(from, Cut(ts, from)))
  BY <1>2, CutIsGood
<1>4. QED
  BY <1>1, <1>2, <1>3

LEMMA SplitStep ==
  ASSUME NEW ts \in Seq(BOOLEAN), NEW first \in 1..(Len(ts) + 1), NEW f,
         IsSplit(ts, f, first + 1)
  PROVE  \E g : IsSplit(ts, g, first)
<1> DEFINE Whole(from) == <<TokensFrom(from, Len(ts) - from + 1)>>
           Before(from) == <<TokensFrom(from, Cut(ts, from))>>
           Short(from) == Len(ts) - from + 1 <= MAX_TOKEN_LEN
           end == Len(ts) + 1
           g == [from \in first..end |->
                  IF Short(from) THEN Whole(from) ELSE Before(from) \o f[from + Cut(ts, from)]]
<1>1. Len(ts) \in Nat /\ first \in Nat \ {0} /\ end \in Nat /\ first <= end
  OBVIOUS
<1>2. \A from \in first..end : ~Short(from) => from + Cut(ts, from) \in (first + 1)..end
  <2>1. SUFFICES ASSUME NEW from \in first..end, ~Short(from)
                 PROVE  from + Cut(ts, from) \in (first + 1)..end
    OBVIOUS
  <2>2. from \in 1..(Len(ts) + 1)
    BY <1>1
  <2>3. from + Cut(ts, from) \in (from + 1)..end
    BY <2>1, <2>2, WindowAdvances
  <2> HIDE DEF end
  <2>4. QED
    BY <1>1, <2>3
<1>3. f = [from \in (first + 1)..end |->
            IF Short(from) THEN Whole(from) ELSE Before(from) \o f[from + Cut(ts, from)]]
  BY DEF IsSplit
<1> HIDE DEF Whole, Before, Short, end
<1>4. \A from \in (first + 1)..end :
        f[from] = IF Short(from) THEN Whole(from) ELSE Before(from) \o f[from + Cut(ts, from)]
  BY <1>3
<1>5. \A from \in (first + 1)..end : g[from] = f[from]
  <2>1. \A from \in (first + 1)..end : from \in first..end
    BY <1>1
  <2>2. QED
    BY <1>4, <2>1
<1>6. \A from \in first..end :
        g[from] = IF Short(from) THEN Whole(from) ELSE Before(from) \o g[from + Cut(ts, from)]
  BY <1>2, <1>5
<1>7. g = [from \in first..end |-> g[from]]
  OBVIOUS
<1>8. g = [from \in first..end |->
            IF Short(from) THEN Whole(from) ELSE Before(from) \o g[from + Cut(ts, from)]]
  BY <1>6, <1>7, Zenon
<1> HIDE DEF g
<1>9. IsSplit(ts, g, first)
  BY <1>8 DEF IsSplit, Whole, Before, Short, end
<1>10. QED
  BY <1>9

LEMMA SplitExists ==
  ASSUME NEW ts \in Seq(BOOLEAN) PROVE \E f : IsSplit(ts, f, 1)
<1> DEFINE end == Len(ts) + 1
           T == {k \in Nat : k <= end => \E f : IsSplit(ts, f, end + 1 - k)}
<1>1. end \in Nat /\ Len(ts) \in Nat
  OBVIOUS
<1>2. 0 \in T
  <2>1. IsSplit(ts, << >>, end + 1)
    BY <1>1 DEF IsSplit
  <2>2. end + 1 - 0 = end + 1
    BY <1>1
  <2>3. QED
    BY <2>1, <2>2
<1>3. \A k \in Nat : k \in T => k + 1 \in T
  <2>1. SUFFICES ASSUME NEW k \in Nat, k \in T, k + 1 <= end
                 PROVE  \E f : IsSplit(ts, f, end + 1 - (k + 1))
    BY <1>1
  <2>2. k <= end
    BY <1>1, <2>1
  <2>3. PICK f : IsSplit(ts, f, end + 1 - k)
    BY <2>1, <2>2
  <2>4. end + 1 - (k + 1) \in 1..(Len(ts) + 1) /\ end + 1 - k = (end + 1 - (k + 1)) + 1
    BY <1>1, <2>1
  <2>5. IsSplit(ts, f, (end + 1 - (k + 1)) + 1)
    BY <2>3, <2>4
  <2>6. QED
    BY <2>4, <2>5, SplitStep
<1>4. end \in T
  <2> HIDE DEF T
  <2>1. QED
    BY <1>1, <1>2, <1>3, NatSet
<1>5. \E f : IsSplit(ts, f, end + 1 - end)
  BY <1>1, <1>4
<1>6. end + 1 - end = 1
  BY <1>1
<1>7. QED
  BY <1>5, <1>6

(* All tokens from one on, in pieces that fit the model.                   *)
IsGoodSplit(ts, ps, from) ==
  /\ ps \in Seq(Seq(Nat))
  /\ FlattenSeq(ps) = TokensFrom(from, Len(ts) - from + 1)
  /\ PiecesFit(ts, ps)

LEMMA SplitOfShort ==
  ASSUME NEW ts \in Seq(BOOLEAN), NEW from \in 1..(Len(ts) + 1),
         Len(ts) - from + 1 <= MAX_TOKEN_LEN
  PROVE  IsGoodSplit(ts, <<TokensFrom(from, Len(ts) - from + 1)>>, from)
<1> DEFINE x == TokensFrom(from, Len(ts) - from + 1)
<1>1. Len(ts) - from + 1 \in Nat /\ from \in Nat \ {0}
  OBVIOUS
<1>2. x \in Seq(Nat) /\ Len(x) <= MAX_TOKEN_LEN
  BY <1>1, TokensFromShape
<1> HIDE DEF x
<1>3. << >> \in Seq(Seq(Nat)) /\ <<x>> \o << >> = <<x>> /\ x \o << >> = x
  BY <1>2
<1>4. FlattenSeq(<<x>>) = x
  <2>1. FlattenSeq(<<x>> \o << >>) = x \o FlattenSeq(<< >>)
    BY <1>2, <1>3, FlattenFirst
  <2>2. QED
    BY <1>3, <2>1, FlattenEmpty
<1>5. <<x>> \in Seq(Seq(Nat)) /\ Len(<<x>>) = 1 /\ <<x>>[1] = x
  BY <1>2
<1>6. PiecesFit(ts, <<x>>)
  <2>1. \A p \in 1..Len(<<x>>) : p = 1
    BY <1>5
  <2>2. QED
    BY <1>2, <1>5, <2>1 DEF PiecesFit
<1>7. QED
  BY <1>4, <1>5, <1>6 DEF IsGoodSplit, x

LEMMA SplitOfLong ==
  ASSUME NEW ts \in Seq(BOOLEAN), NEW from \in 1..(Len(ts) + 1), NEW ps,
         ~(Len(ts) - from + 1 <= MAX_TOKEN_LEN),
         IsGoodSplit(ts, ps, from + Cut(ts, from))
  PROVE  IsGoodSplit(ts, <<TokensFrom(from, Cut(ts, from))>> \o ps, from)
<1> DEFINE n == Cut(ts, from)
           x == TokensFrom(from, n)
<1>1. /\ from + n \in (from + 1)..(Len(ts) + 1) /\ n \in 1..MAX_TOKEN_LEN
      /\ WellCut(ts, x)
  BY WindowAdvances
<1>2. /\ ps \in Seq(Seq(Nat)) /\ PiecesFit(ts, ps)
      /\ FlattenSeq(ps) = TokensFrom(from + n, Len(ts) - (from + n) + 1)
  BY DEF IsGoodSplit
<1> HIDE DEF n
<1>3. /\ Len(ts) \in Nat /\ from \in Nat \ {0} /\ MAX_TOKEN_LEN \in Nat /\ n \in Nat
      /\ Len(ts) - (from + n) + 1 \in Nat
      /\ n + (Len(ts) - (from + n) + 1) = Len(ts) - from + 1
  <2>1. Len(ts) \in Nat /\ from \in Nat \ {0} /\ MAX_TOKEN_LEN \in Nat /\ n \in Nat
    BY <1>1, KokoroAssumption
  <2>2. from + n <= Len(ts) + 1
    BY <1>1, <2>1
  <2>3. QED
    BY <2>1, <2>2
<1>4. x \in Seq(Nat) /\ Len(x) = n /\ n <= MAX_TOKEN_LEN
  BY <1>1, <1>3, TokensFromShape
<1>5. TokensFrom(from, n) \o TokensFrom(from + n, Len(ts) - (from + n) + 1)
        = TokensFrom(from, n + (Len(ts) - (from + n) + 1))
  BY <1>3, TokensJoin
<1>6. x \o FlattenSeq(ps) = TokensFrom(from, Len(ts) - from + 1)
  BY <1>2, <1>3, <1>5
<1> HIDE DEF x
<1>7. FlattenSeq(<<x>> \o ps) = x \o FlattenSeq(ps)
  BY <1>2, <1>4, FlattenFirst
<1>8. <<x>> \o ps \in Seq(Seq(Nat))
  <2>1. <<x>> \in Seq(Seq(Nat))
    BY <1>4
  <2>2. QED
    BY <1>2, <2>1
<1>9. PiecesFit(ts, <<x>> \o ps)
  BY <1>1, <1>2, <1>4, PieceFirst
<1>10. QED
  BY <1>6, <1>7, <1>8, <1>9 DEF IsGoodSplit, x, n

LEMMA SplitTokensIsGood ==
  ASSUME NEW ts \in Seq(BOOLEAN) PROVE IsGoodSplit(ts, SplitTokens(ts), 1)
<1> DEFINE f == CHOOSE g : IsSplit(ts, g, 1)
           end == Len(ts) + 1
<1>1. IsSplit(ts, f, 1)
  BY SplitExists
<1>2. SplitTokens(ts) = f[1]
  BY DEF SplitTokens, IsSplit, TokensFrom
<1> HIDE DEF f
<1>3. \A from \in 1..end :
        f[from] = IF Len(ts) - from + 1 <= MAX_TOKEN_LEN
                  THEN <<TokensFrom(from, Len(ts) - from + 1)>>
                  ELSE <<TokensFrom(from, Cut(ts, from))>> \o f[from + Cut(ts, from)]
  BY <1>1 DEF IsSplit
<1>4. end \in Nat /\ Len(ts) \in Nat
  OBVIOUS
<1> DEFINE T == {k \in Nat : k <= Len(ts) => IsGoodSplit(ts, f[end - k], end - k)}
<1>5. \A k \in Nat : (\A m \in 0..(k - 1) : m \in T) => k \in T
  <2>1. SUFFICES ASSUME NEW k \in Nat, \A m \in 0..(k - 1) : m \in T, k <= Len(ts)
                 PROVE  IsGoodSplit(ts, f[end - k], end - k)
    OBVIOUS
  <2> DEFINE from == end - k
  <2>2. from \in 1..(Len(ts) + 1)
    BY <1>4, <2>1
  <2>3. CASE Len(ts) - from + 1 <= MAX_TOKEN_LEN
    BY <1>3, <2>2, <2>3, SplitOfShort
  <2>4. CASE ~(Len(ts) - from + 1 <= MAX_TOKEN_LEN)
    <3> DEFINE next == from + Cut(ts, from)
    <3>1. next \in (from + 1)..(Len(ts) + 1)
      BY <2>2, <2>4, WindowAdvances
    <3>2. end - next \in 0..(k - 1) /\ end - (end - next) = next /\ end - next <= Len(ts)
      <4> HIDE DEF next
      <4>1. QED
        BY <1>4, <2>1, <2>2, <3>1
    <3>3. end - next \in T
      BY <2>1, <3>2
    <3>4. IsGoodSplit(ts, f[next], next)
      <4> HIDE DEF next
      <4>1. QED
        BY <3>2, <3>3
    <3>5. f[from] = <<TokensFrom(from, Cut(ts, from))>> \o f[next]
      BY <1>3, <2>2, <2>4
    <3>6. QED
      BY <2>2, <2>4, <3>4, <3>5, SplitOfLong
  <2>5. QED
    BY <2>3, <2>4
<1>6. Len(ts) \in T
  <2> HIDE DEF T
  <2>1. QED
    BY <1>4, <1>5, NatSetBelow
<1>7. end - Len(ts) = 1
  BY <1>4
<1>8. QED
  BY <1>2, <1>4, <1>6, <1>7

SentencePlaces == {"text", "phonemes", "speaking", "streaming", "ended", "failed"}
Samples == [token : Nat, speaker : Range(Preset)]
TokensSpoken(s) == [i \in 1..Len(s) |-> s[i].token]

KokoroTypes ==
  /\ selected \in 0..Len(Preset)
  /\ where \in SentencePlaces
  /\ tokens \in Seq(BOOLEAN)
  /\ pieces \in Seq(Seq(Nat))
  /\ sound \in Seq(Samples)
  /\ chunkSize \in Nat /\ handedOut \in Nat /\ stopped \in BOOLEAN

(* What was spoken and what is left are the tokens of the sentence.        *)
SpokenInv ==
  /\ handedOut <= Len(sound)
  /\ where \in {"text", "phonemes"} => sound = << >>
  /\ where = "speaking" =>
       /\ TokensSpoken(sound) \o FlattenSeq(pieces) = TokensFrom(1, Len(tokens))
       /\ PiecesFit(tokens, pieces)
  /\ where = "streaming" => Len(sound) = Len(tokens)
  /\ where = "ended" /\ ~stopped => handedOut = Len(tokens) /\ Len(sound) = Len(tokens)

SpeakerInv ==
  /\ IsFiniteSet(current)
  /\ Resolve(selected) \in current
  /\ \A i \in 1..Len(sound) : sound[i].speaker \in current
  /\ where # "text" => \E v \in current : LanguageOf[v] = language

KokoroInv == KokoroTypes /\ SpokenInv /\ SpeakerInv

LEMMA ResolveIsPreset ==
  ASSUME NEW v \in 0..Len(Preset) PROVE Resolve(v) \in Range(Preset)
<1>1. Len(Preset) \in Nat \ {0} /\ DOMAIN Preset = 1..Len(Preset)
  BY KokoroAssumption
<1>2. (IF v = 0 THEN 1 ELSE v) \in 1..Len(Preset)
  BY <1>1
<1>3. QED
  BY <1>1, <1>2 DEF Resolve, Range

LEMMA TokensSpokenShape ==
  ASSUME NEW s \in Seq(Samples)
  PROVE  /\ TokensSpoken(s) \in Seq(Nat) /\ Len(TokensSpoken(s)) = Len(s)
         /\ \A i \in 1..Len(s) : TokensSpoken(s)[i] = s[i].token
<1>1. \A i \in 1..Len(s) : s[i].token \in Nat
  <2>1. \A i \in 1..Len(s) : s[i] \in Samples
    OBVIOUS
  <2>2. QED
    BY <2>1 DEF Samples
<1>2. Len(s) \in Nat
  OBVIOUS
<1>3. QED
  BY <1>1, <1>2 DEF TokensSpoken

LEMMA KokoroInvInit == KokoroInit => KokoroInv
<1> SUFFICES ASSUME KokoroInit PROVE KokoroInv
  OBVIOUS
<1> USE DEF KokoroInit
<1>1. chunkSize \in Nat
  BY KokoroAssumption
<1>2. /\ << >> \in Seq(BOOLEAN) /\ << >> \in Seq(Seq(Nat)) /\ << >> \in Seq(Samples)
      /\ Len(<< >>) = 0
  OBVIOUS
<1>3. KokoroTypes
  BY <1>1, <1>2 DEF KokoroTypes, SentencePlaces
<1>4. SpokenInv
  BY <1>2 DEF SpokenInv
<1>5. IsFiniteSet({Resolve(selected)})
  BY FS_Singleton
<1>6. SpeakerInv
  BY <1>2, <1>5 DEF SpeakerInv
<1>7. QED
  BY <1>3, <1>4, <1>6 DEF KokoroInv

(* The caller selects another speaker, or cancels.                         *)
LEMMA CallerStep ==
  ASSUME KokoroInv, SelectSpeaker \/ Stop PROVE KokoroInv'
<1> USE DEF KokoroInv
<1>1. CASE SelectSpeaker
  <2> USE <1>1 DEF SelectSpeaker, sentenceVars
  <2>1. KokoroTypes'
    BY DEF KokoroTypes
  <2>2. SpokenInv'
    BY DEF SpokenInv
  <2>3. IsFiniteSet(current') /\ Resolve(selected)' \in current' /\ current \subseteq current'
    <3>1. IsFiniteSet(current \cup {Resolve(selected')})
      BY FS_AddElement DEF SpeakerInv
    <3>2. Resolve(selected)' = Resolve(selected')
      BY DEF Resolve
    <3>3. QED
      BY <3>1, <3>2
  <2>4. SpeakerInv'
    BY <2>3 DEF SpeakerInv
  <2>5. QED
    BY <2>1, <2>2, <2>4
<1>2. CASE Stop
  <2> USE <1>2 DEF Stop, sentenceVars
  <2>1. KokoroTypes'
    BY DEF KokoroTypes
  <2>2. SpokenInv'
    BY DEF SpokenInv
  <2>3. SpeakerInv'
    BY DEF SpeakerInv, Resolve
  <2>4. QED
    BY <2>1, <2>2, <2>3
<1>3. QED
  BY <1>1, <1>2

(* The sentence goes on without a sample or a piece more or less.          *)
LEMMA QuietStep ==
  ASSUME KokoroInv, RefuseChunkSize \/ StartCancelled \/ SpeakFails \/ Phonemize
  PROVE  KokoroInv'
<1> USE DEF KokoroInv, RefuseChunkSize, StartCancelled, SpeakFails, Phonemize, Goes, sentenceVars
<1>1. KokoroTypes'
  BY DEF KokoroTypes, SentencePlaces
<1>2. SpokenInv'
  BY DEF KokoroTypes, SpokenInv
<1>3. SpeakerInv'
  <2>1. CASE Phonemize
    <3>1. \E v \in current : LanguageOf[v] = language'
      BY <2>1 DEF SpeakerInv
    <3>2. QED
      BY <2>1, <3>1 DEF SpeakerInv, Resolve
  <2>2. CASE ~Phonemize
    <3>1. where # "text" /\ UNCHANGED <<selected, current, sound, language>>
      BY <2>2
    <3>2. QED
      BY <3>1 DEF SpeakerInv, Resolve
  <2>3. QED
    BY <2>1, <2>2
<1>4. QED
  BY <1>1, <1>2, <1>3

LEMMA TokenizeStep == ASSUME KokoroInv, Tokenize PROVE KokoroInv'
<1> USE DEF KokoroInv, Tokenize, Goes
<1>1. tokens' \in Seq(BOOLEAN)
  BY MemoryAssumption
<1>2. IsGoodSplit(tokens', pieces', 1)
  BY <1>1, SplitTokensIsGood
<1>3. KokoroTypes'
  BY <1>1, <1>2 DEF KokoroTypes, IsGoodSplit, SentencePlaces
<1>4. SpokenInv'
  <2>1. Len(tokens') - 1 + 1 = Len(tokens')
    BY <1>1
  <2>2. FlattenSeq(pieces') = TokensFrom(1, Len(tokens')) /\ PiecesFit(tokens', pieces')
    BY <1>2, <2>1 DEF IsGoodSplit
  <2>3. sound' = << >>
    BY DEF SpokenInv
  <2>4. TokensSpoken(sound') = << >>
    BY <2>3 DEF TokensSpoken
  <2>5. TokensFrom(1, Len(tokens')) \in Seq(Nat)
    BY <1>1, TokensFromShape
  <2>6. TokensSpoken(sound') \o FlattenSeq(pieces') = TokensFrom(1, Len(tokens'))
    BY <2>2, <2>4, <2>5, ConcatEmptySeq
  <2>7. QED
    BY <2>2, <2>6 DEF SpokenInv
<1>5. SpeakerInv'
  BY DEF SpeakerInv, Resolve
<1>6. QED
  BY <1>3, <1>4, <1>5

(* A piece spoken, all of it by the speaker of the moment.                 *)
LEMMA SpeakPieceStep == ASSUME KokoroInv, SpeakPiece PROVE KokoroInv'
<1> USE DEF KokoroInv
<1> DEFINE x == Head(pieces)
           speaker == Resolve(selected)
           said == [i \in 1..Len(x) |-> [token |-> x[i], speaker |-> speaker]]
<1>1. /\ where = "speaking" /\ pieces # << >> /\ sound' = sound \o said /\ pieces' = Tail(pieces)
      /\ where' = "speaking"
      /\ UNCHANGED <<language, tokens, handedOut, selected, chunkSize, stopped, current>>
  BY DEF SpeakPiece, Goes
<1>2. /\ x \in Seq(Nat) /\ Len(x) \in Nat /\ pieces \in Seq(Seq(Nat))
      /\ Tail(pieces) \in Seq(Seq(Nat)) /\ pieces = <<x>> \o Tail(pieces)
  <2>1. pieces \in Seq(Seq(Nat))
    BY DEF KokoroTypes
  <2>2. Head(pieces) \in Seq(Nat) /\ Tail(pieces) \in Seq(Seq(Nat))
    BY <1>1, <2>1
  <2>3. <<Head(pieces)>> \o Tail(pieces) = pieces
    BY <1>1, <2>1, HeadTailAgain
  <2>4. QED
    BY <2>1, <2>2, <2>3
<1>3. speaker \in Range(Preset) /\ speaker \in current
  BY ResolveIsPreset DEF KokoroTypes, SpeakerInv
<1> HIDE DEF x, speaker
<1>4. \A i \in 1..Len(x) : x[i] \in Nat
  BY <1>2
<1>5. \A i \in 1..Len(x) : [token |-> x[i], speaker |-> speaker] \in Samples
  BY <1>3, <1>4 DEF Samples
<1>6. said \in Seq(Samples) /\ Len(said) = Len(x)
  BY <1>2, <1>5
<1>7. \A i \in 1..Len(x) : said[i].token = x[i] /\ said[i].speaker = speaker
  OBVIOUS
<1>8. sound \in Seq(Samples)
  BY DEF KokoroTypes
<1> HIDE DEF said
<1>9. /\ sound' \in Seq(Samples) /\ Len(sound') = Len(sound) + Len(x) /\ Len(sound) \in Nat
      /\ \A i \in 1..Len(sound) : sound'[i] = sound[i]
      /\ \A i \in 1..Len(x) : sound'[Len(sound) + i] = said[i]
  <2>1. /\ sound \o said \in Seq(Samples) /\ Len(sound \o said) = Len(sound) + Len(said)
        /\ \A i \in 1..Len(sound) : (sound \o said)[i] = sound[i]
        /\ \A i \in 1..Len(said) : (sound \o said)[Len(sound) + i] = said[i]
        /\ Len(sound) \in Nat
    BY <1>6, <1>8
  <2>2. QED
    BY <1>1, <1>6, <2>1
<1>10. KokoroTypes'
  BY <1>1, <1>2, <1>9 DEF KokoroTypes, SentencePlaces
<1>11. TokensSpoken(sound') = TokensSpoken(sound) \o x /\ TokensSpoken(sound) \in Seq(Nat)
  <2>2. /\ TokensSpoken(sound) \in Seq(Nat) /\ Len(TokensSpoken(sound)) = Len(sound)
        /\ \A i \in 1..Len(sound) : TokensSpoken(sound)[i] = sound[i].token
    BY <1>8, TokensSpokenShape
  <2>3. /\ TokensSpoken(sound') \in Seq(Nat) /\ Len(TokensSpoken(sound')) = Len(sound')
        /\ \A i \in 1..Len(sound') : TokensSpoken(sound')[i] = sound'[i].token
    BY <1>9, TokensSpokenShape
  <2>4. /\ TokensSpoken(sound') \in Seq(Nat) /\ Len(TokensSpoken(sound')) = Len(sound) + Len(x)
        /\ \A i \in 1..(Len(sound) + Len(x)) : TokensSpoken(sound')[i] = sound'[i].token
    BY <1>9, <2>3
  <2> DEFINE a == TokensSpoken(sound)
             b == TokensSpoken(sound')
             m == Len(sound)
  <2>5. a \in Seq(Nat) /\ x \in Seq(Nat) /\ b \in Seq(Nat) /\ Len(a) = m /\ Len(b) = m + Len(x)
    BY <1>2, <2>2, <2>4
  <2>6. \A i \in 1..m : b[i] = a[i]
    <3>1. \A i \in 1..m : i \in 1..(m + Len(x))
      BY <1>2, <1>9
    <3>2. QED
      BY <1>9, <2>2, <2>4, <3>1
  <2>7. \A i \in 1..Len(x) : b[m + i] = x[i]
    <3>1. \A i \in 1..Len(x) : m + i \in 1..(m + Len(x))
      BY <1>2, <1>9
    <3>2. QED
      BY <1>7, <1>9, <2>4, <3>1
  <2> HIDE DEF a, b, m
  <2>8. b = a \o x
    BY <2>5, <2>6, <2>7, ConcatIs
  <2>9. QED
    BY <2>5, <2>8 DEF a, b
<1>12. FlattenSeq(Tail(pieces)) \in Seq(Nat) /\ FlattenSeq(pieces) = x \o FlattenSeq(Tail(pieces))
  BY <1>2, FlattenFirst, FlattenType
<1>13. (TokensSpoken(sound) \o x) \o FlattenSeq(Tail(pieces))
         = TokensSpoken(sound) \o (x \o FlattenSeq(Tail(pieces)))
  <2>1. \A a, b, c \in Seq(Nat) : (a \o b) \o c = a \o (b \o c)
    BY ConcatThree
  <2>2. QED
    BY <1>2, <1>11, <1>12, <2>1
<1>14. TokensSpoken(sound') \o FlattenSeq(pieces') = TokensFrom(1, Len(tokens'))
  BY <1>1, <1>11, <1>12, <1>13 DEF SpokenInv
<1>15. PiecesFit(tokens', pieces')
  BY <1>1, <1>2, PiecesLeft DEF SpokenInv
<1>16. handedOut' <= Len(sound')
  BY <1>1, <1>2, <1>9 DEF SpokenInv, KokoroTypes
<1>17. SpokenInv'
  BY <1>1, <1>14, <1>15, <1>16 DEF SpokenInv
<1>18. \A i \in 1..Len(sound') : sound'[i].speaker \in current'
  <2>1. SUFFICES ASSUME NEW i \in 1..Len(sound') PROVE sound'[i].speaker \in current
    BY <1>1
  <2>2. CASE i \in 1..Len(sound)
    BY <1>9, <2>2 DEF SpeakerInv
  <2>3. CASE i \notin 1..Len(sound)
    <3>1. i - Len(sound) \in 1..Len(x) /\ Len(sound) + (i - Len(sound)) = i
      BY <1>2, <1>9, <2>3
    <3>2. sound'[i] = said[i - Len(sound)]
      BY <1>9, <3>1
    <3>3. QED
      BY <1>3, <1>7, <3>1, <3>2
  <2>4. QED
    BY <2>2, <2>3
<1>19. SpeakerInv'
  BY <1>1, <1>18 DEF SpeakerInv, Resolve
<1>20. QED
  BY <1>10, <1>17, <1>19

(* Spoken to the end: everything is there.                                 *)
LEMMA SpokenStep == ASSUME KokoroInv, Spoken PROVE KokoroInv'
<1> USE DEF KokoroInv, Spoken, Goes, sentenceVars
<1>1. Len(sound) \in Nat /\ Len(tokens) \in Nat
  BY DEF KokoroTypes
<1>2. KokoroTypes'
  BY <1>1 DEF KokoroTypes, SentencePlaces
<1>3. Len(sound) = Len(tokens)
  <2>1. TokensSpoken(sound) \o FlattenSeq(<< >>) = TokensFrom(1, Len(tokens))
    BY DEF SpokenInv
  <2>3. TokensSpoken(sound) \in Seq(Nat) /\ Len(TokensSpoken(sound)) = Len(sound)
    BY TokensSpokenShape DEF KokoroTypes
  <2>4. TokensSpoken(sound) = TokensFrom(1, Len(tokens))
    BY <2>1, <2>3, FlattenEmpty, ConcatEmptySeq
  <2>5. Len(TokensFrom(1, Len(tokens))) = Len(tokens)
    BY <1>1, TokensFromShape
  <2>6. QED
    BY <2>3, <2>4, <2>5
<1>4. SpokenInv'
  BY <1>1, <1>3 DEF KokoroTypes, SpokenInv
<1>5. SpeakerInv'
  BY DEF SpeakerInv, Resolve
<1>6. QED
  BY <1>2, <1>4, <1>5

(* A chunk pulled is never more than there is.                             *)
LEMMA PullChunkStep == ASSUME KokoroInv, PullChunk PROVE KokoroInv'
<1> USE DEF KokoroInv
<1>1. Len(sound) \in Nat /\ handedOut \in Nat /\ USIZE_MAX \in Nat \ {0}
  BY KokoroAssumption DEF KokoroTypes
<1>2. ScaledChunkSize \in Nat
  <2>1. chunkSize \in Nat /\ KOKORO_CHUNK_SIZE_SCALE \in Nat
    BY KokoroAssumption DEF KokoroTypes
  <2>2. chunkSize * KOKORO_CHUNK_SIZE_SCALE \in Nat
    BY <2>1
  <2> DEFINE product == chunkSize * KOKORO_CHUNK_SIZE_SCALE
  <2> HIDE DEF product
  <2>3. Min({product, USIZE_MAX}) \in Nat
    BY <1>1, <2>2, MinOfTwo DEF product
  <2>4. QED
    BY <2>3 DEF ScaledChunkSize, product
<1>3. /\ where = "streaming" /\ where' \in {"ended", "streaming"}
      /\ UNCHANGED <<selected, changes, chunkSize, stopped, current, language, tokens, pieces, sound>>
      /\ \/ (stopped \/ handedOut >= Len(sound)) /\ where' = "ended" /\ handedOut' = handedOut
         \/ /\ ~stopped /\ where' = "streaming"
            /\ handedOut' = Min({(handedOut + ScaledChunkSize) % (USIZE_MAX + 1), Len(sound)})
  BY DEF PullChunk, Goes, sentenceVars
<1>4. handedOut' \in Nat /\ handedOut' <= Len(sound)
  <2> DEFINE next == (handedOut + ScaledChunkSize) % (USIZE_MAX + 1)
  <2>1. next \in Nat
    <3>1. handedOut + ScaledChunkSize \in Nat /\ USIZE_MAX + 1 \in Nat \ {0}
      BY <1>1, <1>2
    <3>2. QED
      BY <3>1
  <2> HIDE DEF next
  <2>2. Min({next, Len(sound)}) \in Nat /\ Min({next, Len(sound)}) <= Len(sound)
    BY <1>1, <2>1, MinOfTwo
  <2>3. QED
    BY <1>1, <1>3, <2>2 DEF next, SpokenInv
<1>5. KokoroTypes'
  BY <1>3, <1>4 DEF KokoroTypes, SentencePlaces
<1>6. SpokenInv'
  BY <1>1, <1>3, <1>4 DEF SpokenInv
<1>7. SpeakerInv'
  BY <1>3 DEF SpeakerInv, Resolve
<1>8. QED
  BY <1>5, <1>6, <1>7

LEMMA KokoroInvStep == KokoroInv /\ [KokoroNext]_kokoroVars => KokoroInv'
<1> SUFFICES ASSUME KokoroInv, [KokoroNext]_kokoroVars PROVE KokoroInv'
  OBVIOUS
<1>1. CASE UNCHANGED kokoroVars
  <2> USE <1>1 DEF kokoroVars, sentenceVars, KokoroInv
  <2>1. KokoroTypes'
    BY DEF KokoroTypes
  <2>2. SpokenInv'
    BY DEF SpokenInv
  <2>3. SpeakerInv'
    BY DEF SpeakerInv, Resolve
  <2>4. QED
    BY <2>1, <2>2, <2>3
<1>2. QED
  BY <1>1, CallerStep, QuietStep, TokenizeStep, SpeakPieceStep, SpokenStep, PullChunkStep
     DEF KokoroNext

(* A Kokoro sentence is spoken whole, in pieces the model can take, cut    *)
(* where a word ends if it can be, and by speakers that were selected since*)
(* it began: for any number and lengths of pieces, any speakers and any    *)
(* changes of them (split_tokens, speak_one_sentence, the streamer).       *)
THEOREM SentencesAreSpoken == KokoroSpec => []SentenceIsSpokenAsAsked
<1>1. KokoroInv => SentenceIsSpokenAsAsked
  <2> SUFFICES ASSUME KokoroInv PROVE SentenceIsSpokenAsAsked
    OBVIOUS
  <2> USE DEF KokoroInv
  <2>1. where = "speaking" => SplitIsSound
    <3> SUFFICES ASSUME where = "speaking" PROVE SplitIsSound
      OBVIOUS
    <3>1. Len(tokens) \in Nat
      BY DEF KokoroTypes
    <3>2. TokensFrom(1, Len(tokens)) = [i \in 1..Len(tokens) |-> i]
      <4>1. \A i \in 1..Len(tokens) : 1 + i - 1 = i
        BY <3>1
      <4>2. QED
        BY <4>1 DEF TokensFrom
    <3>3. TokensSpoken(sound) \o FlattenSeq(pieces) = [i \in 1..Len(tokens) |-> i]
      BY <3>2 DEF SpokenInv
    <3>4. PiecesFit(tokens, pieces)
      BY DEF SpokenInv
    <3>5. QED
      BY <3>3, <3>4, Zenon DEF SplitIsSound, TokensSpoken, PiecesFit, WellCut
  <2>2. SentenceIsSpokenWhole
    BY <2>1 DEF SpokenInv, SentenceIsSpokenWhole
  <2>3. SpeakersWereSelected
    <3>1. SUFFICES ASSUME NEW i \in 1..Len(sound)
                   PROVE  /\ sound[i].speaker \in current
                          /\ Cardinality(current) = 1 => LanguageOf[sound[i].speaker] = language
      BY DEF SpeakersWereSelected
    <3>2. sound[i].speaker \in current
      BY DEF SpeakerInv
    <3>3. where # "text"
      BY DEF SpokenInv
    <3>4. PICK v \in current : LanguageOf[v] = language
      BY <3>3 DEF SpeakerInv
    <3>5. ASSUME Cardinality(current) = 1 PROVE sound[i].speaker = v
      <4>1. IsFiniteSet(current)
        BY DEF SpeakerInv
      <4>2. PICK u : current = {u}
        BY <3>5, <4>1, FS_Singleton
      <4>3. QED
        BY <3>2, <4>2
    <3>6. QED
      BY <3>2, <3>4, <3>5
  <2>4. QED
    BY <2>2, <2>3 DEF SentenceIsSpokenAsAsked
<1>2. QED
  BY <1>1, KokoroInvInit, KokoroInvStep, PTL DEF KokoroSpec

-----------------------------------------------------------------------------
(* PinyinSentence.                                                         *)

(* The window that is shown to the network, in a sentence that keeps its   *)
(* length in lower case, has at every place the character of that place.   *)
LEMMA WindowIsSentence ==
  ASSUME chars \in Seq(CharacterKinds), charIndex \in 1..Len(chars), ~Shifted
  PROVE  /\ win_start \in 0..(charIndex - 1) /\ win_end \in Nat
         /\ Len(Lowered) \in Nat /\ DOMAIN Lowered = 1..Len(Lowered)
         /\ \A k \in 1..Len(Lowered) : Lowered[k].of = win_start + k
<1>1. /\ half \in Nat /\ Len(chars) \in Nat
      /\ DOMAIN chars = 1..Len(chars) /\ charIndex \in Nat
  BY WindowAssumption DEF half
<1>2. /\ win_start \in 0..(charIndex - 1)
      /\ win_end \in Nat /\ win_start <= win_end /\ win_end <= Len(chars)
  BY <1>1 DEF win_start, win_end, Least, Most
<1> DEFINE n == win_end - win_start
           shown == [k \in 1..n |-> [kind |-> chars[win_start + k], of |-> win_start + k]]
<1>3. n \in Nat
  BY <1>2
<1>4. \A k \in 1..n : chars[win_start + k] # "wide"
  BY <1>1, <1>2 DEF Shifted
<1>5. Lowered = FlattenSeq([k \in 1..n |-> <<shown[k]>>])
  BY <1>4 DEF Lowered
<1>6. shown = [k \in 1..n |-> shown[k]] /\ Len(shown) = n /\ DOMAIN shown = 1..n
  BY <1>3
<1>7. \A k \in 1..n : shown[k].of = win_start + k
  OBVIOUS
<1> HIDE DEF n, shown
<1>8. Lowered = shown
  BY <1>3, <1>5, <1>6, FlattenSingles
<1>9. QED
  BY <1>2, <1>3, <1>6, <1>7, <1>8

(* Words and the tokens they are cut into lie inside of the text.          *)
Spans(n) == {w \in Int \X Int : w[2] <= n}

LEMMA TokensLieInText ==
  ASSUME NEW t, NEW n \in Nat, Len(t) = n, DOMAIN t = 1..n, NEW longest \in Nat
  PROVE  TokensOf(t, longest) \in Seq(Spans(n))
<1> DEFINE parts == [i \in DOMAIN t |->
             IF t[i].kind = "space" \/ (Latin(t, i) /\ Latin(t, i - 1)) THEN << >>
             ELSE <<<<i, WordEnd(t, i)>>>>]
<1>1. \A i \in 1..n : WordEnd(t, i) \in Int /\ WordEnd(t, i) <= n
  <2> SUFFICES ASSUME NEW i \in 1..n PROVE WordEnd(t, i) \in Int /\ WordEnd(t, i) <= n
    OBVIOUS
  <2> DEFINE run == {j \in i..Len(t) : \A k \in i..j : Latin(t, k)}
  <2>1. CASE Latin(t, i)
    <3>1. run \subseteq 0..n /\ i \in run
      BY <2>1
    <3>2. Max(run) \in run
      BY <3>1, MaxIsGreatest
    <3>3. QED
      BY <2>1, <3>1, <3>2 DEF WordEnd
  <2>2. CASE ~Latin(t, i)
    BY <2>2 DEF WordEnd
  <2>3. QED
    BY <2>1, <2>2
<1>2. \A i \in 1..n : parts[i] \in Seq(Spans(n))
  <2> SUFFICES ASSUME NEW i \in 1..n PROVE parts[i] \in Seq(Spans(n))
    OBVIOUS
  <2>1. <<i, WordEnd(t, i)>> \in Spans(n)
    BY <1>1 DEF Spans
  <2>2. << >> \in Seq(Spans(n)) /\ <<<<i, WordEnd(t, i)>>>> \in Seq(Spans(n))
    BY <2>1
  <2>3. QED
    BY <2>2
<1>3. parts \in Seq(Seq(Spans(n))) /\ Words(t) = FlattenSeq(parts)
  <2>1. Words(t) = FlattenSeq(parts)
    BY Zenon DEF Words
  <2>2. parts = [i \in 1..n |-> parts[i]]
    OBVIOUS
  <2> HIDE DEF parts
  <2>3. parts \in Seq(Seq(Spans(n)))
    BY <1>2, <2>2
  <2>4. QED
    BY <2>1, <2>3
<1> HIDE DEF parts
<1>4. Words(t) \in Seq(Spans(n))
  BY <1>3, FlattenType
<1> DEFINE words == Words(t)
           cut == [k \in DOMAIN words |-> Pieces(words[k], longest)]
<1>5. ASSUME NEW w \in Spans(n) PROVE Pieces(w, longest) \in Seq(Spans(n))
  <2>1. CASE longest = 0
    BY <2>1 DEF Pieces
  <2>2. CASE longest # 0
    <3> DEFINE count == (w[2] - w[1]) \div longest + 1
               piece(k) == <<w[1] + (k - 1) * longest, Least(w[1] + k * longest - 1, w[2])>>
    <3>1. w[1] \in Int /\ w[2] \in Int /\ w[2] <= n /\ count \in Int
      BY <2>2 DEF Spans
    <3>2. \A k \in 1..count : piece(k) \in Spans(n)
      <4> SUFFICES ASSUME NEW k \in Int PROVE piece(k) \in Spans(n)
        BY <3>1
      <4>1. (k - 1) * longest \in Int /\ k * longest \in Int
        OBVIOUS
      <4>2. QED
        BY <3>1, <4>1 DEF Spans, Least
    <3>3. Pieces(w, longest) = [k \in 1..count |-> piece(k)]
      BY <2>2 DEF Pieces
    <3> HIDE DEF count, piece
    <3>4. [k \in 1..count |-> piece(k)] \in Seq(Spans(n))
      <4>1. CASE count \in Nat
        BY <3>2, <4>1
      <4>2. CASE count \notin Nat
        <5>1. 1..count = 1..0
          BY <3>1, <4>2
        <5>2. [k \in 1..count |-> piece(k)] \in [1..0 -> Spans(n)]
          BY <5>1
        <5>3. \A f \in [1..0 -> Spans(n)] : f \in Seq(Spans(n))
          OBVIOUS
        <5>4. QED
          BY <5>2, <5>3
      <4>3. QED
        BY <4>1, <4>2
    <3>5. QED
      BY <3>3, <3>4
  <2>3. QED
    BY <2>1, <2>2
<1>6. cut \in Seq(Seq(Spans(n)))
  <2>1. \A k \in 1..Len(words) : words[k] \in Spans(n)
    BY <1>4
  <2>2. \A k \in 1..Len(words) : Pieces(words[k], longest) \in Seq(Spans(n))
    BY <1>5, <2>1
  <2>3. Len(words) \in Nat /\ DOMAIN words = 1..Len(words)
    BY <1>4
  <2> HIDE DEF words
  <2>4. QED
    BY <2>2, <2>3
<1>7. QED
  BY <1>6, FlattenType DEF TokensOf

(* The tokens that are kept are not too many, and have the asked one.      *)
LEMMA KeptTokens ==
  ASSUME NEW count \in Nat, NEW position \in 0..(count - 1), keep > 0
  PROVE  /\ token_start(count, position) \in 0..position
         /\ token_end(count, position) \in (position + 1)..count
         /\ token_end(count, position) - token_start(count, position) <= keep
<1>1. keep \in Nat /\ keep \div 2 \in 0..(keep - 1)
  BY WindowAssumption DEF keep
<1>2. QED
  BY <1>1 DEF token_start, token_end, Least, Most

(* The network is asked at a token that has the character, and what was    *)
(* asked is about the sentence that is still read.                         *)
PinyinInv ==
  /\ remaining \in Seq(CharacterKinds)
  /\ chars \in Seq(CharacterKinds)
  /\ charIndex \in Nat \ {0}
  /\ PolyphoneIsAskedAbout

LEMMA PinyinInvInit == PinyinInit => PinyinInv
<1> SUFFICES ASSUME PinyinInit PROVE PinyinInv
  OBVIOUS
<1>1. remaining \in Seq(CharacterKinds)
  <2>1. PICK n \in 1..MaxText : remaining \in [1..n -> CharacterKinds]
    BY DEF PinyinInit, PinyinStarts
  <2>2. n \in Nat
    BY WindowAssumption
  <2>3. QED
    BY <2>1, <2>2
<1>2. QED
  BY <1>1 DEF PinyinInit, PinyinStarts, PinyinInv, PolyphoneIsAskedAbout

LEMMA StrippedIsText ==
  ASSUME NEW t \in Seq(CharacterKinds) PROVE Stripped(t) \in Seq(CharacterKinds)
<1> DEFINE parts == [i \in DOMAIN t |-> IF t[i] = "quote" THEN << >> ELSE <<t[i]>>]
<1>1. \A i \in 1..Len(t) : parts[i] \in Seq(CharacterKinds)
  <2>1. \A i \in 1..Len(t) : t[i] \in CharacterKinds
    OBVIOUS
  <2>2. \A c \in CharacterKinds : <<c>> \in Seq(CharacterKinds)
    OBVIOUS
  <2>3. << >> \in Seq(CharacterKinds)
    OBVIOUS
  <2>4. QED
    BY <2>1, <2>2, <2>3
<1>2. parts \in Seq(Seq(CharacterKinds))
  <2>1. Len(t) \in Nat /\ parts = [i \in 1..Len(t) |-> parts[i]]
    OBVIOUS
  <2> HIDE DEF parts
  <2>2. QED
    BY <1>1, <2>1
<1>3. QED
  BY <1>2, FlattenType DEF Stripped

LEMMA SentenceIsText ==
  ASSUME PinyinInv
  PROVE  /\ SubSeq(remaining, 1, SentenceEnd) \in Seq(CharacterKinds)
         /\ SubSeq(remaining, SentenceEnd + 1, Len(remaining)) \in Seq(CharacterKinds)
<1> DEFINE stops == {i \in DOMAIN remaining : remaining[i] = "stop"}
<1>1. remaining \in Seq(CharacterKinds) /\ Len(remaining) \in Nat
      /\ DOMAIN remaining = 1..Len(remaining)
  BY DEF PinyinInv
<1>2. SentenceEnd \in 0..Len(remaining)
  <2>1. CASE stops = {}
    BY <1>1, <2>1 DEF SentenceEnd
  <2>2. CASE stops # {}
    <3>1. stops \subseteq Nat
      BY <1>1
    <3>2. \E i \in stops : \A j \in stops : i <= j
      BY <2>2, <3>1, LeastElement
    <3>3. Min(stops) \in stops
      BY <3>2 DEF Min
    <3>4. QED
      BY <1>1, <2>2, <3>3 DEF SentenceEnd
  <2>3. QED
    BY <2>1, <2>2
<1>3. \A m \in 0..Len(remaining) : SubSeq(remaining, 1, m) \in Seq(CharacterKinds)
  BY <1>1
<1>4. \A m \in 0..Len(remaining) :
        SubSeq(remaining, m + 1, Len(remaining)) \in Seq(CharacterKinds)
  BY <1>1
<1>5. QED
  BY <1>2, <1>3, <1>4

LEMMA AskStep ==
  ASSUME PinyinInv, NEW longest \in Nat, AskNetwork(longest)
  PROVE  PolyphoneIsAskedAbout'
<1> DEFINE shown == Lowered
           cut == TokensOf(shown, longest)
           query == charIndex - win_start
           covering == {n \in DOMAIN cut : Covers(cut[n], query)}
           position == (CHOOSE n \in covering : TRUE) - 1
           start == token_start(Len(cut), position)
           end == token_end(Len(cut), position)
           kept == SubSeq(cut, start + 1, end)
           Seen(token) == {shown[i].of : i \in token[1]..token[2]}
           sets == [n \in DOMAIN kept |-> Seen(kept[n])]
<1>1. /\ covering # {} /\ keep > 0
      /\ asked' = [ids |-> <<{}>> \o sets \o <<{}>>,
                   position |-> position_id(Len(cut), position) + 1, of |-> charIndex]
      /\ chars' = chars /\ charIndex \in 1..Len(chars)
  BY DEF AskNetwork, Reads, Gives, PinyinInv
<1> SUFFICES ASSUME ~Shifted
             PROVE  /\ asked'.position \in DOMAIN asked'.ids
                    /\ asked'.of \in asked'.ids[asked'.position]
                    /\ Len(asked'.ids) <= max_len
  BY <1>1 DEF PolyphoneIsAskedAbout, Shifted
<1>2. /\ win_start \in 0..(charIndex - 1)
      /\ Len(shown) \in Nat /\ DOMAIN shown = 1..Len(shown)
      /\ \A k \in 1..Len(shown) : shown[k].of = win_start + k
  BY <1>1, WindowIsSentence DEF PinyinInv
<1>3. cut \in Seq(Spans(Len(shown)))
  BY <1>2, TokensLieInText
<1>4. Len(cut) \in Nat /\ DOMAIN cut = 1..Len(cut)
  BY <1>3
<1>5. position + 1 \in covering /\ position + 1 \in 1..Len(cut)
      /\ position \in 0..(Len(cut) - 1)
  BY <1>1, <1>4
<1> HIDE DEF cut, covering, position
<1>6. start \in 0..position /\ end \in (position + 1)..Len(cut) /\ end - start <= keep
  BY <1>1, <1>4, <1>5, KeptTokens
<1>7. charIndex \in Nat /\ query \in Nat \ {0}
  BY <1>2 DEF PinyinInv
<1>8. charIndex \in Seen(cut[position + 1])
  <2>1. cut[position + 1] \in Spans(Len(shown))
    BY <1>3, <1>4, <1>5
  <2>2. query \in cut[position + 1][1]..cut[position + 1][2]
    BY <1>5 DEF covering, Covers
  <2>3. query \in 1..Len(shown)
    BY <1>2, <1>7, <2>1, <2>2 DEF Spans
  <2>4. shown[query].of = charIndex
    BY <1>2, <1>7, <2>3
  <2>5. QED
    BY <2>2, <2>4
<1> DEFINE at == position - start + 1
<1>9. /\ Len(kept) = end - start /\ DOMAIN kept = 1..(end - start)
      /\ at \in 1..(end - start) /\ kept[at] = cut[position + 1]
  <2>1. kept = [i \in 1..(end - start) |-> cut[start + i]]
    BY <1>3, <1>4, <1>5, <1>6
  <2>2. at \in 1..(end - start) /\ start + at = position + 1 /\ end - start \in Nat
    BY <1>4, <1>5, <1>6
  <2> HIDE DEF start, end, kept, at
  <2>3. QED
    BY <2>1, <2>2
<1> DEFINE X == SUBSET {shown[i].of : i \in Int}
<1>10. sets \in Seq(X) /\ Len(sets) = end - start /\ charIndex \in sets[at]
  <2>1. \A n \in DOMAIN kept : kept[n] \in Spans(Len(shown))
    BY <1>3, <1>4, <1>5, <1>6
  <2>2. \A n \in DOMAIN kept : Seen(kept[n]) \in X
    BY <2>1 DEF Spans
  <2>3. end - start \in Nat
    BY <1>4, <1>5, <1>6
  <2> HIDE DEF start, end, kept, X, at
  <2>4. sets = [n \in 1..(end - start) |-> Seen(kept[n])]
    BY <1>9
  <2>5. sets[at] = Seen(cut[position + 1])
    BY <1>9, <2>4
  <2> HIDE DEF Seen
  <2>6. \A n \in 1..(end - start) : sets[n] \in X
    BY <1>9, <2>2, <2>4
  <2> HIDE DEF sets
  <2>7. sets \in Seq(X) /\ Len(sets) = end - start
    BY <2>3, <2>4, <2>6
  <2>8. QED
    BY <1>8, <2>5, <2>7
<1>11. asked'.ids = <<{}>> \o sets \o <<{}>> /\ asked'.of = charIndex
       /\ asked'.position = at + 1
  BY <1>1, <1>4, <1>5, <1>6 DEF position_id
<1>12. {} \in X /\ keep = max_len - 2 /\ max_len \in Nat
  BY WindowAssumption DEF keep
<1> HIDE DEF sets, at, X, kept
<1>13. LET ids == <<{}>> \o sets \o <<{}>>
       IN Len(ids) = Len(sets) + 2 /\ ids[at + 1] = sets[at] /\ DOMAIN ids = 1..Len(ids)
  <2>1. <<{}>> \in Seq(X) /\ Len(<<{}>>) = 1
    BY <1>12
  <2>2. Len(sets) \in Nat /\ at \in 1..Len(sets)
    BY <1>9, <1>10
  <2>3. QED
    BY <1>10, <2>1, <2>2
<1>14. QED
  <2>1. Len(asked'.ids) = end - start + 2 /\ end - start \in Nat /\ at \in Nat /\ at <= end - start
        /\ at + 1 \in 1..(end - start + 2)
    BY <1>4, <1>5, <1>6, <1>9, <1>10, <1>11, <1>13
  <2>2. end - start + 2 <= max_len
    BY <1>6, <1>12, <2>1
  <2>3. QED
    BY <1>10, <1>11, <1>13, <2>1, <2>2

LEMMA PinyinInvStep == PinyinInv /\ [PinyinNext]_pinyinVars => PinyinInv'
<1> SUFFICES ASSUME PinyinInv, [PinyinNext]_pinyinVars PROVE PinyinInv'
  OBVIOUS
<1>1. CASE Split
  BY <1>1, StrippedIsText DEF Split, PinyinInv, PolyphoneIsAskedAbout, Shifted
<1>2. CASE NextSentence
  <2>1. CASE remaining = << >>
    BY <1>2, <2>1 DEF NextSentence, PinyinInv, PolyphoneIsAskedAbout, Shifted
  <2>2. CASE remaining # << >>
    <3>1. remaining' \in Seq(CharacterKinds) /\ chars' \in Seq(CharacterKinds)
      <4>1. /\ chars' = SubSeq(remaining, 1, SentenceEnd)
            /\ remaining' = SubSeq(remaining, SentenceEnd + 1, Len(remaining))
        BY <1>2, <2>2 DEF NextSentence
      <4>2. QED
        BY <4>1, SentenceIsText
    <3>2. charIndex' = 1 /\ asked' = Nothing
      BY <1>2, <2>2 DEF NextSentence
    <3>3. QED
      BY <3>1, <3>2 DEF PinyinInv, PolyphoneIsAskedAbout
  <2>3. QED
    BY <2>1, <2>2
<1>3. CASE ReadFromDictionary \/ PassPunctuation \/ LeaveOut \/ AskFails
  BY <1>3 DEF ReadFromDictionary, PassPunctuation, LeaveOut, AskFails, Gives,
              PinyinInv, PolyphoneIsAskedAbout, Shifted
<1>4. ASSUME NEW longest \in 0..2, AskNetwork(longest) PROVE PinyinInv'
  <2>1. PolyphoneIsAskedAbout'
    BY <1>4, AskStep
  <2>2. remaining' = remaining /\ chars' = chars /\ charIndex' = charIndex + 1
    BY <1>4 DEF AskNetwork, Gives
  <2>3. QED
    BY <2>1, <2>2 DEF PinyinInv
<1>5. CASE UNCHANGED pinyinVars
  BY <1>5 DEF pinyinVars, PinyinInv, PolyphoneIsAskedAbout, Shifted
<1>6. QED
  BY <1>1, <1>2, <1>3, <1>4, <1>5 DEF PinyinNext

(* However long the text, the window and the network's limit, wherever the *)
(* words end and however the tokenizer cuts them: the network is asked at  *)
(* a token of the polyphone itself and never shown more than it takes      *)
(* (truncate_window, truncate_tokens_around_position).                     *)
THEOREM PolyphonesAreAsked == PinyinSpec => []PolyphoneIsAskedAbout
<1>1. PinyinInv => PolyphoneIsAskedAbout
  BY DEF PinyinInv
<1>2. QED
  BY <1>1, PinyinInvInit, PinyinInvStep, PTL DEF PinyinSpec

-----------------------------------------------------------------------------
(* AudioBuffer.                                                            *)

(* A sound: samples whose places ascend.                                   *)
Sample == [place : Nat, level : Int]
PlacesOf(samples) == {samples[i].place : i \in 1..Len(samples)}
Ascends(samples) ==
  \A i, j \in 1..Len(samples) : i < j => samples[i].place < samples[j].place
Precede(P, Q) == \A p \in P, q \in Q : p < q
IsSound(samples) == samples \in Seq(Sample) /\ Ascends(samples)

(* The samples held, those of the other buffer, those handed out and those *)
(* dropped.                                                                *)
Separate(H, S, R, D) ==
  /\ H \cap S = {} /\ H \cap R = {} /\ H \cap D = {}
  /\ S \cap R = {} /\ S \cap D = {} /\ R \cap D = {}

HandedPlaces == {s.place : s \in handed}
DroppedPlaces == {d.sample.place : d \in dropped}

(* What is held comes before the other buffer, and the four parts make up  *)
(* the places of the sounds it began with.                                 *)
BufferInv ==
  /\ IsSound(held) /\ IsSound(second) /\ channels \in {1, 2}
  /\ Precede(PlacesOf(held), PlacesOf(second))
  /\ Separate(PlacesOf(held), PlacesOf(second), HandedPlaces, DroppedPlaces)
  /\ \E N \in Nat : PlacesOf(held) \cup PlacesOf(second) \cup HandedPlaces \cup DroppedPlaces = 1..N
  /\ NothingAudibleIsTrimmed

-----------------------------------------------------------------------------
(* Levels.                                                                 *)

LEMMA MaxOfInts ==
  ASSUME NEW a \in Int, NEW b \in Int
  PROVE  Max({a, b}) = IF a >= b THEN a ELSE b
  BY DEF Max

LEMMA TowardZero ==
  ASSUME NEW a \in Int, NEW b \in Nat \ {0}
  PROVE  Toward0(a, b) \in Int
  BY DEF Toward0

LEMMA GainsLevels ==
  ASSUME NEW s \in Sample, NEW i \in Int, NEW n \in Nat \ {0}
  PROVE  Gained(s, i, n) \in Sample /\ Gained(s, i, n).place = s.place
<1>1. s.level * i \in Int /\ s.level \in Int
  BY DEF Sample
<1>2. Toward0(s.level * i, n) \in Int
  BY <1>1, TowardZero
<1>3. QED
  BY <1>1, <1>2 DEF Gained, Sample, NotANumber

LEMMA MixesLevels ==
  ASSUME NEW s \in Sample, NEW t \in Sample, NEW i \in Int, NEW n \in Nat \ {0}
  PROVE  Mixed(s, t, i, n) \in Sample /\ Mixed(s, t, i, n).place = s.place
<1> DEFINE a == Gained(s, n - i, n).level
           b == Gained(t, i, n).level
           l == IF a < Infinite /\ b < Infinite THEN a + b ELSE Max({a, b})
<1>1. n - i \in Int
  OBVIOUS
<1>2. a \in Int /\ b \in Int
  BY <1>1, GainsLevels DEF Sample
<1>3. Mixed(s, t, i, n) = [s EXCEPT !.level = l]
  BY DEF Mixed
<1> HIDE DEF a, b
<1>4. l \in Int
  BY <1>2, MaxOfInts
<1> HIDE DEF l
<1>5. QED
  BY <1>3, <1>4 DEF Sample

LEMMA ClearsLevels ==
  ASSUME NEW s \in Sample PROVE Cleared(s) \in Sample /\ Cleared(s).place = s.place
  BY DEF Cleared, Sample

(* The conversion of the wave file grows with the level.                   *)
LEMMA PcmGrows ==
  ASSUME NEW s \in Sample, NEW t \in Sample, IsNumber(s), IsNumber(t), s.level <= t.level
  PROVE  Pcm(s) <= Pcm(t) /\ (s.level = 0 => Pcm(s) = 0)
<1> DEFINE T(l) == Toward0(5 * l * 32767, 4000)
           C(v) == IF v < -32768 THEN -32768 ELSE IF 32767 < v THEN 32767 ELSE v
<1>1. s.level \in Int /\ t.level \in Int
  BY DEF Sample
<1>2. \A l \in Int : T(l) \in Int /\ (l = 0 => T(l) = 0)
  BY DEF Toward0
<1>3. \A l, m \in Int : l <= m => T(l) <= T(m)
  BY DEF Toward0
<1> HIDE DEF T
<1>4. \A v \in Int : Max({-32768, AtMost(32767, v)}) = C(v)
  BY MaxOfInts DEF AtMost
<1>5. Pcm(s) = C(T(s.level)) /\ Pcm(t) = C(T(t.level))
  BY <1>1, <1>2, <1>4 DEF Pcm, T
<1>6. QED
  BY <1>1, <1>2, <1>3, <1>5

-----------------------------------------------------------------------------
(* Sounds.                                                                 *)

LEMMA PlacesAreNaturals ==
  ASSUME NEW s \in Seq(Sample)
  PROVE  /\ Len(s) \in Nat /\ PlacesOf(s) \subseteq Nat
         /\ \A i \in 1..Len(s) : s[i] \in Sample /\ s[i].place \in Nat /\ s[i].place \in PlacesOf(s)
<1>1. Len(s) \in Nat /\ \A i \in 1..Len(s) : s[i] \in Sample
  OBVIOUS
<1>2. QED
  BY <1>1 DEF Sample, PlacesOf

LEMMA PrecedingIsApart ==
  ASSUME NEW P, P \subseteq Nat, NEW Q, Q \subseteq Nat, Precede(P, Q)
  PROVE  P \cap Q = {}
  BY DEF Precede

LEMMA NothingIsASound ==
  IsSound(<< >>) /\ PlacesOf(<< >>) = {}
  BY DEF IsSound, Ascends, PlacesOf

LEMMA SubSounds ==
  ASSUME NEW s, IsSound(s), NEW a \in 1..(Len(s) + 1), NEW b \in 0..Len(s)
  PROVE  /\ IsSound(SubSeq(s, a, b))
         /\ PlacesOf(SubSeq(s, a, b)) = {s[i].place : i \in a..b}
<1> DEFINE t == SubSeq(s, a, b)
<1>1. s \in Seq(Sample) /\ Len(s) \in Nat /\ (\A i \in 1..Len(s) : s[i] \in Sample)
      /\ a \in Int /\ b \in Int
  BY DEF IsSound
<1>2. t \in Seq(Sample)
  <2>1. \A i \in a..b : i \in 1..Len(s)
    BY <1>1
  <2>2. QED
    BY <1>1, <2>1
<1>3. Len(t) = (IF a <= b THEN b - a + 1 ELSE 0) /\ \A i \in 1..Len(t) : t[i] = s[a + i - 1]
  BY <1>1
<1> HIDE DEF t
<1>4. \A i \in 1..Len(t) : a + i - 1 \in a..b /\ a + i - 1 \in 1..Len(s)
  BY <1>1, <1>3
<1>5. Ascends(t)
  <2> SUFFICES ASSUME NEW i \in 1..Len(t), NEW j \in 1..Len(t), i < j
               PROVE  t[i].place < t[j].place
    BY DEF Ascends
  <2>1. a + i - 1 < a + j - 1
    BY <1>1
  <2>2. QED
    BY <1>3, <1>4, <2>1 DEF IsSound, Ascends
<1>6. \A k \in a..b : k - a + 1 \in 1..Len(t) /\ a + (k - a + 1) - 1 = k
  BY <1>1, <1>3
<1>7. PlacesOf(t) = {s[i].place : i \in a..b}
  <2>1. \A k \in a..b : t[k - a + 1].place = s[k].place
    BY <1>3, <1>6
  <2>2. QED
    BY <1>3, <1>4, <1>6, <2>1 DEF PlacesOf
<1>8. IsSound(t)
  BY <1>2, <1>5 DEF IsSound
<1>9. QED
  BY <1>7, <1>8 DEF t

(* A sound cut at two of its samples.                                      *)
CutAt(s, a, b) == /\ IsSound(s) /\ a \in 0..b /\ b \in 0..Len(s)

(* Its three parts are sounds, one after the other.                        *)
LEMMA CutsInThree ==
  ASSUME NEW s, NEW a, NEW b, CutAt(s, a, b),
         NEW A, A = PlacesOf(SubSeq(s, 1, a)), NEW B, B = PlacesOf(SubSeq(s, a + 1, b)),
         NEW C, C = PlacesOf(SubSeq(s, b + 1, Len(s)))
  PROVE  /\ IsSound(SubSeq(s, 1, a)) /\ IsSound(SubSeq(s, a + 1, b))
         /\ IsSound(SubSeq(s, b + 1, Len(s)))
         /\ A \cup B \cup C = PlacesOf(s) /\ PlacesOf(s) \subseteq Nat
         /\ Precede(A, B) /\ Precede(A, C) /\ Precede(B, C)
<1>0. IsSound(s) /\ s \in Seq(Sample) /\ Ascends(s) /\ Len(s) \in Nat /\ a \in Nat /\ b \in Nat
      /\ a <= b /\ b <= Len(s)
  BY DEF CutAt, IsSound
<1>1. /\ 1 \in 1..(Len(s) + 1) /\ a + 1 \in 1..(Len(s) + 1) /\ b + 1 \in 1..(Len(s) + 1)
      /\ a \in 0..Len(s) /\ b \in 0..Len(s) /\ Len(s) \in 0..Len(s)
  BY <1>0
<1>2. IsSound(SubSeq(s, 1, a)) /\ A = {s[i].place : i \in 1..a}
  BY <1>0, <1>1, SubSounds
<1>3. IsSound(SubSeq(s, a + 1, b)) /\ B = {s[i].place : i \in (a + 1)..b}
  BY <1>0, <1>1, SubSounds
<1>4. IsSound(SubSeq(s, b + 1, Len(s))) /\ C = {s[i].place : i \in (b + 1)..Len(s)}
  BY <1>0, <1>1, SubSounds
<1>5. \A i \in 1..Len(s) : i \in 1..a \/ i \in (a + 1)..b \/ i \in (b + 1)..Len(s)
  BY <1>0
<1>6. /\ \A i \in 1..a : i \in 1..Len(s)
      /\ \A i \in (a + 1)..b : i \in 1..Len(s)
      /\ \A i \in (b + 1)..Len(s) : i \in 1..Len(s)
  BY <1>0
<1>7. A \cup B \cup C = PlacesOf(s)
  BY <1>2, <1>3, <1>4, <1>5, <1>6 DEF PlacesOf
<1>8. \A i, j \in 1..Len(s) : i < j => s[i].place < s[j].place
  BY <1>0 DEF Ascends
<1>9. Precede(A, B)
  <2>1. \A i \in 1..a, j \in (a + 1)..b : i < j
    BY <1>0
  <2>2. QED
    BY <1>2, <1>3, <1>6, <1>8, <2>1 DEF Precede
<1>10. Precede(A, C)
  <2>1. \A i \in 1..a, j \in (b + 1)..Len(s) : i < j
    BY <1>0
  <2>2. QED
    BY <1>2, <1>4, <1>6, <1>8, <2>1 DEF Precede
<1>11. Precede(B, C)
  <2>1. \A i \in (a + 1)..b, j \in (b + 1)..Len(s) : i < j
    BY <1>0
  <2>2. QED
    BY <1>3, <1>4, <1>6, <1>8, <2>1 DEF Precede
<1>12. QED
  BY <1>0, <1>2, <1>3, <1>4, <1>7, <1>9, <1>10, <1>11, PlacesAreNaturals

(* A sound and a later one are a sound.                                    *)
LEMMA JoinsSounds ==
  ASSUME NEW s, NEW t, IsSound(s), IsSound(t), Precede(PlacesOf(s), PlacesOf(t))
  PROVE  IsSound(s \o t) /\ PlacesOf(s \o t) = PlacesOf(s) \cup PlacesOf(t)
<1> DEFINE u == s \o t
<1>1. /\ s \in Seq(Sample) /\ t \in Seq(Sample) /\ Len(s) \in Nat /\ Len(t) \in Nat
      /\ u \in Seq(Sample) /\ Len(u) = Len(s) + Len(t)
      /\ \A i \in 1..Len(u) : u[i] = IF i <= Len(s) THEN s[i] ELSE t[i - Len(s)]
  BY DEF IsSound
<1> HIDE DEF u
<1>2. \A i \in 1..Len(s) : i \in 1..Len(u) /\ u[i] = s[i]
  BY <1>1
<1>3. \A i \in 1..Len(t) : Len(s) + i \in 1..Len(u) /\ u[Len(s) + i] = t[i]
  <2> SUFFICES ASSUME NEW i \in 1..Len(t)
               PROVE  Len(s) + i \in 1..Len(u) /\ u[Len(s) + i] = t[i]
    OBVIOUS
  <2>1. Len(s) + i \in 1..Len(u) /\ ~(Len(s) + i <= Len(s)) /\ Len(s) + i - Len(s) = i
    BY <1>1
  <2>2. QED
    BY <1>1, <2>1
<1>4. \A i \in 1..Len(u) : i \in 1..Len(s) \/ (i - Len(s) \in 1..Len(t) /\ Len(s) + (i - Len(s)) = i)
  BY <1>1
<1>5. \A i \in 1..Len(u) : \/ i \in 1..Len(s) /\ u[i] = s[i]
                           \/ i > Len(s) /\ i - Len(s) \in 1..Len(t) /\ u[i] = t[i - Len(s)]
  BY <1>1, <1>4
<1>6. PlacesOf(u) = PlacesOf(s) \cup PlacesOf(t)
  BY <1>2, <1>3, <1>5 DEF PlacesOf
<1>7. Ascends(u)
  <2> SUFFICES ASSUME NEW i \in 1..Len(u), NEW j \in 1..Len(u), i < j
               PROVE  u[i].place < u[j].place
    BY DEF Ascends
  <2>1. CASE j \in 1..Len(s)
    <3>1. i \in 1..Len(s)
      BY <1>1, <2>1
    <3>2. QED
      BY <1>2, <2>1, <3>1 DEF IsSound, Ascends
  <2>2. CASE i > Len(s)
    <3>1. i - Len(s) \in 1..Len(t) /\ j - Len(s) \in 1..Len(t) /\ i - Len(s) < j - Len(s)
          /\ u[i] = t[i - Len(s)] /\ u[j] = t[j - Len(s)]
      BY <1>1, <1>5, <2>2
    <3>2. QED
      BY <3>1 DEF IsSound, Ascends
  <2>3. CASE i \in 1..Len(s) /\ j > Len(s)
    <3>1. j - Len(s) \in 1..Len(t) /\ u[i] = s[i] /\ u[j] = t[j - Len(s)]
      BY <1>1, <1>5, <2>3
    <3>2. u[i].place \in PlacesOf(s) /\ u[j].place \in PlacesOf(t)
      BY <2>3, <3>1 DEF PlacesOf
    <3>3. QED
      BY <3>2 DEF Precede
  <2>4. QED
    BY <1>1, <1>4, <2>1, <2>2, <2>3
<1>8. IsSound(u)
  BY <1>1, <1>7 DEF IsSound
<1>9. QED
  BY <1>6, <1>8 DEF u

(* Levels may change.                                                      *)
LEMMA ReshapesSounds ==
  ASSUME NEW s, IsSound(s), NEW t, t \in Seq(Sample), Len(t) = Len(s),
         \A i \in 1..Len(s) : t[i].place = s[i].place
  PROVE  IsSound(t) /\ PlacesOf(t) = PlacesOf(s)
  BY DEF IsSound, Ascends, PlacesOf

QuietPlaces(s) == {s[i].place : i \in {j \in 1..Len(s) : ~Loud(s[j])}}

(* Stripping silence leaves a sound, and takes the quiet samples.          *)
LEMMA KeepsTheLoud ==
  ASSUME NEW s, IsSound(s), NEW L, L = PlacesOf(OnlyLoud(s))
  PROVE  /\ IsSound(OnlyLoud(s))
         /\ L \cup QuietPlaces(s) = PlacesOf(s) /\ L \cap QuietPlaces(s) = {}
<1> DEFINE n == Len(s)
           K == {i \in 1..n : Loud(s[i])}
<1>1. s \in Seq(Sample) /\ n \in Nat /\ DOMAIN s = 1..n /\ \A i \in 1..n : s[i] \in Sample
  BY DEF IsSound
<1>2. [i \in DOMAIN s |-> IF Loud(s[i]) THEN <<s[i]>> ELSE << >>]
        = [i \in 1..n |-> IF i \in K THEN <<s[i]>> ELSE << >>]
  BY <1>1
<1>3. \A i \in 1..n : i \in K <=> Loud(s[i])
  OBVIOUS
<1>4. K \subseteq 1..n
  OBVIOUS
<1> HIDE DEF n, K
<1>19. OnlyLoud(s) = FlattenSeq(Leaving(s, K, n))
  BY <1>2 DEF OnlyLoud, Leaving, Left
<1>20. n \in Nat
  BY <1>1
<1>5. PICK g : IsSelection(g, K, n) /\ FlattenSeq(Leaving(s, K, n)) = Chosen(s, g)
  BY <1>20, FlattenSelects
<1>6. OnlyLoud(s) = Chosen(s, g)
  BY <1>5, <1>19
<1>7. Len(g) \in Nat /\ g \in Seq(1..n) /\ \A m \in 1..Len(g) : g[m] \in 1..n /\ g[m] \in K
  <2>1. IsSelection(g, K, n)
    BY <1>5
  <2>2. g \in Seq(1..n) /\ \A m \in 1..Len(g) : g[m] \in K
    BY <2>1 DEF IsSelection
  <2>3. QED
    BY <1>20, <2>2
<1> DEFINE t == Chosen(s, g)
<1>8. t \in Seq(Sample) /\ Len(t) = Len(g) /\ \A m \in 1..Len(g) : t[m] = s[g[m]]
  <2>1. \A m \in 1..Len(g) : s[g[m]] \in Sample
    BY <1>1, <1>7
  <2>2. QED
    BY <1>7, <2>1 DEF Chosen
<1> HIDE DEF t
<1>9. \A i, j \in 1..n : i < j => s[i].place < s[j].place
  BY DEF IsSound, Ascends, n
<1>10. \A i, j \in 1..Len(g) : i < j => g[i] < g[j]
  BY <1>5 DEF IsSelection
<1>11. Ascends(t)
  <2> SUFFICES ASSUME NEW i \in 1..Len(g), NEW j \in 1..Len(g), i < j
               PROVE  t[i].place < t[j].place
    BY <1>8 DEF Ascends
  <2>1. g[i] < g[j] /\ g[i] \in 1..n /\ g[j] \in 1..n
    BY <1>7, <1>10
  <2>2. QED
    BY <1>8, <1>9, <2>1
<1>12. PlacesOf(t) = {s[k].place : k \in K}
  <2>1. \A k \in K : \E m \in 1..Len(g) : g[m] = k
    <3>1. \A k \in 1..n : k \in K => \E m \in 1..Len(g) : g[m] = k
      BY <1>5 DEF IsSelection
    <3>2. QED
      BY <1>4, <3>1
  <2>2. \A k \in K : s[k].place \in PlacesOf(t)
    BY <1>8, <2>1 DEF PlacesOf
  <2>3. \A m \in 1..Len(g) : t[m].place = s[g[m]].place /\ g[m] \in K
    BY <1>7, <1>8
  <2>4. \A p \in PlacesOf(t) : p \in {s[k].place : k \in K}
    BY <1>8, <2>3 DEF PlacesOf
  <2>5. QED
    BY <2>2, <2>4
<1>13. \A i, j \in 1..n : i # j => s[i].place # s[j].place
  <2>1. \A i, j \in 1..n : i # j => i < j \/ j < i
    BY <1>1
  <2>2. \A i \in 1..n : s[i].place \in Nat
    BY <1>1 DEF Sample
  <2>3. QED
    BY <1>9, <2>1, <2>2
<1>14. PlacesOf(s) = {s[i].place : i \in 1..n} /\ QuietPlaces(s) = {s[i].place : i \in (1..n) \ K}
  <2>1. {j \in 1..n : ~Loud(s[j])} = (1..n) \ K
    BY <1>3, <1>4
  <2>2. QED
    BY <2>1 DEF PlacesOf, QuietPlaces, n
<1>15. IsSound(t) /\ L = PlacesOf(t)
  BY <1>6, <1>8, <1>11 DEF IsSound, t
<1>16. L \cup QuietPlaces(s) = PlacesOf(s)
  BY <1>4, <1>12, <1>14, <1>15
<1>17. L \cap QuietPlaces(s) = {}
  <2>1. \A i \in K, j \in (1..n) \ K : s[i].place # s[j].place
    BY <1>4, <1>13
  <2>2. QED
    BY <1>12, <1>14, <1>15, <2>1
<1>18. QED
  BY <1>6, <1>15, <1>16, <1>17 DEF t

(* What is recorded of samples that a call has removed.                    *)
LEMMA PlacesRemoved ==
  ASSUME NEW s, IsSound(s), NEW why
  PROVE  /\ {d.sample.place : d \in Because(s, why)} = PlacesOf(s)
         /\ {d.sample.place : d \in {e \in Because(s, why) : ~Loud(e.sample)}} = QuietPlaces(s)
         /\ {t.place : t \in ToSet(s)} = PlacesOf(s)
         /\ \A d \in Because(s, why) : d.why = why /\ \E i \in 1..Len(s) : d.sample = s[i]
<1>1. DOMAIN s = 1..Len(s)
  BY DEF IsSound
<1>2. ToSet(s) = {s[i] : i \in 1..Len(s)}
  BY <1>1 DEF ToSet
<1>3. Because(s, why) = {[sample |-> t, why |-> why] : t \in {s[i] : i \in 1..Len(s)}}
  BY <1>2 DEF Because
<1>4. \A d \in Because(s, why) : d.why = why /\ \E i \in 1..Len(s) : d.sample = s[i]
  BY <1>3
<1>5. \A i \in 1..Len(s) : \E d \in Because(s, why) : d.sample = s[i]
  <2> SUFFICES ASSUME NEW i \in 1..Len(s)
               PROVE  \E d \in Because(s, why) : d.sample = s[i]
    OBVIOUS
  <2>1. [sample |-> s[i], why |-> why] \in Because(s, why)
    BY <1>3
  <2>2. QED
    BY <2>1
<1>6. {d.sample.place : d \in Because(s, why)} = PlacesOf(s)
  BY <1>4, <1>5 DEF PlacesOf
<1>7. {d.sample.place : d \in {e \in Because(s, why) : ~Loud(e.sample)}} = QuietPlaces(s)
  <2>1. \A d \in {e \in Because(s, why) : ~Loud(e.sample)} : \E i \in 1..Len(s) : ~Loud(s[i]) /\ d.sample = s[i]
    BY <1>4
  <2>2. \A i \in 1..Len(s) : ~Loud(s[i]) =>
          \E d \in {e \in Because(s, why) : ~Loud(e.sample)} : d.sample = s[i]
    BY <1>5
  <2>3. \A p \in QuietPlaces(s) : p \in {d.sample.place : d \in {e \in Because(s, why) : ~Loud(e.sample)}}
    BY <2>2 DEF QuietPlaces
  <2>4. QED
    BY <2>1, <2>3 DEF QuietPlaces
<1>8. {t.place : t \in ToSet(s)} = PlacesOf(s)
  BY <1>2 DEF PlacesOf
<1>9. QED
  BY <1>4, <1>6, <1>7, <1>8

-----------------------------------------------------------------------------
(* Steps.                                                                  *)

(* A call that leaves the other buffer alone splits the samples held in    *)
(* those it keeps, hands out and drops.                                    *)
LEMMA SoundIsKept ==
  ASSUME BufferInv, IsSound(held'), NEW X, NEW Y,
         PlacesOf(held') \cup X \cup Y = PlacesOf(held),
         PlacesOf(held') \cap X = {}, PlacesOf(held') \cap Y = {}, X \cap Y = {},
         HandedPlaces' = HandedPlaces \cup X, DroppedPlaces' = DroppedPlaces \cup Y,
         second' = second, channels' = channels, NothingAudibleIsTrimmed'
  PROVE  BufferInv'
<1> DEFINE H == PlacesOf(held)
           S == PlacesOf(second)
           R == HandedPlaces
           D == DroppedPlaces
<1>1. Separate(H, S, R, D) /\ Precede(H, S) /\ IsSound(second) /\ channels \in {1, 2}
  BY DEF BufferInv
<1>2. PICK N \in Nat : H \cup S \cup R \cup D = 1..N
  BY DEF BufferInv
<1>3. PlacesOf(second)' = S
  OBVIOUS
<1>4. PlacesOf(held') \subseteq H
  OBVIOUS
<1>5. Precede(PlacesOf(held'), S)
  BY <1>1, <1>4 DEF Precede
<1> HIDE DEF H, S, R, D
<1> DEFINE h == PlacesOf(held')
<1>6. h \cup X \cup Y = H /\ h \cap X = {} /\ h \cap Y = {} /\ X \cap Y = {}
  BY DEF H
<1> HIDE DEF h
<1>7. Separate(h, S, R \cup X, D \cup Y)
  BY <1>1, <1>6 DEF Separate
<1>8. h \cup S \cup (R \cup X) \cup (D \cup Y) = 1..N
  BY <1>2, <1>6
<1>9. Separate(PlacesOf(held'), PlacesOf(second'), HandedPlaces', DroppedPlaces')
  BY <1>7 DEF h, S, R, D
<1>10. PlacesOf(held') \cup PlacesOf(second') \cup HandedPlaces' \cup DroppedPlaces' = 1..N
  BY <1>8 DEF h, S, R, D
<1>11. IsSound(second') /\ channels' \in {1, 2} /\ Precede(PlacesOf(held'), PlacesOf(second'))
  BY <1>1, <1>5 DEF S
<1>12. \E M \in Nat : PlacesOf(held') \cup PlacesOf(second') \cup HandedPlaces' \cup DroppedPlaces' = 1..M
  BY <1>10
<1>13. QED
  BY <1>9, <1>11, <1>12 DEF BufferInv

LEMMA BufferFacts ==
  ASSUME BufferInv
  PROVE  /\ IsSound(held) /\ IsSound(second) /\ held \in Seq(Sample) /\ second \in Seq(Sample)
         /\ Len(held) \in Nat /\ Len(second) \in Nat /\ channels \in {1, 2}
         /\ \A i \in 1..Len(held) : held[i] \in Sample /\ held[i].level \in Int
         /\ \A i \in 1..Len(second) : second[i] \in Sample
         /\ DOMAIN held = 1..Len(held)
<1>1. held \in Seq(Sample) /\ second \in Seq(Sample)
  BY DEF BufferInv, IsSound
<1>2. \A i \in 1..Len(held) : held[i] \in Sample
  BY <1>1
<1>3. \A s \in Sample : s.level \in Int
  BY DEF Sample
<1>4. QED
  BY <1>1, <1>2, <1>3 DEF BufferInv

LEMMA ChangesKeep ==
  ASSUME BufferInv, NEW samples, Changes(samples),
         samples \in Seq(Sample), Len(samples) = Len(held),
         \A i \in 1..Len(held) : samples[i].place = held[i].place
  PROVE  BufferInv'
<1>1. IsSound(samples) /\ PlacesOf(samples) = PlacesOf(held)
  BY BufferFacts, ReshapesSounds
<1>2. held' = samples /\ second' = second /\ channels' = channels /\ handed' = handed /\ dropped' = dropped
  BY DEF Changes
<1>3. HandedPlaces' = HandedPlaces \cup {} /\ DroppedPlaces' = DroppedPlaces \cup {}
  BY <1>2 DEF HandedPlaces, DroppedPlaces
<1>4. NothingAudibleIsTrimmed'
  BY <1>2 DEF BufferInv, NothingAudibleIsTrimmed
<1>5. /\ IsSound(held')
      /\ PlacesOf(held') \cup {} \cup {} = PlacesOf(held)
      /\ PlacesOf(held') \cap {} = {}
  BY <1>1, <1>2
<1>6. QED
  BY <1>2, <1>3, <1>4, <1>5, SoundIsKept

LEMMA TakeAllKeeps ==
  ASSUME BufferInv, TakeAll PROVE BufferInv'
<1>1. /\ held' = << >> /\ handed' = handed \cup ToSet(held)
      /\ second' = second /\ channels' = channels /\ dropped' = dropped
  BY DEF TakeAll
<1>2. {t.place : t \in ToSet(held)} = PlacesOf(held)
  BY BufferFacts, PlacesRemoved
<1>3. HandedPlaces' = HandedPlaces \cup PlacesOf(held) /\ DroppedPlaces' = DroppedPlaces \cup {}
  BY <1>1, <1>2 DEF HandedPlaces, DroppedPlaces
<1>4. NothingAudibleIsTrimmed'
  BY <1>1 DEF BufferInv, NothingAudibleIsTrimmed
<1>5. IsSound(held') /\ PlacesOf(held') = {}
  BY <1>1, NothingIsASound
<1>6. /\ PlacesOf(held') \cup PlacesOf(held) \cup {} = PlacesOf(held)
      /\ PlacesOf(held') \cap PlacesOf(held) = {} /\ PlacesOf(held') \cap {} = {}
      /\ PlacesOf(held) \cap {} = {}
  BY <1>5
<1>7. QED
  BY <1>1, <1>3, <1>4, <1>5, <1>6, SoundIsKept

(* A call's range, cut down to the buffer.                                 *)
LEMMA RangesCut ==
  ASSUME NEW s, IsSound(s), NEW start \in Nat, NEW end \in Nat,
         NEW last, last = AtMost(end, Len(s)), NEW first, first = AtMost(start, last)
  PROVE  CutAt(s, first, last)
<1>1. Len(s) \in Nat
  BY DEF IsSound
<1>2. last \in 0..Len(s)
  BY <1>1 DEF AtMost
<1>3. first \in 0..last
  BY <1>2 DEF AtMost
<1>4. QED
  BY <1>2, <1>3 DEF CutAt

LEMMA TakeRangeKeeps ==
  ASSUME BufferInv, NEW start \in Nat, NEW end \in Nat, TakeRange(start, end)
  PROVE  BufferInv'
<1> DEFINE last == AtMost(end, Len(held))
           first == AtMost(start, last)
           a == SubSeq(held, 1, first)
           b == SubSeq(held, first + 1, last)
           c == SubSeq(held, last + 1, Len(held))
           B == PlacesOf(b)
<1>1. /\ held' = a \o c /\ handed' = handed \cup ToSet(b)
      /\ second' = second /\ channels' = channels /\ dropped' = dropped
  BY DEF TakeRange
<1>2. CutAt(held, first, last)
  BY BufferFacts, RangesCut
<1>3. /\ IsSound(a) /\ IsSound(b) /\ IsSound(c) /\ PlacesOf(held) \subseteq Nat
      /\ PlacesOf(a) \cup B \cup PlacesOf(c) = PlacesOf(held)
      /\ Precede(PlacesOf(a), B) /\ Precede(PlacesOf(a), PlacesOf(c)) /\ Precede(B, PlacesOf(c))
  BY <1>2, CutsInThree
<1> HIDE DEF a, b, c
<1>4. IsSound(held') /\ PlacesOf(held') = PlacesOf(a) \cup PlacesOf(c)
  BY <1>1, <1>3, JoinsSounds
<1>5. {t.place : t \in ToSet(b)} = B
  BY <1>3, PlacesRemoved
<1>6. HandedPlaces' = HandedPlaces \cup B /\ DroppedPlaces' = DroppedPlaces \cup {}
  BY <1>1, <1>5 DEF HandedPlaces, DroppedPlaces
<1>7. NothingAudibleIsTrimmed'
  BY <1>1 DEF BufferInv, NothingAudibleIsTrimmed
<1> HIDE DEF B
<1>8. PlacesOf(a) \cap B = {} /\ B \cap PlacesOf(c) = {}
  BY <1>3, PrecedingIsApart
<1>9. /\ PlacesOf(held') \cup B \cup {} = PlacesOf(held)
      /\ PlacesOf(held') \cap B = {} /\ PlacesOf(held') \cap {} = {} /\ B \cap {} = {}
  BY <1>3, <1>4, <1>8
<1>10. QED
  BY <1>1, <1>4, <1>6, <1>7, <1>9, SoundIsKept

LEMMA LoudOrInaudible ==
  ASSUME NEW s, ~Loud(s) PROVE ~Audible(s)
  BY DEF Loud, Audible, IsNumber, Infinite, NotANumber

LEMMA StripSilenceKeeps ==
  ASSUME BufferInv, NEW start \in Nat, NEW end \in Nat, StripSilence(start, end)
  PROVE  BufferInv'
<1> DEFINE last == AtMost(end, Len(held))
           first == AtMost(start, last)
           a == SubSeq(held, 1, first)
           b == SubSeq(held, first + 1, last)
           c == SubSeq(held, last + 1, Len(held))
           l == OnlyLoud(b)
           gone == {d \in Because(b, "silence") : ~Loud(d.sample)}
           A == PlacesOf(a)
           B == PlacesOf(b)
           C == PlacesOf(c)
           L == PlacesOf(l)
           Q == QuietPlaces(b)
<1>1. /\ held' = a \o l \o c /\ dropped' = dropped \cup gone
      /\ second' = second /\ channels' = channels /\ handed' = handed
  BY DEF StripSilence
<1>2. CutAt(held, first, last)
  BY BufferFacts, RangesCut
<1>3. /\ IsSound(a) /\ IsSound(b) /\ IsSound(c) /\ PlacesOf(held) \subseteq Nat
      /\ A \cup B \cup C = PlacesOf(held)
      /\ Precede(A, B) /\ Precede(A, C) /\ Precede(B, C)
  BY <1>2, CutsInThree
<1> HIDE DEF a, b, c
<1>4. IsSound(l) /\ L \cup Q = B /\ L \cap Q = {}
  BY <1>3, KeepsTheLoud
<1>5. {d.sample.place : d \in gone} = Q /\ \A d \in gone : ~Audible(d.sample)
  BY <1>3, PlacesRemoved, LoudOrInaudible
<1> HIDE DEF l
<1>6. DroppedPlaces' = DroppedPlaces \cup Q /\ HandedPlaces' = HandedPlaces \cup {}
  BY <1>1, <1>5 DEF HandedPlaces, DroppedPlaces
<1>7. NothingAudibleIsTrimmed'
  BY <1>1, <1>5 DEF BufferInv, NothingAudibleIsTrimmed
<1> HIDE DEF A, B, C, L, Q
<1>8. Precede(A, L) /\ Precede(L, C)
  BY <1>3, <1>4 DEF Precede
<1>9. IsSound(a \o l) /\ PlacesOf(a \o l) = A \cup L
  BY <1>3, <1>4, <1>8, JoinsSounds DEF A, L
<1>10. Precede(A \cup L, C)
  BY <1>3, <1>8 DEF Precede
<1>11. IsSound((a \o l) \o c) /\ PlacesOf((a \o l) \o c) = A \cup L \cup C
  <2>1. Precede(PlacesOf(a \o l), PlacesOf(c))
    BY <1>9, <1>10 DEF C
  <2>2. IsSound(a \o l) /\ IsSound(c)
    BY <1>3, <1>9
  <2> DEFINE al == a \o l
  <2> HIDE DEF al
  <2>3. IsSound(al \o c) /\ PlacesOf(al \o c) = PlacesOf(al) \cup PlacesOf(c)
    BY <2>1, <2>2, JoinsSounds DEF al
  <2>4. QED
    BY <1>9, <2>3 DEF al, C
<1>12. A \cap B = {} /\ B \cap C = {}
  BY <1>3, PrecedingIsApart
<1>13. IsSound(held') /\ PlacesOf(held') = A \cup L \cup C
  BY <1>1, <1>11
<1>14. /\ PlacesOf(held') \cup {} \cup Q = PlacesOf(held)
       /\ PlacesOf(held') \cap {} = {} /\ PlacesOf(held') \cap Q = {} /\ {} \cap Q = {}
  BY <1>3, <1>4, <1>12, <1>13
<1>15. QED
  BY <1>1, <1>6, <1>7, <1>13, <1>14, SoundIsKept

(* The frame a sample is in.                                               *)
LEMMA FramesOf ==
  ASSUME NEW n \in Nat, NEW c \in {1, 2}, NEW whole, whole = n - (n % c)
  PROVE  /\ whole \in 0..n /\ n \div c \in Nat
         /\ \A f \in 0..(n \div c) : f * c \in 0..whole
         /\ \A i \in 1..whole : /\ (i - 1) \div c + 1 \in 1..(n \div c)
                                /\ i <= ((i - 1) \div c + 1) * c
<1>1. CASE c = 1
  BY <1>1
<1>2. CASE c = 2
  BY <1>2
<1>3. QED
  BY <1>1, <1>2

LEMMA LastFrame ==
  ASSUME BufferInv
  PROVE  /\ LastActiveFrame \in 0..(Len(held) \div channels)
         /\ \A f \in ActiveFrames : f <= LastActiveFrame
<1> DEFINE n == Len(held) \div channels
           S == {0} \cup ActiveFrames
<1>1. n \in Nat
  BY BufferFacts, FramesOf
<1>2. S \subseteq 0..n /\ S # {}
  BY <1>1 DEF ActiveFrames
<1> HIDE DEF n, S
<1>3. Max(S) \in S /\ \A y \in S : y <= Max(S)
  BY <1>1, <1>2, MaxIsGreatest
<1>4. LastActiveFrame = Max(S)
  BY DEF LastActiveFrame, S
<1>5. LastActiveFrame \in 0..n /\ \A f \in ActiveFrames : f <= LastActiveFrame
  BY <1>2, <1>3, <1>4 DEF S
<1>6. QED
  BY <1>5 DEF n

(* What trimming removes, whether or not what is left is faded out.        *)
LEMMA TrimsInaudible ==
  ASSUME BufferInv
  PROVE  LET a == SubSeq(held, 1, KeptByTrimming)
             Y == {d.sample.place : d \in Trimming}
         IN /\ IsSound(a) /\ PlacesOf(a) \cup Y = PlacesOf(held) /\ PlacesOf(a) \cap Y = {}
            /\ \A d \in Trimming : d.why = "silence" => ~Audible(d.sample)
<1> DEFINE whole == Len(held) - (Len(held) % channels)
           kept == KeptByTrimming
           a == SubSeq(held, 1, kept)
           b == SubSeq(held, kept + 1, whole)
           c == SubSeq(held, whole + 1, Len(held))
           A == PlacesOf(a)
           B == PlacesOf(b)
           C == PlacesOf(c)
           Y == {d.sample.place : d \in Trimming}
<1>1. /\ Len(held) \in Nat /\ channels \in {1, 2} /\ IsSound(held)
      /\ held \in Seq(Sample)
  BY BufferFacts
<1>2. /\ whole \in 0..Len(held)
      /\ \A f \in 0..(Len(held) \div channels) : f * channels \in 0..whole
      /\ \A i \in 1..whole : /\ (i - 1) \div channels + 1 \in 1..(Len(held) \div channels)
                             /\ i <= ((i - 1) \div channels + 1) * channels
  BY <1>1, FramesOf
<1>3. kept \in 0..whole
  BY <1>2, LastFrame DEF KeptByTrimming
<1>4. CutAt(held, kept, whole)
  BY <1>1, <1>2, <1>3 DEF CutAt
<1>5. /\ IsSound(a) /\ IsSound(b) /\ IsSound(c) /\ PlacesOf(held) \subseteq Nat
      /\ A \cup B \cup C = PlacesOf(held)
      /\ Precede(A, B) /\ Precede(A, C) /\ Precede(B, C)
  BY <1>4, CutsInThree
<1>6. Trimming = Because(b, "silence") \cup Because(c, "no frame")
  BY DEF Trimming
<1>7. \A i \in 1..Len(b) : ~Audible(b[i])
  <2> SUFFICES ASSUME NEW i \in 1..Len(b), Audible(b[i]) PROVE FALSE
    OBVIOUS
  <2>0. whole \in Nat /\ kept \in Nat /\ whole <= Len(held)
    BY <1>1, <1>2, <1>3
  <2> DEFINE k == kept + i
  <2> HIDE DEF whole, kept
  <2>1. k \in 1..whole /\ k \in 1..Len(held) /\ b[i] = held[k] /\ k > kept
    BY <1>1, <2>0
  <2> HIDE DEF b
  <2> DEFINE f == (k - 1) \div channels + 1
  <2>2. f \in 1..(Len(held) \div channels) /\ k <= f * channels
    BY <1>2, <2>1
  <2>3. (k - 1) \div channels = f - 1
    <3>1. (k - 1) \div channels \in Int
      BY <1>1, <2>1
    <3>2. QED
      BY <3>1
  <2> HIDE DEF k, f
  <2>4. k \in DOMAIN held /\ Audible(held[k])
    BY <1>1, <2>1
  <2>5. f \in ActiveFrames
    BY <2>2, <2>3, <2>4 DEF ActiveFrames
  <2>6. f <= LastActiveFrame /\ LastActiveFrame \in Nat /\ f \in Nat
    BY <1>1, <2>2, <2>5, LastFrame
  <2>7. f * channels <= LastActiveFrame * channels
    BY <1>1, <2>6
  <2>8. kept = LastActiveFrame * channels
    BY DEF kept, KeptByTrimming
  <2>9. QED
    BY <1>1, <2>0, <2>1, <2>2, <2>6, <2>7, <2>8
<1> HIDE DEF a, b, c
<1>8. /\ {d.sample.place : d \in Because(b, "silence")} = B
      /\ \A d \in Because(b, "silence") : \E i \in 1..Len(b) : d.sample = b[i]
  BY <1>5, PlacesRemoved
<1>9. /\ {d.sample.place : d \in Because(c, "no frame")} = C
      /\ \A d \in Because(c, "no frame") : d.why = "no frame"
  BY <1>5, PlacesRemoved
<1>10. \A d \in Trimming : d.why = "silence" => ~Audible(d.sample)
  BY <1>6, <1>7, <1>8, <1>9
<1>11. Y = B \cup C
  BY <1>6, <1>8, <1>9
<1> HIDE DEF A, B, C, Y
<1>12. A \cap B = {} /\ A \cap C = {}
  <2>1. A \subseteq Nat /\ B \subseteq Nat /\ C \subseteq Nat
    BY <1>5
  <2>2. QED
    BY <1>5, <2>1, PrecedingIsApart
<1>13. A \cup Y = PlacesOf(held) /\ A \cap Y = {}
  BY <1>5, <1>11, <1>12
<1>14. QED
  BY <1>5, <1>10, <1>13 DEF a, A, Y

LEMMA TrimmingKeeps ==
  ASSUME BufferInv, IsSound(held'), PlacesOf(held') = PlacesOf(SubSeq(held, 1, KeptByTrimming)),
         dropped' = dropped \cup Trimming,
         second' = second, channels' = channels, handed' = handed
  PROVE  BufferInv'
<1> DEFINE A == PlacesOf(SubSeq(held, 1, KeptByTrimming))
           Y == {d.sample.place : d \in Trimming}
<1>1. /\ A \cup Y = PlacesOf(held) /\ A \cap Y = {}
      /\ \A d \in Trimming : d.why = "silence" => ~Audible(d.sample)
  BY TrimsInaudible
<1>2. DroppedPlaces' = DroppedPlaces \cup Y /\ HandedPlaces' = HandedPlaces \cup {}
  BY DEF HandedPlaces, DroppedPlaces
<1>3. NothingAudibleIsTrimmed'
  BY <1>1 DEF BufferInv, NothingAudibleIsTrimmed
<1>4. /\ PlacesOf(held') \cup {} \cup Y = PlacesOf(held)
      /\ PlacesOf(held') \cap {} = {} /\ PlacesOf(held') \cap Y = {} /\ {} \cap Y = {}
  BY <1>1
<1>5. QED
  BY <1>2, <1>3, <1>4, SoundIsKept

LEMMA FadesOut ==
  ASSUME NEW s, IsSound(s), NEW fade \in Nat
  PROVE  IsSound(FadedOut(s, fade)) /\ PlacesOf(FadedOut(s, fade)) = PlacesOf(s)
<1> DEFINE n == Len(s)
           span == AtMost(fade, n)
           t == FadedOut(s, fade)
<1>1. s \in Seq(Sample) /\ n \in Nat /\ DOMAIN s = 1..n /\ \A i \in 1..n : s[i] \in Sample
  BY DEF IsSound
<1>2. span \in Nat
  BY <1>1 DEF AtMost
<1>3. t = [i \in 1..n |-> IF n - i < span THEN Gained(s[i], n - i, span) ELSE s[i]]
  BY <1>1 DEF FadedOut
<1> HIDE DEF t, n, span
<1>4. \A i \in 1..n : n - i < span => Gained(s[i], n - i, span) \in Sample
                                      /\ Gained(s[i], n - i, span).place = s[i].place
  <2> SUFFICES ASSUME NEW i \in 1..n, n - i < span
               PROVE  /\ Gained(s[i], n - i, span) \in Sample
                      /\ Gained(s[i], n - i, span).place = s[i].place
    OBVIOUS
  <2>1. n - i \in Int /\ span \in Nat \ {0} /\ s[i] \in Sample
    BY <1>1, <1>2
  <2>2. QED
    BY <2>1, GainsLevels
<1>5. t \in Seq(Sample) /\ Len(t) = n /\ \A i \in 1..n : t[i].place = s[i].place
  <2>1. \A i \in 1..n : (IF n - i < span THEN Gained(s[i], n - i, span) ELSE s[i]) \in Sample
    BY <1>1, <1>4
  <2>2. t \in Seq(Sample) /\ Len(t) = n
    BY <1>1, <1>3, <2>1
  <2>3. \A i \in 1..n : t[i] = IF n - i < span THEN Gained(s[i], n - i, span) ELSE s[i]
    BY <1>3
  <2>4. QED
    BY <1>4, <2>2, <2>3
<1>6. QED
  BY <1>5, ReshapesSounds DEF n, t

LEMMA TrimTrailingSilenceKeeps ==
  ASSUME BufferInv, TrimTrailingSilence PROVE BufferInv'
<1>1. /\ held' = SubSeq(held, 1, KeptByTrimming) /\ dropped' = dropped \cup Trimming
      /\ second' = second /\ channels' = channels /\ handed' = handed
  BY DEF TrimTrailingSilence
<1>2. IsSound(held') /\ PlacesOf(held') = PlacesOf(SubSeq(held, 1, KeptByTrimming))
  BY <1>1, TrimsInaudible
<1>3. QED
  BY <1>1, <1>2, TrimmingKeeps

LEMMA ShapeOutputKeeps ==
  ASSUME BufferInv, NEW fade \in Nat, ShapeOutput(fade) PROVE BufferInv'
<1> DEFINE a == SubSeq(held, 1, KeptByTrimming)
<1>1. /\ held' = FadedOut(a, fade) /\ dropped' = dropped \cup Trimming
      /\ second' = second /\ channels' = channels /\ handed' = handed
  BY DEF ShapeOutput
<1>2. IsSound(a)
  BY TrimsInaudible
<1>3. IsSound(held') /\ PlacesOf(held') = PlacesOf(a)
  BY <1>1, <1>2, FadesOut
<1>4. QED
  BY <1>1, <1>3, TrimmingKeeps

(* A second buffer is taken in: what of it is not held has been mixed.     *)
LEMMA SecondIsTaken ==
  ASSUME BufferInv, IsSound(held'), second' = << >>, channels' = channels,
         handed' = handed, NEW Y, PlacesOf(held') \cup Y = PlacesOf(held) \cup PlacesOf(second),
         PlacesOf(held') \cap Y = {}, DroppedPlaces' = DroppedPlaces \cup Y,
         NothingAudibleIsTrimmed'
  PROVE  BufferInv'
<1> DEFINE H == PlacesOf(held)
           S == PlacesOf(second)
           R == HandedPlaces
           D == DroppedPlaces
           h == PlacesOf(held')
<1>1. Separate(H, S, R, D) /\ channels \in {1, 2}
  BY DEF BufferInv
<1>2. PICK N \in Nat : H \cup S \cup R \cup D = 1..N
  BY DEF BufferInv
<1>3. IsSound(second') /\ PlacesOf(second') = {}
  BY NothingIsASound
<1>4. h \cup Y = H \cup S /\ h \cap Y = {}
  OBVIOUS
<1>5. HandedPlaces' = R
  BY DEF HandedPlaces
<1> HIDE DEF H, S, R, D, h
<1>6. Separate(h, {}, R, D \cup Y) /\ h \cup {} \cup R \cup (D \cup Y) = 1..N
  BY <1>1, <1>2, <1>4 DEF Separate
<1>7. Separate(PlacesOf(held'), PlacesOf(second'), HandedPlaces', DroppedPlaces')
  BY <1>3, <1>5, <1>6 DEF h, D
<1>8. PlacesOf(held') \cup PlacesOf(second') \cup HandedPlaces' \cup DroppedPlaces' = 1..N
  BY <1>3, <1>5, <1>6 DEF h, D
<1>9. Precede(PlacesOf(held'), PlacesOf(second')) /\ channels' \in {1, 2}
  BY <1>1, <1>3 DEF Precede
<1>10. \E M \in Nat : PlacesOf(held') \cup PlacesOf(second') \cup HandedPlaces' \cup DroppedPlaces' = 1..M
  BY <1>8
<1>11. QED
  BY <1>3, <1>7, <1>9, <1>10 DEF BufferInv

LEMMA MergeKeeps ==
  ASSUME BufferInv, Merge PROVE BufferInv'
<1>1. /\ held' = held \o second /\ second' = << >>
      /\ channels' = channels /\ handed' = handed /\ dropped' = dropped
  BY DEF Merge
<1>2. IsSound(held) /\ IsSound(second) /\ Precede(PlacesOf(held), PlacesOf(second))
  BY DEF BufferInv
<1>3. IsSound(held') /\ PlacesOf(held') = PlacesOf(held) \cup PlacesOf(second)
  BY <1>1, <1>2, JoinsSounds
<1>4. DroppedPlaces' = DroppedPlaces \cup {}
  BY <1>1 DEF DroppedPlaces
<1>5. NothingAudibleIsTrimmed'
  BY <1>1 DEF BufferInv, NothingAudibleIsTrimmed
<1>6. /\ PlacesOf(held') \cup {} = PlacesOf(held) \cup PlacesOf(second)
      /\ PlacesOf(held') \cap {} = {}
  BY <1>3
<1>7. QED
  BY <1>1, <1>3, <1>4, <1>5, <1>6, SecondIsTaken

LEMMA OverlapWithKeeps ==
  ASSUME BufferInv, NEW overlap \in Nat, OverlapWith(overlap) PROVE BufferInv'
<1> DEFINE n == AtMost(overlap, AtMost(Len(held), Len(second)))
           start == Len(held) - n
           Mix(k) == IF n = 1 THEN Mixed(held[start + 1], second[1], 1, 2)
                     ELSE Mixed(held[start + k], second[k], k - 1, n - 1)
           m == [k \in 1..n |-> Mix(k)]
           a == SubSeq(held, 1, start)
           b == SubSeq(held, start + 1, Len(held))
           d == SubSeq(second, 1, n)
           c == SubSeq(second, n + 1, Len(second))
           A == PlacesOf(a)
           B == PlacesOf(b)
           C == PlacesOf(c)
           Y == PlacesOf(d)
<1>1. /\ held' = a \o m \o c /\ second' = << >>
      /\ dropped' = dropped \cup Because(d, "mixed")
      /\ channels' = channels /\ handed' = handed
  BY DEF OverlapWith
<1>2. /\ IsSound(held) /\ IsSound(second) /\ Len(held) \in Nat /\ Len(second) \in Nat
      /\ \A i \in 1..Len(held) : held[i] \in Sample
      /\ \A i \in 1..Len(second) : second[i] \in Sample
  BY BufferFacts
<1>3. n \in 0..Len(held) /\ n \in 0..Len(second)
  BY <1>2 DEF AtMost
<1> HIDE DEF n
<1>4. start \in 0..Len(held) /\ start + n = Len(held) /\ start \in Nat /\ n \in Nat
  BY <1>2, <1>3
<1>5. CutAt(held, start, Len(held)) /\ CutAt(second, n, n)
  BY <1>2, <1>3, <1>4 DEF CutAt
<1> HIDE DEF start
<1>6. /\ IsSound(a) /\ IsSound(b) /\ A \cup B \cup PlacesOf(SubSeq(held, Len(held) + 1, Len(held))) = PlacesOf(held)
      /\ Precede(A, B)
  BY <1>5, CutsInThree
<1>7. /\ IsSound(d) /\ IsSound(c) /\ PlacesOf(second) \subseteq Nat
      /\ Y \cup PlacesOf(SubSeq(second, n + 1, n)) \cup C = PlacesOf(second)
      /\ Precede(Y, C)
  BY <1>5, CutsInThree
<1>8. PlacesOf(SubSeq(held, Len(held) + 1, Len(held))) = {} /\ PlacesOf(SubSeq(second, n + 1, n)) = {}
  <2>1. SubSeq(held, Len(held) + 1, Len(held)) = << >> /\ SubSeq(second, n + 1, n) = << >>
    BY <1>2, <1>4
  <2>2. QED
    BY <2>1, NothingIsASound
<1>9. A \cup B = PlacesOf(held) /\ Y \cup C = PlacesOf(second)
  BY <1>6, <1>7, <1>8
<1>10. \A k \in 1..n : Mix(k) \in Sample /\ Mix(k).place = held[start + k].place
  <2> SUFFICES ASSUME NEW k \in 1..n
               PROVE  Mix(k) \in Sample /\ Mix(k).place = held[start + k].place
    OBVIOUS
  <2>1. start + k \in 1..Len(held) /\ k \in 1..Len(second)
    BY <1>2, <1>3, <1>4
  <2>2. held[start + k] \in Sample /\ second[k] \in Sample
    BY <1>2, <2>1
  <2>3. CASE n = 1
    <3>1. k = 1
      BY <2>3
    <3>2. QED
      BY <2>2, <2>3, <3>1, MixesLevels
  <2>4. CASE n # 1
    <3>1. k - 1 \in Int /\ n - 1 \in Nat \ {0}
      BY <1>4, <2>4
    <3>2. QED
      BY <2>2, <2>4, <3>1, MixesLevels
  <2>5. QED
    BY <2>3, <2>4
<1> HIDE DEF Mix
<1>11. m \in Seq(Sample) /\ Len(m) = n /\ \A k \in 1..n : m[k].place = held[start + k].place
  BY <1>4, <1>10
<1>12. Len(b) = n /\ \A k \in 1..n : b[k] = held[start + k]
  <2>1. start + 1 \in Int /\ Len(held) \in Int /\ Len(held) - (start + 1) + 1 = n
    BY <1>2, <1>4
  <2>2. held \in Seq(Sample)
    BY BufferFacts
  <2>3. QED
    BY <1>2, <1>4, <2>1, <2>2
<1> HIDE DEF a, b, c, d, m
<1>13. IsSound(m) /\ PlacesOf(m) = B
  BY <1>6, <1>11, <1>12, ReshapesSounds
<1>14. IsSound(a \o m) /\ PlacesOf(a \o m) = PlacesOf(held)
  BY <1>6, <1>9, <1>13, JoinsSounds
<1>15. Precede(PlacesOf(held), PlacesOf(second)) /\ PlacesOf(held) \cap PlacesOf(second) = {}
  BY DEF BufferInv, Separate
<1>16. Precede(PlacesOf(a \o m), PlacesOf(c))
  BY <1>9, <1>14, <1>15 DEF Precede
<1> DEFINE am == a \o m
<1> HIDE DEF am
<1>17. IsSound(am \o c) /\ PlacesOf(am \o c) = PlacesOf(am) \cup PlacesOf(c)
  BY <1>7, <1>14, <1>16, JoinsSounds DEF am
<1>18. IsSound(held') /\ PlacesOf(held') = PlacesOf(held) \cup C
  BY <1>1, <1>14, <1>17 DEF am
<1>19. /\ {e.sample.place : e \in Because(d, "mixed")} = Y
       /\ \A e \in Because(d, "mixed") : e.why = "mixed"
  BY <1>7, PlacesRemoved
<1>20. DroppedPlaces' = DroppedPlaces \cup Y
  BY <1>1, <1>19 DEF DroppedPlaces
<1>21. NothingAudibleIsTrimmed'
  BY <1>1, <1>19 DEF BufferInv, NothingAudibleIsTrimmed
<1> HIDE DEF A, B, C, Y
<1>22. C \cap Y = {}
  <2>1. C \subseteq Nat /\ Y \subseteq Nat
    BY <1>7, <1>9
  <2>2. QED
    BY <1>7, <2>1, PrecedingIsApart
<1>23. PlacesOf(held') \cup Y = PlacesOf(held) \cup PlacesOf(second) /\ PlacesOf(held') \cap Y = {}
  BY <1>9, <1>15, <1>18, <1>22
<1>24. QED
  BY <1>1, <1>18, <1>20, <1>21, <1>23, SecondIsTaken

-----------------------------------------------------------------------------
(* Calls that change levels.                                               *)

Loudest == Max({0} \cup {Size(s) : s \in {t \in ToSet(held) : IsNumber(t)}})

LEMMA LoudestIsNatural ==
  ASSUME BufferInv PROVE Loudest \in Nat
<1> DEFINE n == Len(held)
           f == [i \in 1..n |-> Size(held[i])]
           S == {0} \cup {Size(s) : s \in {t \in ToSet(held) : IsNumber(t)}}
<1>1. n \in Nat /\ DOMAIN held = 1..n /\ \A i \in 1..n : held[i].level \in Int
  BY BufferFacts
<1>2. \A i \in 1..n : f[i] \in Nat /\ f[i] = Size(held[i])
  BY <1>1 DEF Size
<1>3. ToSet(held) = {held[i] : i \in 1..n}
  BY <1>1 DEF ToSet
<1> HIDE DEF n, f
<1>4. PICK b \in Nat : \A i \in 1..n : f[i] <= b
  BY <1>1, <1>2, BoundOf
<1>5. S \subseteq 0..b /\ S # {}
  BY <1>2, <1>3, <1>4
<1> HIDE DEF S
<1>6. Max(S) \in S
  BY <1>4, <1>5, MaxIsGreatest
<1>7. Loudest = Max(S)
  BY DEF Loudest, S
<1>8. Max(S) \in 0..b
  BY <1>5, <1>6
<1>9. QED
  BY <1>4, <1>7, <1>8

(* A call that changes samples one by one.                                 *)
LEMMA EachChangeKeeps ==
  ASSUME BufferInv, NEW samples, Changes(samples),
         samples = [i \in DOMAIN held |-> samples[i]],
         \A i \in 1..Len(held) : samples[i] \in Sample /\ samples[i].place = held[i].place
  PROVE  BufferInv'
<1>1. Len(held) \in Nat /\ DOMAIN held = 1..Len(held)
  BY BufferFacts
<1>2. samples \in Seq(Sample) /\ Len(samples) = Len(held)
  BY <1>1
<1>3. QED
  BY <1>2, ChangesKeep

LEMMA NormalizeKeeps ==
  ASSUME BufferInv, NEW peak \in Nat, Normalize(peak) PROVE BufferInv'
<1> DEFINE divisor == Max({Loudest, peak})
           To(s) == IF ~IsNumber(s) THEN Cleared(s)
                    ELSE IF divisor = 0 THEN [s EXCEPT !.level = NotANumber]
                    ELSE Gained(s, peak, divisor)
           samples == [i \in DOMAIN held |-> To(held[i])]
<1>1. Changes(samples)
  BY DEF Normalize, Loudest
<1>2. divisor \in Nat
  BY LoudestIsNatural, MaxOfInts
<1> HIDE DEF divisor
<1>3. \A s \in Sample : To(s) \in Sample /\ To(s).place = s.place
  <2> SUFFICES ASSUME NEW s \in Sample PROVE To(s) \in Sample /\ To(s).place = s.place
    OBVIOUS
  <2>1. CASE ~IsNumber(s)
    BY <2>1, ClearsLevels
  <2>2. CASE IsNumber(s) /\ divisor = 0
    <3>1. [s EXCEPT !.level = NotANumber] \in Sample /\ [s EXCEPT !.level = NotANumber].place = s.place
      BY DEF Sample, NotANumber
    <3>2. QED
      BY <2>2, <3>1
  <2>3. CASE IsNumber(s) /\ divisor # 0
    BY <1>2, <2>3, GainsLevels
  <2>4. QED
    BY <2>1, <2>2, <2>3
<1> HIDE DEF To
<1>4. \A i \in 1..Len(held) : i \in DOMAIN held /\ samples[i] = To(held[i]) /\ held[i] \in Sample
  BY BufferFacts
<1>5. samples = [i \in DOMAIN held |-> samples[i]]
  OBVIOUS
<1> HIDE DEF samples
<1>6. \A i \in 1..Len(held) : samples[i] \in Sample /\ samples[i].place = held[i].place
  BY <1>3, <1>4
<1>7. QED
  BY <1>1, <1>5, <1>6, EachChangeKeeps

LEMMA NoChangeKeeps ==
  ASSUME BufferInv, Changes(held) PROVE BufferInv'
<1>1. held \in Seq(Sample)
  BY BufferFacts
<1>2. QED
  BY <1>1, ChangesKeep

LEMMA ApplyHanningWindowKeeps ==
  ASSUME BufferInv, ApplyHanningWindow PROVE BufferInv'
<1> DEFINE n == Len(held)
           samples == [i \in DOMAIN held |-> HannGain(held[i], i, n)]
<1>1. CASE n = 1
  BY <1>1, NoChangeKeeps DEF ApplyHanningWindow
<1>2. CASE n # 1
  <2>1. Changes(samples)
    BY <1>2 DEF ApplyHanningWindow
  <2>2. n \in Nat /\ DOMAIN held = 1..n /\ \A i \in 1..n : held[i] \in Sample
    BY BufferFacts
  <2>3. \A i \in 1..n : samples[i] = Gained(held[i], 2 * AtMost(i - 1, n - i), n - 1)
    BY <2>2 DEF HannGain
  <2>4. samples = [i \in DOMAIN held |-> samples[i]]
    OBVIOUS
  <2> HIDE DEF samples
  <2>5. \A i \in 1..n : samples[i] \in Sample /\ samples[i].place = held[i].place
    <3> SUFFICES ASSUME NEW i \in 1..n
                 PROVE  samples[i] \in Sample /\ samples[i].place = held[i].place
      OBVIOUS
    <3>1. n - 1 \in Nat \ {0} /\ 2 * AtMost(i - 1, n - i) \in Int
      BY <1>2, <2>2 DEF AtMost
    <3>2. QED
      BY <2>2, <2>3, <3>1, GainsLevels
  <2>6. QED
    BY <2>1, <2>4, <2>5, EachChangeKeeps
<1>3. QED
  BY <1>1, <1>2

LEMMA FadeInKeeps ==
  ASSUME BufferInv, NEW fade \in Nat, FadeIn(fade) PROVE BufferInv'
<1> DEFINE n == Len(held)
           span == AtMost(fade, n)
           samples == [i \in DOMAIN held |-> IF i <= span THEN Gained(held[i], i - 1, span) ELSE held[i]]
<1>1. Changes(samples)
  BY DEF FadeIn
<1>2. n \in Nat /\ DOMAIN held = 1..n /\ (\A i \in 1..n : held[i] \in Sample)
  BY BufferFacts
<1>3. span \in Nat
  BY <1>2 DEF AtMost
<1> HIDE DEF span
<1>4. \A i \in 1..n : samples[i] = IF i <= span THEN Gained(held[i], i - 1, span) ELSE held[i]
  BY <1>2
<1>5. samples = [i \in DOMAIN held |-> samples[i]]
  OBVIOUS
<1> HIDE DEF samples
<1>6. \A i \in 1..n : samples[i] \in Sample /\ samples[i].place = held[i].place
  <2> SUFFICES ASSUME NEW i \in 1..n
               PROVE  samples[i] \in Sample /\ samples[i].place = held[i].place
    OBVIOUS
  <2>1. CASE i <= span
    <3>1. i - 1 \in Int /\ span \in Nat \ {0}
      BY <1>2, <1>3, <2>1
    <3>2. QED
      BY <1>2, <1>4, <2>1, <3>1, GainsLevels
  <2>2. CASE ~(i <= span)
    BY <1>2, <1>4, <2>2
  <2>3. QED
    BY <2>1, <2>2
<1>7. QED
  BY <1>1, <1>5, <1>6, EachChangeKeeps

LEMMA FadeOutKeeps ==
  ASSUME BufferInv, NEW fade \in Nat, FadeOut(fade) PROVE BufferInv'
<1>1. Changes(FadedOut(held, fade))
  BY DEF FadeOut
<1> DEFINE t == FadedOut(held, fade)
<1>2. IsSound(t) /\ PlacesOf(t) = PlacesOf(held)
  BY BufferFacts, FadesOut
<1>3. held' = t /\ second' = second /\ channels' = channels /\ handed' = handed /\ dropped' = dropped
  BY <1>1 DEF Changes
<1> HIDE DEF t
<1>4. HandedPlaces' = HandedPlaces \cup {} /\ DroppedPlaces' = DroppedPlaces \cup {}
  BY <1>3 DEF HandedPlaces, DroppedPlaces
<1>5. NothingAudibleIsTrimmed'
  BY <1>3 DEF BufferInv, NothingAudibleIsTrimmed
<1>6. /\ IsSound(held')
      /\ PlacesOf(held') \cup {} \cup {} = PlacesOf(held)
      /\ PlacesOf(held') \cap {} = {}
  BY <1>2, <1>3
<1>7. QED
  BY <1>3, <1>4, <1>5, <1>6, SoundIsKept

LEMMA CrossfadeKeeps ==
  ASSUME BufferInv, NEW fade \in Nat, Crossfade(fade) PROVE BufferInv'
<1> DEFINE span == CrossfadeSpan(fade)
           Rise(s, i) == IF i < span THEN Gained(s, i, span - 1) ELSE s
           samples == [i \in DOMAIN held |-> Rise(Rise(held[i], i - 1), Len(held) - i)]
<1>1. CASE span < 2
  BY <1>1, NoChangeKeeps DEF Crossfade
<1>2. CASE ~(span < 2)
  <2>1. Changes(samples)
    BY <1>2 DEF Crossfade
  <2>2. /\ Len(held) \in Nat /\ DOMAIN held = 1..Len(held)
        /\ \A i \in 1..Len(held) : held[i] \in Sample
    BY BufferFacts
  <2>3. span \in Nat
    BY <2>2 DEF CrossfadeSpan, AtMost
  <2> HIDE DEF span
  <2>4. span - 1 \in Nat \ {0}
    BY <1>2, <2>3
  <2>5. \A s \in Sample, i \in Int : Rise(s, i) \in Sample /\ Rise(s, i).place = s.place
    BY <2>4, GainsLevels
  <2> HIDE DEF Rise
  <2>6. \A i \in 1..Len(held) : samples[i] = Rise(Rise(held[i], i - 1), Len(held) - i)
    BY <2>2
  <2>7. samples = [i \in DOMAIN held |-> samples[i]]
    OBVIOUS
  <2> HIDE DEF samples
  <2>8. \A i \in 1..Len(held) : samples[i] \in Sample /\ samples[i].place = held[i].place
    <3> SUFFICES ASSUME NEW i \in 1..Len(held)
                 PROVE  samples[i] \in Sample /\ samples[i].place = held[i].place
      OBVIOUS
    <3>1. i - 1 \in Int /\ Len(held) - i \in Int /\ held[i] \in Sample
      BY <2>2
    <3>2. Rise(held[i], i - 1) \in Sample /\ Rise(held[i], i - 1).place = held[i].place
      BY <2>5, <3>1
    <3>3. QED
      BY <2>5, <2>6, <3>1, <3>2
  <2>9. QED
    BY <2>1, <2>7, <2>8, EachChangeKeeps
<1>3. QED
  BY <1>1, <1>2

LEMMA ZeroSamplesKeeps ==
  ASSUME BufferInv, NEW start, NEW end, NEW keeps, ZeroSamples(start, end, keeps)
  PROVE  BufferInv'
<1> DEFINE samples == [i \in DOMAIN held |->
             IF i > start /\ i <= end /\ i \notin keeps THEN Cleared(held[i]) ELSE held[i]]
<1>1. Changes(samples)
  BY DEF ZeroSamples
<1>2. DOMAIN held = 1..Len(held) /\ \A i \in 1..Len(held) : held[i] \in Sample
  BY BufferFacts
<1>3. samples = [i \in DOMAIN held |-> samples[i]]
  OBVIOUS
<1>4. \A i \in 1..Len(held) : samples[i] = held[i] \/ samples[i] = Cleared(held[i])
  BY <1>2
<1> HIDE DEF samples
<1>5. \A i \in 1..Len(held) : samples[i] \in Sample /\ samples[i].place = held[i].place
  BY <1>2, <1>4, ClearsLevels
<1>6. QED
  BY <1>1, <1>3, <1>5, EachChangeKeeps

-----------------------------------------------------------------------------
(* The invariant.                                                          *)

LEMMA BufferInvStep ==
  ASSUME BufferInv, BufferNext PROVE BufferInv'
<1>1. \A n \in 0..(Len(held) + 1) : n \in Nat
  BY BufferFacts
<1>2. Peaks \subseteq Nat
  BY BufferAssumption
<1>3. CASE TakeAll \/ Merge \/ ApplyHanningWindow \/ TrimTrailingSilence
  BY <1>3, TakeAllKeeps, MergeKeeps, ApplyHanningWindowKeeps, TrimTrailingSilenceKeeps
<1>4. ASSUME NEW peak \in Peaks, Normalize(peak) PROVE BufferInv'
  BY <1>2, <1>4, NormalizeKeeps
<1>5. ASSUME NEW n \in 0..(Len(held) + 1),
             OverlapWith(n) \/ FadeIn(n) \/ FadeOut(n) \/ Crossfade(n) \/ ShapeOutput(n)
      PROVE  BufferInv'
  <2>1. n \in Nat
    BY <1>1
  <2>2. QED
    BY <1>5, <2>1, OverlapWithKeeps, FadeInKeeps, FadeOutKeeps, CrossfadeKeeps, ShapeOutputKeeps
<1>6. ASSUME NEW start \in 0..(Len(held) + 1), NEW end \in 0..(Len(held) + 1),
             \/ TakeRange(start, end) \/ StripSilence(start, end)
             \/ ZeroSamplesAbove(start, end) \/ ZeroSamplesBelow(start, end)
      PROVE  BufferInv'
  <2>1. start \in Nat /\ end \in Nat
    BY <1>1
  <2>2. CASE TakeRange(start, end)
    BY <2>1, <2>2, TakeRangeKeeps
  <2>3. CASE StripSilence(start, end)
    BY <2>1, <2>3, StripSilenceKeeps
  <2>4. CASE ZeroSamplesAbove(start, end)
    <3>1. \E keeps : ZeroSamples(start, end, keeps)
      BY <2>4 DEF ZeroSamplesAbove
    <3>2. QED
      BY <3>1, ZeroSamplesKeeps
  <2>5. CASE ZeroSamplesBelow(start, end)
    <3>1. \E keeps : ZeroSamples(start, end, keeps)
      BY <2>5 DEF ZeroSamplesBelow
    <3>2. QED
      BY <3>1, ZeroSamplesKeeps
  <2>6. QED
    BY <1>6, <2>2, <2>3, <2>4, <2>5
<1>7. QED
  BY <1>3, <1>4, <1>5, <1>6 DEF BufferNext

LEMMA PlacesBegin ==
  ASSUME NEW levels \in Seq(Int), NEW first \in Nat
  PROVE  /\ IsSound(PlacedSamples(levels, first)) /\ Len(PlacedSamples(levels, first)) = Len(levels)
         /\ PlacesOf(PlacedSamples(levels, first)) = (first + 1)..(first + Len(levels))
<1> DEFINE t == PlacedSamples(levels, first)
           n == Len(levels)
<1>1. n \in Nat /\ DOMAIN levels = 1..n /\ \A i \in 1..n : levels[i] \in Int
  OBVIOUS
<1>2. t = [i \in 1..n |-> [place |-> first + i, level |-> levels[i]]]
  BY <1>1 DEF PlacedSamples
<1>3. \A i \in 1..n : t[i] \in Sample /\ t[i].place = first + i
  BY <1>1, <1>2 DEF Sample
<1>4. t \in Seq(Sample) /\ Len(t) = n
  <2>1. t = [i \in 1..n |-> t[i]]
    BY <1>2
  <2> HIDE DEF t
  <2>2. QED
    BY <1>1, <1>3, <2>1
<1> HIDE DEF t
<1>5. Ascends(t)
  <2> SUFFICES ASSUME NEW i \in 1..n, NEW j \in 1..n, i < j PROVE t[i].place < t[j].place
    BY <1>4 DEF Ascends
  <2>1. t[i].place = first + i /\ t[j].place = first + j
    BY <1>3
  <2>2. QED
    BY <2>1
<1>6. PlacesOf(t) = (first + 1)..(first + n)
  <2>1. \A p \in (first + 1)..(first + n) : p - first \in 1..n /\ first + (p - first) = p
    BY <1>1
  <2>2. \A p \in (first + 1)..(first + n) : t[p - first].place = p
    BY <1>3, <2>1
  <2>3. (first + 1)..(first + n) \subseteq PlacesOf(t)
    BY <1>4, <2>1, <2>2 DEF PlacesOf
  <2>4. PlacesOf(t) \subseteq (first + 1)..(first + n)
    BY <1>1, <1>3, <1>4 DEF PlacesOf
  <2>5. QED
    BY <2>3, <2>4
<1>7. QED
  BY <1>4, <1>5, <1>6 DEF IsSound, t

LEMMA BufferInvInit ==
  ASSUME BufferInit PROVE BufferInv
<1>1. PICK a \in BufferSounds : held = PlacedSamples(a, 0)
  BY DEF BufferInit, BufferStarts
<1>2. PICK b \in SecondSounds : second = PlacedSamples(b, Len(held))
  BY DEF BufferInit, BufferStarts
<1>3. channels \in {1, 2} /\ handed = {} /\ dropped = {}
  BY DEF BufferInit, BufferStarts
<1>4. a \in Seq(Int) /\ b \in Seq(Int)
  BY BufferAssumption
<1> DEFINE n == Len(a)
           m == Len(b)
<1>5. n \in Nat /\ m \in Nat /\ 0 \in Nat
  BY <1>4
<1>6. IsSound(held) /\ Len(held) = n /\ PlacesOf(held) = (0 + 1)..(0 + n)
  BY <1>1, <1>4, <1>5, PlacesBegin
<1>7. IsSound(second) /\ PlacesOf(second) = (n + 1)..(n + m)
  BY <1>2, <1>4, <1>5, <1>6, PlacesBegin
<1>8. HandedPlaces = {} /\ DroppedPlaces = {} /\ NothingAudibleIsTrimmed
  BY <1>3 DEF HandedPlaces, DroppedPlaces, NothingAudibleIsTrimmed
<1> HIDE DEF n, m
<1>9. PlacesOf(held) = 1..n
  BY <1>5, <1>6
<1>10. Precede(PlacesOf(held), PlacesOf(second)) /\ PlacesOf(held) \cap PlacesOf(second) = {}
  BY <1>5, <1>7, <1>9 DEF Precede
<1>11. PlacesOf(held) \cup PlacesOf(second) \cup HandedPlaces \cup DroppedPlaces = 1..(n + m)
  BY <1>5, <1>7, <1>8, <1>9
<1>12. n + m \in Nat
  BY <1>5
<1>13. Separate(PlacesOf(held), PlacesOf(second), HandedPlaces, DroppedPlaces)
  BY <1>8, <1>10 DEF Separate
<1>14. \E N \in Nat : PlacesOf(held) \cup PlacesOf(second) \cup HandedPlaces \cup DroppedPlaces = 1..N
  BY <1>11, <1>12
<1>15. QED
  BY <1>3, <1>6, <1>7, <1>8, <1>10, <1>13, <1>14 DEF BufferInv

LEMMA BufferInvIsEnough ==
  ASSUME BufferInv PROVE SoundSurvivesShaping
<1> DEFINE H == PlacesOf(held)
           S == PlacesOf(second)
           R == HandedPlaces
           D == DroppedPlaces
<1>1. DOMAIN held = 1..Len(held) /\ \A i \in 1..Len(held) : held[i] \in Sample
  BY BufferFacts
<1>2. SoundIsInOrder
  BY <1>1 DEF BufferInv, IsSound, Ascends, SoundIsInOrder
<1>3. NothingAudibleIsTrimmed
  BY DEF BufferInv
<1>4. WaveKeepsTheShape
  <2>1. \A s \in ToSet(held) : s \in Sample
    BY <1>1 DEF ToSet
  <2>2. QED
    BY <2>1, PcmGrows DEF WaveKeepsTheShape
<1>5. SamplesAddUp
  <2>1. {t.place : t \in ToSet(held)} = H /\ {t.place : t \in ToSet(second)} = S
    BY BufferFacts, PlacesRemoved
  <2>2. {t.place : t \in handed} = R /\ {t.place : t \in {d.sample : d \in dropped}} = D
    BY DEF HandedPlaces, DroppedPlaces
  <2> DEFINE parts == <<H, S, R, D>>
             all == UNION ToSet(parts)
  <2>3. SamplesAddUp <=> /\ all = 1..Cardinality(all)
                         /\ \A i, j \in DOMAIN parts : i # j => parts[i] \cap parts[j] = {}
    BY <2>1, <2>2 DEF SamplesAddUp
  <2>4. Separate(H, S, R, D) /\ \E N \in Nat : H \cup S \cup R \cup D = 1..N
    BY DEF BufferInv
  <2> HIDE DEF H, S, R, D
  <2>5. DOMAIN parts = 1..4 /\ parts[1] = H /\ parts[2] = S /\ parts[3] = R /\ parts[4] = D
    OBVIOUS
  <2>6. all = H \cup S \cup R \cup D
    BY <2>5 DEF ToSet
  <2>7. \A i, j \in DOMAIN parts : i # j => parts[i] \cap parts[j] = {}
    BY <2>4, <2>5 DEF Separate
  <2> HIDE DEF all, parts
  <2>8. PICK N \in Nat : all = 1..N
    BY <2>4, <2>6
  <2>9. Cardinality(1..N) = N
    BY FS_Interval
  <2>10. all = 1..Cardinality(all)
    BY <2>8, <2>9
  <2>11. QED
    BY <2>3, <2>7, <2>10 DEF all, parts
<1>6. QED
  BY <1>2, <1>3, <1>4, <1>5 DEF SoundSurvivesShaping

(* A buffer keeps its samples and their order through every sequence of    *)
(* calls, trimming and stripping remove nothing audible, and the wave file *)
(* keeps the shape of the sound.                                           *)
THEOREM SoundSurvives == BufferSpec => []SoundSurvivesShaping
<1>1. BufferInit => BufferInv
  BY BufferInvInit
<1>2. BufferInv /\ [BufferNext]_bufferVars => BufferInv'
  <2>1. SUFFICES ASSUME BufferInv, [BufferNext]_bufferVars PROVE BufferInv'
    OBVIOUS
  <2>2. CASE BufferNext
    BY <2>1, <2>2, BufferInvStep
  <2>3. CASE UNCHANGED bufferVars
    <3>1. /\ held' = held /\ second' = second /\ channels' = channels
          /\ handed' = handed /\ dropped' = dropped
      BY <2>3 DEF bufferVars
    <3>2. HandedPlaces' = HandedPlaces /\ DroppedPlaces' = DroppedPlaces
      BY <3>1 DEF HandedPlaces, DroppedPlaces
    <3>3. NothingAudibleIsTrimmed'
      BY <2>1, <3>1 DEF BufferInv, NothingAudibleIsTrimmed
    <3>4. QED
      BY <2>1, <3>1, <3>2, <3>3 DEF BufferInv
  <2>4. QED
    BY <2>1, <2>2, <2>3
<1>3. BufferInv => SoundSurvivesShaping
  BY BufferInvIsEnough
<1>4. QED
  BY <1>1, <1>2, <1>3, PTL DEF BufferSpec

-----------------------------------------------------------------------------
(* HebrewWord.                                                             *)

AnyLetter == Letters \cup {"affricate"}
Nuclei == {"a", "e", "i", "o", "u", "schwa", "silent"}
PlacedGlyph == [letter : AnyLetter, dagesh : BOOLEAN, vowel : Vowel, place : Nat]
AnySound == [sound : AnyLetter \cup Nuclei \cup {"stress"}, place : Nat]
AnySegment == [onset : Seq(AnySound), nucleus : Nuclei, coda : Seq(AnySound), dagesh : BOOLEAN]

(* The places of the ordinary consonants of glyphs, of sounds, and of      *)
(* segments.                                                               *)
PlaceOfGlyph == [g \in PlacedGlyph |-> IF Ordinary(g.letter) THEN <<g.place>> ELSE << >>]
PlaceOfSound == [s \in AnySound |-> IF Ordinary(s.sound) THEN <<s.place>> ELSE << >>]
PlacesIn(sounds) == Spread(PlaceOfSound, sounds)
PlacesOfSegment == [s \in AnySegment |-> PlacesIn(s.onset) \o PlacesIn(s.coda)]
Held(segs) == Spread(PlacesOfSegment, segs)
Up(k) == Spread(PlaceOfGlyph, SubSeq(glyphs, 1, k))

HebrewType ==
  /\ hebrew \in {"given", "reading", "deciding", "heard", "failed"}
  /\ word \in Seq(Glyph) /\ glyphs \in Seq(PlacedGlyph)
  /\ looked \in Nat \ {0}
  /\ onset \in Seq(AnySound) /\ segments \in Seq(AnySegment)
  /\ silenced \in BOOLEAN /\ ipa \in Seq(AnySound)

GivenInv ==
  hebrew = "given" => looked = 1 /\ onset = << >> /\ segments = << >> /\ ~silenced

IsLastVoweled(v, n) ==
  v \in 1..n /\ Voweled(v) /\ \A k \in 1..n : Voweled(k) => k <= v

(* What was read is in the segments and the onset, and the last segment is *)
(* the one of the last vowel.                                              *)
ReadingInv ==
  hebrew = "reading" =>
    /\ looked <= Len(glyphs) + 1 /\ ~silenced
    /\ Held(segments) \o PlacesIn(onset) = Up(looked - 1)
    /\ \A i \in 1..Len(segments) : segments[i].coda = << >> /\ segments[i].nucleus # "silent"
    /\ \A v \in Nat : IsLastVoweled(v, looked - 1) =>
         /\ Len(segments) # 0 /\ Held(segments) = Up(v)
         /\ glyphs[v].vowel # "sheva" => segments[Len(segments)].nucleus # "schwa"

(* All is in the segments, what is behind the last vowel in the last coda; *)
(* a silent segment has nothing, unless it is the last, and follows one    *)
(* that is not silent.                                                     *)
DecideInv ==
  hebrew = "deciding" =>
    /\ looked <= Len(segments) + 1
    /\ silenced <=> (looked > 1 /\ segments[looked - 1].nucleus = "silent")
    /\ \A i \in 1..Len(segments) : segments[i].nucleus = "silent" =>
         1 < i /\ i < looked /\ segments[i].onset = << >> /\ segments[i - 1].nucleus # "silent"
    /\ \A i \in 1..(Len(segments) - 1) :
         looked <= i \/ segments[i].nucleus = "silent" => segments[i].coda = << >>
    /\ \A v \in Nat : IsLastVoweled(v, Len(glyphs)) =>
         /\ Len(segments) # 0
         /\ Held(segments) = Up(Len(glyphs))
         /\ Up(v) \o PlacesIn(segments[Len(segments)].coda) = Up(Len(glyphs))
         /\ glyphs[v].vowel # "sheva" => segments[Len(segments)].nucleus \notin {"schwa", "silent"}

(* What is heard is all, or, behind a last sheva, all up to it.            *)
HeardInv ==
  hebrew = "heard" =>
    \A v \in Nat : IsLastVoweled(v, Len(glyphs)) =>
      \/ PlacesIn(ipa) = Up(Len(glyphs))
      \/ PlacesIn(ipa) = Up(v) /\ glyphs[v].vowel = "sheva"

HebrewInv == HebrewType /\ GivenInv /\ ReadingInv /\ DecideInv /\ HeardInv


LEMMA PlacesAreSequences ==
  /\ PlaceOfGlyph \in Expansions(PlacedGlyph, Nat)
  /\ PlaceOfSound \in Expansions(AnySound, Nat)
  /\ PlacesOfSegment \in Expansions(AnySegment, Nat)
<1>1. PlaceOfGlyph \in Expansions(PlacedGlyph, Nat)
  <2>1. \A g \in PlacedGlyph : g.place \in Nat
    BY DEF PlacedGlyph
  <2>2. \A g \in PlacedGlyph : (IF Ordinary(g.letter) THEN <<g.place>> ELSE << >>) \in Seq(Nat)
    BY <2>1
  <2>3. QED
    BY <2>2 DEF PlaceOfGlyph, Expansions
<1>2. PlaceOfSound \in Expansions(AnySound, Nat)
  <2>1. \A s \in AnySound : s.place \in Nat
    BY DEF AnySound
  <2>2. \A s \in AnySound : (IF Ordinary(s.sound) THEN <<s.place>> ELSE << >>) \in Seq(Nat)
    BY <2>1
  <2>3. QED
    BY <2>2 DEF PlaceOfSound, Expansions
<1>3. PlacesOfSegment \in Expansions(AnySegment, Nat)
  <2>1. ASSUME NEW s \in AnySegment PROVE PlacesIn(s.onset) \o PlacesIn(s.coda) \in Seq(Nat)
    <3>1. s.onset \in Seq(AnySound) /\ s.coda \in Seq(AnySound)
      BY DEF AnySegment
    <3>2. PlacesIn(s.onset) \in Seq(Nat) /\ PlacesIn(s.coda) \in Seq(Nat)
      BY <1>2, <3>1, SpreadType DEF PlacesIn
    <3>3. QED
      BY <3>2
  <2>2. QED
    BY <2>1 DEF PlacesOfSegment, Expansions
<1>4. QED
  BY <1>1, <1>2, <1>3

LEMMA SoundsJoin ==
  /\ PlacesIn(<< >>) = << >>
  /\ \A x \in AnySound : PlacesIn(<<x>>) = IF Ordinary(x.sound) THEN <<x.place>> ELSE << >>
  /\ \A s \in Seq(AnySound) : PlacesIn(s) \in Seq(Nat)
  /\ \A s, t \in Seq(AnySound) : PlacesIn(s \o t) = PlacesIn(s) \o PlacesIn(t)
<1>1. PlacesIn(<< >>) = << >>
  BY SpreadEmpty DEF PlacesIn
<1>2. PlaceOfSound \in Expansions(AnySound, Nat)
  BY PlacesAreSequences
<1>3. ASSUME NEW x \in AnySound
      PROVE  PlacesIn(<<x>>) = IF Ordinary(x.sound) THEN <<x.place>> ELSE << >>
  <2>1. Spread(PlaceOfSound, <<x>>) = PlaceOfSound[x]
    BY <1>2, SpreadOne
  <2>2. PlaceOfSound[x] = IF Ordinary(x.sound) THEN <<x.place>> ELSE << >>
    BY DEF PlaceOfSound
  <2>3. QED
    BY <2>1, <2>2 DEF PlacesIn
<1>4. ASSUME NEW s \in Seq(AnySound) PROVE PlacesIn(s) \in Seq(Nat)
  BY <1>2, SpreadType DEF PlacesIn
<1>5. ASSUME NEW s \in Seq(AnySound), NEW t \in Seq(AnySound)
      PROVE  PlacesIn(s \o t) = PlacesIn(s) \o PlacesIn(t)
  BY <1>2, SpreadJoin DEF PlacesIn
<1>6. QED
  BY <1>1, <1>3, <1>4, <1>5

LEMMA SegmentsJoin ==
  /\ Held(<< >>) = << >>
  /\ \A s \in Seq(AnySegment) : Held(s) \in Seq(Nat)
  /\ \A s \in Seq(AnySegment), x \in AnySegment :
       Held(Append(s, x)) = Held(s) \o (PlacesIn(x.onset) \o PlacesIn(x.coda))
<1>1. Held(<< >>) = << >>
  BY SpreadEmpty DEF Held
<1>2. PlacesOfSegment \in Expansions(AnySegment, Nat)
  BY PlacesAreSequences
<1>4. ASSUME NEW s \in Seq(AnySegment) PROVE Held(s) \in Seq(Nat)
  BY <1>2, SpreadType DEF Held
<1>5. ASSUME NEW s \in Seq(AnySegment), NEW x \in AnySegment
      PROVE  Held(Append(s, x)) = Held(s) \o (PlacesIn(x.onset) \o PlacesIn(x.coda))
  <2>1. Spread(PlacesOfSegment, Append(s, x)) = Spread(PlacesOfSegment, s) \o PlacesOfSegment[x]
    BY <1>2, SpreadAppend
  <2>2. PlacesOfSegment[x] = PlacesIn(x.onset) \o PlacesIn(x.coda)
    BY DEF PlacesOfSegment
  <2>3. QED
    BY <2>1, <2>2, Zenon DEF Held
<1>6. QED
  BY <1>1, <1>4, <1>5

LEMMA GlyphsJoin ==
  ASSUME NEW gs \in Seq(PlacedGlyph)
  PROVE  LET To(k) == Spread(PlaceOfGlyph, SubSeq(gs, 1, k))
         IN /\ To(0) = << >> /\ To(Len(gs)) = OrdinaryPlaces(gs)
            /\ \A k \in 0..Len(gs) : To(k) \in Seq(Nat) /\ To(k) = OrdinaryPlaces(SubSeq(gs, 1, k))
            /\ \A k \in 0..(Len(gs) - 1) :
                 To(k + 1) = To(k) \o (IF Ordinary(gs[k + 1].letter) THEN <<gs[k + 1].place>> ELSE << >>)
<1> DEFINE p(k) == SubSeq(gs, 1, k)
           To(k) == Spread(PlaceOfGlyph, p(k))
<1>1. PlaceOfGlyph \in Expansions(PlacedGlyph, Nat)
  BY PlacesAreSequences
<1>2. /\ Len(gs) \in Nat /\ p(0) = << >> /\ p(Len(gs)) = gs
      /\ \A k \in 0..Len(gs) : p(k) \in Seq(PlacedGlyph)
      /\ \A k \in 0..(Len(gs) - 1) : gs[k + 1] \in PlacedGlyph /\ p(k + 1) = Append(p(k), gs[k + 1])
  BY PrefixGrows
<1> HIDE DEF p
<1>3. \A s \in Seq(PlacedGlyph) :
        Spread(PlaceOfGlyph, s) \in Seq(Nat) /\ Spread(PlaceOfGlyph, s) = OrdinaryPlaces(s)
  <2> SUFFICES ASSUME NEW s \in Seq(PlacedGlyph)
               PROVE  Spread(PlaceOfGlyph, s) \in Seq(Nat) /\ Spread(PlaceOfGlyph, s) = OrdinaryPlaces(s)
    OBVIOUS
  <2>1. Spread(PlaceOfGlyph, s) \in Seq(Nat)
    BY <1>1, SpreadType
  <2>2. DOMAIN s = 1..Len(s) /\ \A i \in 1..Len(s) : s[i] \in PlacedGlyph
    OBVIOUS
  <2>3. \A i \in 1..Len(s) :
          PlaceOfGlyph[s[i]] = IF Ordinary(s[i].letter) THEN <<s[i].place>> ELSE << >>
    BY <2>2 DEF PlaceOfGlyph
  <2>4. [i \in 1..Len(s) |-> PlaceOfGlyph[s[i]]]
          = [i \in DOMAIN s |-> IF Ordinary(s[i].letter) THEN <<s[i].place>> ELSE << >>]
    BY <2>2, <2>3
  <2>5. QED
    BY <2>1, <2>4, Zenon DEF Spread, OrdinaryPlaces
<1>4. To(0) = << >>
  BY <1>2, SpreadEmpty
<1>5. ASSUME NEW k \in 0..(Len(gs) - 1)
      PROVE  To(k + 1) = To(k) \o (IF Ordinary(gs[k + 1].letter) THEN <<gs[k + 1].place>> ELSE << >>)
  <2> DEFINE x == gs[k + 1]
             s == p(k)
  <2>1. x \in PlacedGlyph /\ s \in Seq(PlacedGlyph) /\ p(k + 1) = Append(s, x)
    BY <1>2
  <2> HIDE DEF x, s
  <2>2. Spread(PlaceOfGlyph, Append(s, x)) = Spread(PlaceOfGlyph, s) \o PlaceOfGlyph[x]
    BY <1>1, <2>1, SpreadAppend
  <2>3. PlaceOfGlyph[x] = IF Ordinary(x.letter) THEN <<x.place>> ELSE << >>
    BY <2>1 DEF PlaceOfGlyph
  <2>4. QED
    BY <2>1, <2>2, <2>3, Zenon DEF x, s
<1>6. QED
  BY <1>2, <1>3, <1>4, <1>5 DEF p

LEMMA ConsonantsJoin == Associates(Nat)
  BY JoiningAssociates, Zenon

LEMMA HebrewBegins == HebrewInit => HebrewInv
<1> SUFFICES ASSUME HebrewInit PROVE HebrewInv
  OBVIOUS
<1> USE DEF HebrewInit, HebrewStarts
<1>1. PICK n \in 1..MaxLetters : word \in [1..n -> Glyph]
  OBVIOUS
<1>2. word \in Seq(Glyph)
  BY <1>1, LengthAssumption
<1>3. HebrewType
  <2>1. << >> \in Seq(PlacedGlyph) /\ << >> \in Seq(AnySound) /\ << >> \in Seq(AnySegment)
    OBVIOUS
  <2>2. 1 \in Nat \ {0}
    OBVIOUS
  <2>3. QED
    BY <1>2, <2>1, <2>2, Zenon DEF HebrewType
<1>4. QED
  BY <1>3 DEF HebrewInv, GivenInv, ReadingInv, DecideInv, HeardInv

(* What the letters are read as is glyphs at their places.                 *)
AnyGlyph == [letter : Letters, dagesh : BOOLEAN, vowel : Vowel]

LEMMA CollapsedType ==
  ASSUME NEW w \in Seq(AnyGlyph) PROVE Collapsed(w) \in Seq(PlacedGlyph)
<1> DEFINE s == [i \in DOMAIN w |-> IF Digraph(w, i - 1) THEN << >> ELSE <<Placed(w, i)>>]
<1>1. DOMAIN w = 1..Len(w) /\ Len(w) \in Nat /\ \A i \in 1..Len(w) : w[i] \in AnyGlyph
  OBVIOUS
<1>2. \A i \in 1..Len(w) : Placed(w, i) \in PlacedGlyph
  BY <1>1 DEF Placed, PlacedGlyph, AnyGlyph, AnyLetter
<1>3. \A i \in 1..Len(w) :
        (IF Digraph(w, i - 1) THEN << >> ELSE <<Placed(w, i)>>) \in Seq(PlacedGlyph)
  BY <1>2
<1>4. s \in Seq(Seq(PlacedGlyph))
  BY <1>1, <1>3
<1> HIDE DEF s
<1>5. FlattenSeq(s) \in Seq(PlacedGlyph)
  BY <1>4, FlattenType
<1>6. QED
  BY <1>5 DEF Collapsed, s

LEMMA PointedType ==
  /\ Seq(Glyph) \subseteq Seq(AnyGlyph)
  /\ \A w \in Seq(Glyph) :
       \A niqqud \in [DOMAIN w -> niqqud_classes], dagesh \in [DOMAIN w -> dagesh_classes] :
         merge_diacritics(w, niqqud, dagesh) \in Seq(AnyGlyph)
<1>1. Seq(Glyph) \subseteq Seq(AnyGlyph)
  <2>1. Glyph \subseteq AnyGlyph
    BY DEF Glyph, AnyGlyph
  <2>2. QED
    BY <2>1
<1>2. ASSUME NEW w \in Seq(Glyph), NEW niqqud \in [DOMAIN w -> niqqud_classes],
             NEW dagesh \in [DOMAIN w -> dagesh_classes]
      PROVE  merge_diacritics(w, niqqud, dagesh) \in Seq(AnyGlyph)
  <2>1. DOMAIN w = 1..Len(w) /\ Len(w) \in Nat /\ \A i \in 1..Len(w) : w[i] \in Glyph
    OBVIOUS
  <2> DEFINE point(i) == IF w[i].letter \in CanTakePoints THEN niqqud[i] ELSE "none"
             g(i) == [letter |-> w[i].letter,
                      dagesh |-> \/ w[i].letter \in CanTakeDagesh /\ dagesh[i]
                                 \/ point(i) = "dagesh",
                      vowel  |-> IF point(i) = "dagesh" THEN "none" ELSE point(i)]
  <2>2. ASSUME NEW i \in 1..Len(w) PROVE g(i) \in AnyGlyph
    <3>1. w[i].letter \in Letters
      BY <2>1 DEF Glyph
    <3>2. point(i) \in Vowel \cup {"dagesh"}
      BY <2>1 DEF niqqud_classes, Vowel
    <3> DEFINE l == w[i].letter
               d == \/ w[i].letter \in CanTakeDagesh /\ dagesh[i]
                    \/ point(i) = "dagesh"
               v == IF point(i) = "dagesh" THEN "none" ELSE point(i)
    <3>3. l \in Letters /\ d \in BOOLEAN /\ v \in Vowel
      BY <3>1, <3>2 DEF Vowel
    <3> HIDE DEF l, d, v
    <3>4. [letter |-> l, dagesh |-> d, vowel |-> v] \in AnyGlyph
      BY <3>3 DEF AnyGlyph
    <3>5. QED
      BY <3>4 DEF l, d, v
  <2>3. [i \in 1..Len(w) |-> g(i)] \in Seq(AnyGlyph)
    BY <2>1, <2>2
  <2>4. QED
    BY <2>1, <2>3 DEF merge_diacritics
<1>3. QED
  BY <1>1, <1>2

(* Points taken or put in.                                                 *)
LEMMA ReadStep ==
  ASSUME HebrewInv, hebrew = "given", NEW w \in Seq(AnyGlyph), Read(w)
  PROVE  HebrewInv'
<1>1. Collapsed(w) \in Seq(PlacedGlyph)
  BY CollapsedType
<1>2. HebrewType' /\ glyphs' \in Seq(PlacedGlyph)
  BY <1>1 DEF HebrewInv, HebrewType, Read
<1>3. hebrew' = "reading" /\ looked' = 1 /\ onset' = << >> /\ segments' = << >> /\ ~silenced'
  BY DEF HebrewInv, GivenInv, Read
<1>4. Up(0)' = << >>
  <2> DEFINE G == glyphs'
  <2> HIDE DEF G
  <2>1. G \in Seq(PlacedGlyph)
    BY <1>2 DEF G
  <2>2. Spread(PlaceOfGlyph, SubSeq(G, 1, 0)) = << >>
    BY <2>1, GlyphsJoin
  <2>3. QED
    BY <2>2 DEF G, Up
<1>5. Len(glyphs') \in Nat
  BY <1>2
<1>6. Held(segments') \o PlacesIn(onset') = << >>
  <2>1. Held(<< >>) = << >> /\ PlacesIn(<< >>) = << >>
    BY SegmentsJoin, SoundsJoin
  <2>2. QED
    BY <1>3, <2>1
<1>7. ReadingInv'
  <2>1. \A v \in Nat : ~IsLastVoweled(v, looked - 1)'
    BY <1>3 DEF IsLastVoweled
  <2>2. looked' <= Len(glyphs') + 1 /\ looked' - 1 = 0
    BY <1>3, <1>5
  <2>3. Len(segments') = 0
    BY <1>3
  <2>4. \A i \in 1..Len(segments') : FALSE
    BY <2>3
  <2>5. (Held(segments) \o PlacesIn(onset) = Up(looked - 1))'
    BY <1>4, <1>6, <2>2
  <2>6. QED
    BY <1>3, <2>1, <2>2, <2>4, <2>5 DEF ReadingInv
<1>8. QED
  BY <1>2, <1>3, <1>7 DEF HebrewInv, GivenInv, DecideInv, HeardInv


(* What the letter at hand sounds like, and where.                         *)
LEMMA HereType ==
  ASSUME HebrewType, More
  PROVE  /\ Here \in PlacedGlyph /\ looked \in 1..Len(glyphs) /\ Len(glyphs) \in Nat
         /\ Consonant \in Seq(AnySound) /\ Voiced \in Seq(AnySound)
         /\ PlacesIn(Consonant) = IF Ordinary(Here.letter) THEN <<Here.place>> ELSE << >>
         /\ PlacesIn(Voiced) = IF Ordinary(Here.letter) THEN <<Here.place>> ELSE << >>
<1>1. Here \in PlacedGlyph /\ looked \in 1..Len(glyphs) /\ Len(glyphs) \in Nat
  BY DEF HebrewType, More, Here
<1> DEFINE g == Here
           x == [sound |-> g.letter, place |-> g.place]
<1>2. x \in AnySound /\ g.letter \in AnyLetter
  BY <1>1 DEF AnySound, PlacedGlyph
<1>3. Consonant = << >> \/ Consonant = <<x>>
  BY DEF Consonant
<1>4. Consonant = << >> => ~Ordinary(g.letter)
  <2>1. <<x>> # << >>
    OBVIOUS
  <2>2. QED
    BY <2>1 DEF Consonant, Ordinary
<1>5. Voiced = Consonant \/ (Voiced = << >> /\ ~Ordinary(g.letter))
  BY DEF Voiced, Ordinary
<1> HIDE DEF g
<1>6. x.sound = g.letter /\ x.place = g.place
  OBVIOUS
<1> HIDE DEF x
<1>7. PlacesIn(<<x>>) = IF Ordinary(g.letter) THEN <<g.place>> ELSE << >>
  BY <1>2, <1>6, SoundsJoin
<1>8. PlacesIn(Consonant) = IF Ordinary(g.letter) THEN <<g.place>> ELSE << >>
  BY <1>3, <1>4, <1>7, SoundsJoin
<1>9. PlacesIn(Voiced) = IF Ordinary(g.letter) THEN <<g.place>> ELSE << >>
  BY <1>5, <1>8, SoundsJoin
<1>10. << >> \in Seq(AnySound) /\ <<x>> \in Seq(AnySound)
  BY <1>2
<1>11. Consonant \in Seq(AnySound) /\ Voiced \in Seq(AnySound)
  BY <1>3, <1>5, <1>10
<1>12. QED
  BY <1>1, <1>8, <1>9, <1>11 DEF g

(* What is up to a place, one and two places further.                      *)
LEMMA UpGrows ==
  ASSUME HebrewType, hebrew = "reading", looked \in 1..Len(glyphs)
  PROVE  /\ Up(looked - 1) \in Seq(Nat)
         /\ Up(looked) = Up(looked - 1) \o (IF Ordinary(Here.letter) THEN <<Here.place>> ELSE << >>)
         /\ looked < Len(glyphs) /\ ~Ordinary(glyphs[looked + 1].letter) =>
              Up(looked + 1) = Up(looked)
<1>1. glyphs \in Seq(PlacedGlyph) /\ Len(glyphs) \in Nat /\ looked \in Nat \ {0}
  BY DEF HebrewType
<1>2. /\ \A k \in 0..Len(glyphs) : Up(k) \in Seq(Nat)
      /\ \A k \in 0..(Len(glyphs) - 1) :
           Up(k + 1) = Up(k) \o (IF Ordinary(glyphs[k + 1].letter) THEN <<glyphs[k + 1].place>> ELSE << >>)
  BY <1>1, GlyphsJoin DEF Up
<1>3. looked - 1 \in 0..(Len(glyphs) - 1) /\ (looked - 1) + 1 = looked /\ looked - 1 \in 0..Len(glyphs)
      /\ looked \in 0..Len(glyphs)
  BY <1>1
<1>4. Up(looked) = Up(looked - 1) \o (IF Ordinary(Here.letter) THEN <<Here.place>> ELSE << >>)
  BY <1>2, <1>3 DEF Here
<1>5. ASSUME looked < Len(glyphs), ~Ordinary(glyphs[looked + 1].letter) PROVE Up(looked + 1) = Up(looked)
  <2>1. looked \in 0..(Len(glyphs) - 1)
    BY <1>1, <1>5
  <2>2. Up(looked + 1) = Up(looked) \o << >>
    BY <1>2, <1>5, <2>1
  <2>3. Up(looked) \in Seq(Nat)
    BY <1>2, <1>3
  <2>4. Up(looked) \o << >> = Up(looked)
    BY <2>3
  <2>5. QED
    BY <2>2, <2>4
<1>6. QED
  BY <1>2, <1>3, <1>4, <1>5

(* A vowel makes a segment of the onset and of its own letter.             *)
LEMMA PushStep ==
  ASSUME HebrewInv, More, NEW c \in Seq(AnySound),
         PlacesIn(c) = IF Ordinary(Here.letter) THEN <<Here.place>> ELSE << >>,
         NEW nucleus \in Nuclei \ {"silent"}, NEW dagesh \in BOOLEAN, NEW read \in {1, 2},
         Push(onset \o c, nucleus, dagesh, read), Voweled(looked),
         nucleus = "schwa" => Here.vowel = "sheva",
         read = 2 => /\ looked < Len(glyphs)
                     /\ ~Ordinary(glyphs[looked + 1].letter) /\ ~Voweled(looked + 1)
  PROVE  HebrewInv'
<1>1. /\ hebrew = "reading" /\ looked \in 1..Len(glyphs) /\ Len(glyphs) \in Nat
      /\ onset \in Seq(AnySound) /\ segments \in Seq(AnySegment) /\ looked \in Nat
  BY HereType DEF HebrewInv, HebrewType, More
<1>2. /\ Held(segments) \o PlacesIn(onset) = Up(looked - 1) /\ ~silenced
      /\ \A i \in 1..Len(segments) : segments[i].coda = << >> /\ segments[i].nucleus # "silent"
  BY <1>1 DEF HebrewInv, ReadingInv
<1> DEFINE s == Segment(onset \o c, nucleus, dagesh)
<1>3. /\ onset \o c \in Seq(AnySound) /\ s \in AnySegment
      /\ s.onset = onset \o c /\ s.coda = << >> /\ s.nucleus = nucleus
  <2>1. onset \o c \in Seq(AnySound) /\ << >> \in Seq(AnySound)
    BY <1>1
  <2>2. nucleus \in Nuclei
    OBVIOUS
  <2>3. QED
    BY <2>1, <2>2 DEF Segment, AnySegment
<1>4. /\ segments' = Append(segments, s) /\ onset' = << >> /\ looked' = looked + read
      /\ hebrew' = "reading" /\ glyphs' = glyphs /\ word' = word /\ silenced' = silenced /\ ipa' = ipa
  BY <1>1 DEF Push
<1> HIDE DEF s
<1>5. looked' \in Nat \ {0} /\ looked' <= Len(glyphs) + 1 /\ looked' - 1 \in Nat
  BY <1>1, <1>4
<1>6. HebrewType'
  <2>1. segments' \in Seq(AnySegment) /\ onset' \in Seq(AnySound)
    BY <1>1, <1>3, <1>4
  <2>2. QED
    BY <1>4, <1>5, <2>1 DEF HebrewInv, HebrewType
<1>7. Held(segments') = Up(looked)
  <2>1. Held(segments') = Held(segments) \o (PlacesIn(onset \o c) \o PlacesIn(s.coda))
    BY <1>1, <1>3, <1>4, SegmentsJoin
  <2>2. PlacesIn(onset \o c) = PlacesIn(onset) \o PlacesIn(c) /\ PlacesIn(s.coda) = << >>
    BY <1>1, <1>3, SoundsJoin
  <2>3. /\ PlacesIn(onset) \in Seq(Nat) /\ PlacesIn(c) \in Seq(Nat) /\ Held(segments) \in Seq(Nat)
        /\ PlacesIn(onset \o c) \in Seq(Nat)
    BY <1>1, <1>3, SoundsJoin, SegmentsJoin
  <2>4. PlacesIn(onset \o c) \o << >> = PlacesIn(onset \o c)
    BY <2>3
  <2>5. Held(segments') = Held(segments) \o (PlacesIn(onset) \o PlacesIn(c))
    BY <2>1, <2>2, <2>4
  <2>6. Held(segments) \o (PlacesIn(onset) \o PlacesIn(c)) = Up(looked - 1) \o PlacesIn(c)
    <3>1. (Held(segments) \o PlacesIn(onset)) \o PlacesIn(c)
            = Held(segments) \o (PlacesIn(onset) \o PlacesIn(c))
      BY <2>3, ConsonantsJoin, Zenon DEF Associates
    <3>2. QED
      BY <1>2, <3>1, Zenon
  <2>7. Up(looked) = Up(looked - 1) \o PlacesIn(c)
    BY <1>1, UpGrows DEF HebrewInv
  <2>8. QED
    BY <2>5, <2>6, <2>7
<1>15. looked' - 1 = looked + read - 1
  BY <1>1, <1>4
<1>8. (\A k : Up(k)' = Up(k)) /\ Up(looked - 1)' = Up(looked + read - 1)
  <2>1. \A k : Up(k)' = Up(k)
    BY <1>4 DEF Up
  <2>2. Up(looked - 1)' = Up(looked + read - 1)
    BY <1>4, <1>15, Zenon DEF Up
  <2>3. QED
    BY <2>1, <2>2
<1>9. Up(looked + read - 1) = Up(looked)
  <2>1. read = 2 => Up(looked + 1) = Up(looked)
    BY <1>1, UpGrows DEF HebrewInv
  <2>2. read = 2 => looked + read - 1 = looked + 1
    BY <1>1
  <2>3. read = 1 => looked + read - 1 = looked
    BY <1>1
  <2>4. QED
    BY <2>1, <2>2, <2>3
<1>10. \A i : IsLastVoweled(i, looked - 1)' <=> IsLastVoweled(i, looked + read - 1)
  <2>1. \A k : Voweled(k)' <=> Voweled(k)
    BY <1>4 DEF Voweled
  <2>2. QED
    BY <1>15, <2>1, Zenon DEF IsLastVoweled
<1>11. \A i \in Nat : IsLastVoweled(i, looked + read - 1) => i = looked
  <2> SUFFICES ASSUME NEW i \in Nat, IsLastVoweled(i, looked + read - 1) PROVE i = looked
    OBVIOUS
  <2>1. looked \in 1..(looked + read - 1)
    BY <1>1
  <2>2. looked <= i /\ i \in 1..(looked + read - 1) /\ Voweled(i)
    BY <2>1 DEF IsLastVoweled
  <2>3. i = looked \/ (read = 2 /\ i = looked + 1)
    BY <1>1, <2>2
  <2>4. QED
    BY <2>2, <2>3
<1>12. /\ Len(segments') = Len(segments) + 1 /\ segments'[Len(segments) + 1] = s
       /\ \A i \in 1..Len(segments) : segments'[i] = segments[i]
       /\ Len(segments) \in Nat
  BY <1>1, <1>3, <1>4
<1>13. ReadingInv'
  <2>1. (Held(segments) \o PlacesIn(onset) = Up(looked - 1))'
    <3>1. PlacesIn(onset') = << >> /\ Held(segments') \in Seq(Nat)
      BY <1>4, <1>6, SoundsJoin, SegmentsJoin DEF HebrewType
    <3>2. Held(segments') \o << >> = Held(segments')
      BY <3>1
    <3>3. QED
      BY <1>7, <1>8, <1>9, <3>1, <3>2
  <2>2. \A i \in 1..Len(segments') : segments'[i].coda = << >> /\ segments'[i].nucleus # "silent"
    <3> SUFFICES ASSUME NEW i \in 1..Len(segments')
                 PROVE  segments'[i].coda = << >> /\ segments'[i].nucleus # "silent"
      OBVIOUS
    <3>1. i \in 1..Len(segments) \/ i = Len(segments) + 1
      BY <1>12
    <3>2. nucleus # "silent"
      OBVIOUS
    <3>3. QED
      BY <1>2, <1>3, <1>12, <3>1, <3>2
  <2>3. ASSUME NEW i \in Nat, IsLastVoweled(i, looked - 1)'
        PROVE  /\ Len(segments') # 0 /\ Held(segments') = Up(i)'
               /\ glyphs'[i].vowel # "sheva" => segments'[Len(segments')].nucleus # "schwa"
    <3>3. i = looked
      BY <1>10, <1>11, <2>3
    <3>4. Held(segments') = Up(i)'
      BY <1>7, <1>8, <3>3
    <3>5. glyphs'[i].vowel # "sheva" => nucleus # "schwa"
      BY <1>4, <3>3 DEF Here
    <3>6. segments'[Len(segments')].nucleus = nucleus /\ Len(segments') # 0
      BY <1>3, <1>12
    <3>7. QED
      BY <3>4, <3>5, <3>6
  <2>4. QED
    BY <1>2, <1>4, <1>5, <2>1, <2>2, <2>3 DEF ReadingInv
<1>14. QED
  BY <1>4, <1>6, <1>13 DEF HebrewInv, GivenInv, DecideInv, HeardInv

LEMMA VowelStep ==
  ASSUME HebrewInv, ReadVav \/ ReadHiriqYod \/ ReadVowel \/ ReadSheva
  PROVE  HebrewInv'
<1>1. /\ More /\ Here \in PlacedGlyph /\ looked \in 1..Len(glyphs) /\ Len(glyphs) \in Nat
      /\ Voiced \in Seq(AnySound) /\ onset \in Seq(AnySound)
      /\ PlacesIn(Voiced) = IF Ordinary(Here.letter) THEN <<Here.place>> ELSE << >>
  <2>1. More /\ HebrewType
    BY DEF HebrewInv, ReadVav, ReadHiriqYod, ReadVowel, ReadSheva
  <2>2. QED
    BY <2>1, HereType DEF HebrewType
<1>2. CASE ReadVav
  <2>1. ~Ordinary(Here.letter) /\ Voweled(looked)
    BY <1>2 DEF ReadVav, IsShuruk, IsHolamMale, Ordinary, Voweled, Here
  <2>2. << >> \in Seq(AnySound) /\ onset \o << >> = onset
    BY <1>1
  <2>3. PlacesIn(<< >>) = IF Ordinary(Here.letter) THEN <<Here.place>> ELSE << >>
    BY <2>1, SoundsJoin
  <2>4. Push(onset \o << >>, "u", FALSE, 1) \/ Push(onset \o << >>, "o", FALSE, 1)
    BY <1>2, <2>2 DEF ReadVav
  <2>5. "u" \in Nuclei \ {"silent"} /\ "u" # "schwa" /\ "o" \in Nuclei \ {"silent"} /\ "o" # "schwa"
        /\ FALSE \in BOOLEAN /\ 1 \in {1, 2} /\ 1 # 2
    BY DEF Nuclei
  <2>6. CASE Push(onset \o << >>, "u", FALSE, 1)
    BY <1>1, <2>1, <2>2, <2>3, <2>5, <2>6, PushStep
  <2>7. CASE Push(onset \o << >>, "o", FALSE, 1)
    BY <1>1, <2>1, <2>2, <2>3, <2>5, <2>7, PushStep
  <2>8. QED
    BY <2>4, <2>6, <2>7
<1>3. CASE ReadHiriqYod
  <2>1. /\ Push(onset \o Voiced, "i", FALSE, 2) /\ Voweled(looked) /\ looked < Len(glyphs)
        /\ ~Ordinary(glyphs[looked + 1].letter) /\ ~Voweled(looked + 1)
    BY <1>3 DEF ReadHiriqYod, IsHiriqYod, Ordinary, Voweled, Here
  <2>2. "i" \in Nuclei \ {"silent"} /\ "i" # "schwa"
    BY DEF Nuclei
  <2>3. QED
    BY <1>1, <2>1, <2>2, PushStep
<1>4. CASE ReadVowel
  <2>1. Voweled(looked)
    BY <1>4 DEF ReadVowel, Voweled, Here
  <2>2. Push(onset \o Voiced, "a", FALSE, 1) \/ Push(onset \o Voiced, "i", FALSE, 1)
    BY <1>4 DEF ReadVowel
  <2>3. "a" \in Nuclei \ {"silent"} /\ "a" # "schwa" /\ "i" \in Nuclei \ {"silent"} /\ "i" # "schwa"
        /\ FALSE \in BOOLEAN /\ 1 \in {1, 2} /\ 1 # 2
    BY DEF Nuclei
  <2>4. CASE Push(onset \o Voiced, "a", FALSE, 1)
    BY <1>1, <2>1, <2>3, <2>4, PushStep
  <2>5. CASE Push(onset \o Voiced, "i", FALSE, 1)
    BY <1>1, <2>1, <2>3, <2>5, PushStep
  <2>6. QED
    BY <2>2, <2>4, <2>5
<1>5. CASE ReadSheva
  <2>1. Voweled(looked) /\ Push(onset \o Voiced, "schwa", Here.dagesh, 1) /\ Here.vowel = "sheva"
    BY <1>5 DEF ReadSheva, Voweled, Here
  <2>2. "schwa" \in Nuclei \ {"silent"} /\ Here.dagesh \in BOOLEAN
    BY <1>1 DEF Nuclei, PlacedGlyph
  <2>3. QED
    BY <1>1, <2>1, <2>2, PushStep
<1>6. QED
  BY <1>2, <1>3, <1>4, <1>5

LEMMA ConsonantStep ==
  ASSUME HebrewInv, ReadConsonant PROVE HebrewInv'
<1>1. /\ More /\ Here \in PlacedGlyph /\ looked \in 1..Len(glyphs) /\ Len(glyphs) \in Nat
      /\ Consonant \in Seq(AnySound) /\ onset \in Seq(AnySound) /\ segments \in Seq(AnySegment)
      /\ PlacesIn(Consonant) = IF Ordinary(Here.letter) THEN <<Here.place>> ELSE << >>
      /\ hebrew = "reading" /\ looked \in Nat
  <2>1. More /\ HebrewType
    BY DEF HebrewInv, ReadConsonant
  <2>2. QED
    BY <2>1, HereType DEF HebrewType, More
<1>2. /\ Held(segments) \o PlacesIn(onset) = Up(looked - 1) /\ ~silenced
      /\ \A i \in 1..Len(segments) : segments[i].coda = << >> /\ segments[i].nucleus # "silent"
      /\ \A v \in Nat : IsLastVoweled(v, looked - 1) =>
           /\ Len(segments) # 0 /\ Held(segments) = Up(v)
           /\ glyphs[v].vowel # "sheva" => segments[Len(segments)].nucleus # "schwa"
  BY <1>1 DEF HebrewInv, ReadingInv
<1>3. /\ onset' = onset \o Consonant /\ looked' = looked + 1 /\ hebrew' = "reading"
      /\ word' = word /\ glyphs' = glyphs /\ segments' = segments /\ silenced' = silenced /\ ipa' = ipa
  BY <1>1 DEF ReadConsonant
<1>4. ~Voweled(looked)
  BY DEF ReadConsonant, Voweled, IsShuruk, IsHolamMale, Here
<1>5. looked' \in Nat \ {0} /\ looked' <= Len(glyphs) + 1 /\ looked' - 1 = looked
  BY <1>1, <1>3
<1>6. HebrewType'
  <2>1. onset' \in Seq(AnySound)
    BY <1>1, <1>3
  <2>2. QED
    BY <1>1, <1>3, <1>5, <2>1 DEF HebrewInv, HebrewType
<1>7. Held(segments) \o PlacesIn(onset \o Consonant) = Up(looked)
  <2>1. PlacesIn(onset \o Consonant) = PlacesIn(onset) \o PlacesIn(Consonant)
    BY <1>1, SoundsJoin
  <2>2. Held(segments) \in Seq(Nat) /\ PlacesIn(onset) \in Seq(Nat) /\ PlacesIn(Consonant) \in Seq(Nat)
    BY <1>1, SoundsJoin, SegmentsJoin
  <2>3. (Held(segments) \o PlacesIn(onset)) \o PlacesIn(Consonant)
          = Held(segments) \o (PlacesIn(onset) \o PlacesIn(Consonant))
    BY <2>2, ConsonantsJoin, Zenon DEF Associates
  <2>4. Up(looked) = Up(looked - 1) \o PlacesIn(Consonant)
    BY <1>1, UpGrows DEF HebrewInv
  <2>5. QED
    BY <1>2, <2>1, <2>3, <2>4, Zenon
<1>8. (\A k : Up(k)' = Up(k)) /\ Up(looked - 1)' = Up(looked)
  BY <1>3, <1>5, Zenon DEF Up
<1>9. \A i \in Nat : IsLastVoweled(i, looked - 1)' => IsLastVoweled(i, looked - 1)
  <2>1. \A k : Voweled(k)' <=> Voweled(k)
    BY <1>3 DEF Voweled
  <2>2. ASSUME NEW i \in Nat, IsLastVoweled(i, looked - 1)' PROVE IsLastVoweled(i, looked - 1)
    <3>1. i \in 1..looked /\ Voweled(i) /\ \A k \in 1..looked : Voweled(k) => k <= i
      BY <1>5, <2>1, <2>2, Zenon DEF IsLastVoweled
    <3>2. i # looked
      BY <1>4, <3>1
    <3>3. i \in 1..(looked - 1) /\ \A k \in 1..(looked - 1) : k \in 1..looked
      BY <1>1, <3>1, <3>2
    <3>4. QED
      BY <3>1, <3>3 DEF IsLastVoweled
  <2>3. QED
    BY <2>2
<1>10. ReadingInv'
  <2>1. (Held(segments) \o PlacesIn(onset) = Up(looked - 1))'
    BY <1>3, <1>7, <1>8
  <2>2. ASSUME NEW i \in Nat, IsLastVoweled(i, looked - 1)'
        PROVE  /\ Len(segments') # 0 /\ Held(segments') = Up(i)'
               /\ glyphs'[i].vowel # "sheva" => segments'[Len(segments')].nucleus # "schwa"
    BY <1>2, <1>3, <1>8, <1>9, <2>2
  <2>3. QED
    BY <1>2, <1>3, <1>5, <2>1, <2>2 DEF ReadingInv
<1>11. QED
  BY <1>3, <1>6, <1>10 DEF HebrewInv, GivenInv, DecideInv, HeardInv

LEMMA SegmentPlaces ==
  \A x \in AnySegment :
    /\ x.onset \in Seq(AnySound) /\ x.coda \in Seq(AnySound) /\ x.nucleus \in Nuclei
    /\ PlacesIn(x.onset) \in Seq(Nat) /\ PlacesIn(x.coda) \in Seq(Nat)
    /\ PlacesOfSegment[x] \in Seq(Nat)
    /\ PlacesOfSegment[x] = PlacesIn(x.onset) \o PlacesIn(x.coda)
<1> SUFFICES ASSUME NEW x \in AnySegment
             PROVE  /\ x.onset \in Seq(AnySound) /\ x.coda \in Seq(AnySound) /\ x.nucleus \in Nuclei
                    /\ PlacesIn(x.onset) \in Seq(Nat) /\ PlacesIn(x.coda) \in Seq(Nat)
                    /\ PlacesOfSegment[x] \in Seq(Nat)
                    /\ PlacesOfSegment[x] = PlacesIn(x.onset) \o PlacesIn(x.coda)
  OBVIOUS
<1>1. x.onset \in Seq(AnySound) /\ x.coda \in Seq(AnySound) /\ x.nucleus \in Nuclei
  BY DEF AnySegment
<1>2. PlacesIn(x.onset) \in Seq(Nat) /\ PlacesIn(x.coda) \in Seq(Nat)
  BY <1>1, SoundsJoin
<1>3. PlacesOfSegment[x] = PlacesIn(x.onset) \o PlacesIn(x.coda)
  BY DEF PlacesOfSegment
<1>4. PlacesIn(x.onset) \o PlacesIn(x.coda) \in Seq(Nat)
  BY <1>2
<1>5. QED
  BY <1>1, <1>2, <1>3, <1>4

(* Segments that hold the same, each or two neighbours together, and a     *)
(* last one that holds more.                                               *)
LEMMA HeldAlike ==
  ASSUME NEW s \in Seq(AnySegment), NEW t \in Seq(AnySegment), Len(s) = Len(t)
  PROVE  /\ (\A i \in 1..Len(s) : PlacesOfSegment[s[i]] = PlacesOfSegment[t[i]]) => Held(t) = Held(s)
         /\ \A x \in Seq(Nat) :
              /\ Len(s) # 0
              /\ \A i \in 1..(Len(s) - 1) : PlacesOfSegment[s[i]] = PlacesOfSegment[t[i]]
              /\ PlacesOfSegment[t[Len(s)]] = PlacesOfSegment[s[Len(s)]] \o x
              => Held(t) = Held(s) \o x
         /\ \A k \in 1..(Len(s) - 1) :
              /\ \A i \in 1..Len(s) : i # k /\ i # k + 1 => PlacesOfSegment[s[i]] = PlacesOfSegment[t[i]]
              /\ PlacesOfSegment[s[k]] \o PlacesOfSegment[s[k + 1]]
                   = PlacesOfSegment[t[k]] \o PlacesOfSegment[t[k + 1]]
              => Held(t) = Held(s)
<1> DEFINE E(u) == [i \in 1..Len(u) |-> PlacesOfSegment[u[i]]]
           a == E(s)
           b == E(t)
           n == Len(s)
<1>1. PlacesOfSegment \in Expansions(AnySegment, Nat)
  BY PlacesAreSequences
<1>2. n \in Nat /\ Len(t) = n
  OBVIOUS
<1>3. a \in Seq(Seq(Nat)) /\ b \in Seq(Seq(Nat))
  BY <1>1, SpreadType
<1>4. /\ Len(a) = n /\ \A i \in 1..n : a[i] = PlacesOfSegment[s[i]]
      /\ Len(b) = n /\ \A i \in 1..n : b[i] = PlacesOfSegment[t[i]]
  BY <1>2
<1>5. Held(s) = FlattenSeq(a) /\ Held(t) = FlattenSeq(b)
  BY Zenon DEF Held, Spread
<1> HIDE DEF a, b, E, n
<1>6. ASSUME \A i \in 1..n : PlacesOfSegment[s[i]] = PlacesOfSegment[t[i]] PROVE Held(t) = Held(s)
  <2>1. \A i \in 1..n : a[i] = b[i]
    BY <1>4, <1>6
  <2>2. a = b
    BY <1>3, <1>4, <2>1, SeqEqual
  <2>3. QED
    BY <1>5, <2>2
<1>7. ASSUME NEW x \in Seq(Nat), n # 0,
             \A i \in 1..(n - 1) : PlacesOfSegment[s[i]] = PlacesOfSegment[t[i]],
             PlacesOfSegment[t[n]] = PlacesOfSegment[s[n]] \o x
      PROVE  Held(t) = Held(s) \o x
  <2>1. n \in Nat \ {0} /\ n \in 1..n /\ \A i \in 1..(n - 1) : i \in 1..n
    BY <1>2, <1>7
  <2>2. Longer(a, b, n, x)
    BY <1>4, <1>7, <2>1, Zenon DEF Longer
  <2>3. \A i \in 1..(n - 1) : a[i] = b[i]
    BY <1>4, <1>7, <2>1
  <2>4. FlattenSeq(b) = FlattenSeq(a) \o x
    BY <1>3, <1>4, <2>1, <2>2, <2>3, FlattenLonger
  <2>5. QED
    BY <1>5, <2>4
<1>8. ASSUME NEW k \in 1..(n - 1),
             \A i \in 1..n : i # k /\ i # k + 1 => PlacesOfSegment[s[i]] = PlacesOfSegment[t[i]],
             PlacesOfSegment[s[k]] \o PlacesOfSegment[s[k + 1]]
               = PlacesOfSegment[t[k]] \o PlacesOfSegment[t[k + 1]]
      PROVE  Held(t) = Held(s)
  <2>1. k \in 1..n /\ k + 1 \in 1..n
    BY <1>2
  <2>2. Both(a, k) = Both(b, k)
    BY <1>4, <1>8, <2>1, Zenon DEF Both
  <2>3. \A i \in 1..n : i # k /\ i # k + 1 => a[i] = b[i]
    BY <1>4, <1>8
  <2>4. FlattenSeq(a) = FlattenSeq(b)
    BY <1>3, <1>4, <2>2, <2>3, FlattenPair
  <2>5. QED
    BY <1>5, <2>4
<1>9. QED
  BY <1>6, <1>7, <1>8 DEF n

(* What follows the last vowel goes to the last coda.                      *)
LEMMA EndStep ==
  ASSUME HebrewInv, EndOfWord PROVE HebrewInv'
<1> DEFINE n == Len(segments)
           N == Len(glyphs)
<1>1. /\ hebrew = "reading" /\ looked > N /\ looked \in Nat /\ N \in Nat /\ n \in Nat
      /\ onset \in Seq(AnySound) /\ segments \in Seq(AnySegment) /\ glyphs \in Seq(PlacedGlyph)
      /\ looked <= N + 1
  <2>1. Len(glyphs) \in Nat /\ Len(segments) \in Nat
    BY DEF HebrewInv, HebrewType
  <2>2. QED
    BY <2>1 DEF HebrewInv, HebrewType, ReadingInv, EndOfWord
<1>2. looked - 1 = N
  BY <1>1
<1>3. /\ Held(segments) \o PlacesIn(onset) = Up(N) /\ ~silenced
      /\ \A i \in 1..n : segments[i].coda = << >> /\ segments[i].nucleus # "silent"
      /\ \A v \in Nat : IsLastVoweled(v, N) =>
           /\ n # 0 /\ Held(segments) = Up(v)
           /\ glyphs[v].vowel # "sheva" => segments[n].nucleus # "schwa"
  BY <1>1, <1>2 DEF HebrewInv, ReadingInv
<1>4. /\ hebrew' = "deciding" /\ onset' = << >> /\ looked' = 1
      /\ segments' = IF segments = << >> THEN << >>
                     ELSE [segments EXCEPT ![n].coda = @ \o onset]
      /\ word' = word /\ glyphs' = glyphs /\ silenced' = silenced /\ ipa' = ipa
  BY DEF EndOfWord
<1>5. /\ segments' \in Seq(AnySegment) /\ Len(segments') = n
      /\ \A i \in 1..(n - 1) : segments'[i] = segments[i]
      /\ n # 0 => /\ segments[n] \in AnySegment
                  /\ segments'[n] = [segments[n] EXCEPT !.coda = onset]
  <2>1. CASE segments = << >>
    BY <1>4, <2>1
  <2>2. CASE segments # << >>
    <3>1. n # 0 /\ n \in 1..n
      BY <1>1, <2>2
    <3>2. segments[n] \in AnySegment /\ segments[n].coda = << >>
      BY <1>1, <1>3, <3>1
    <3>3. segments[n].coda \o onset = onset
      BY <1>1, <3>2
    <3> DEFINE x == [segments[n] EXCEPT !.coda = onset]
    <3>4. x \in AnySegment
      BY <1>1, <3>2 DEF AnySegment
    <3>5. segments' = [segments EXCEPT ![n] = x]
      BY <1>4, <2>2, <3>3
    <3> HIDE DEF x
    <3>6. segments' \in Seq(AnySegment) /\ Len(segments') = n /\ segments'[n] = x
          /\ \A i \in 1..(n - 1) : segments'[i] = segments[i]
      BY <1>1, <3>1, <3>4, <3>5
    <3>7. QED
      BY <3>2, <3>6 DEF x
  <2>3. QED
    BY <2>1, <2>2
<1>6. HebrewType'
  <2>1. << >> \in Seq(AnySound) /\ 1 \in Nat \ {0}
    OBVIOUS
  <2>2. QED
    BY <1>4, <1>5, <2>1 DEF HebrewInv, HebrewType
<1> HIDE DEF n
<1>7. ASSUME n # 0
      PROVE  /\ segments'[n].coda = onset /\ segments'[n].nucleus = segments[n].nucleus
             /\ segments'[n].onset = segments[n].onset
  BY <1>5, <1>7 DEF AnySegment
<1>8. n # 0 => Held(segments') = Held(segments) \o PlacesIn(onset)
  <2> SUFFICES ASSUME n # 0 PROVE Held(segments') = Held(segments) \o PlacesIn(onset)
    OBVIOUS
  <2>1. n \in 1..n
    BY <1>1
  <2>2. segments[n] \in AnySegment /\ segments'[n] \in AnySegment
    BY <1>1, <1>5, <2>1 DEF n
  <2>3. PlacesOfSegment[segments'[n]] = PlacesIn(segments[n].onset) \o PlacesIn(onset)
    BY <1>7, <2>2, SegmentPlaces
  <2>4. PlacesOfSegment[segments[n]] = PlacesIn(segments[n].onset)
    <3>1. PlacesIn(segments[n].coda) = << >>
      BY <1>3, <2>1, SoundsJoin
    <3>2. PlacesIn(segments[n].onset) \in Seq(Nat)
      BY <2>2, SegmentPlaces
    <3>3. PlacesIn(segments[n].onset) \o << >> = PlacesIn(segments[n].onset)
      BY <3>2
    <3>4. QED
      BY <2>2, <3>1, <3>3, SegmentPlaces
  <2>5. PlacesOfSegment[segments'[n]] = PlacesOfSegment[segments[n]] \o PlacesIn(onset)
    BY <2>3, <2>4
  <2>6. PlacesIn(onset) \in Seq(Nat)
    BY <1>1, SoundsJoin
  <2>7. \A i \in 1..(n - 1) : PlacesOfSegment[segments[i]] = PlacesOfSegment[segments'[i]]
    BY <1>5
  <2>8. QED
    BY <1>1, <1>5, <2>5, <2>6, <2>7, HeldAlike, Zenon DEF n
<1>9. /\ \A k : Up(k)' = Up(k)
      /\ \A i : IsLastVoweled(i, Len(glyphs))' <=> IsLastVoweled(i, N)
      /\ Len(glyphs') = N
  <2>1. \A k : Voweled(k)' <=> Voweled(k)
    BY <1>4 DEF Voweled
  <2>2. \A k : Up(k)' = Up(k)
    BY <1>4 DEF Up
  <2>3. Len(glyphs') = N
    BY <1>4
  <2>4. \A i : IsLastVoweled(i, Len(glyphs))' <=> IsLastVoweled(i, N)
    BY <2>1, <2>3, Zenon DEF IsLastVoweled
  <2>5. QED
    BY <2>2, <2>3, <2>4
<1>10. DecideInv'
  <2>1. \A i \in 1..n : segments'[i].nucleus # "silent"
    <3> SUFFICES ASSUME NEW i \in 1..n PROVE segments'[i].nucleus # "silent"
      OBVIOUS
    <3>1. i \in 1..(n - 1) \/ (i = n /\ n # 0)
      BY <1>1
    <3>2. QED
      BY <1>3, <1>5, <1>7, <3>1
  <2>2. \A i \in 1..(n - 1) : segments'[i].coda = << >>
    <3>1. \A i \in 1..(n - 1) : i \in 1..n
      BY <1>1
    <3>2. QED
      BY <1>3, <1>5, <3>1
  <2>3. ASSUME NEW v \in Nat, IsLastVoweled(v, Len(glyphs))'
        PROVE  /\ Len(segments') # 0
               /\ Held(segments') = Up(N)'
               /\ Up(v)' \o PlacesIn(segments'[n].coda) = Up(N)'
               /\ glyphs'[v].vowel # "sheva" => segments'[n].nucleus \notin {"schwa", "silent"}
    <3>1. n # 0 /\ Held(segments) = Up(v)
          /\ (glyphs[v].vowel # "sheva" => segments[n].nucleus # "schwa")
      BY <1>3, <1>9, <2>3
    <3>2. n \in 1..n
      BY <1>1, <3>1
    <3>3. Held(segments') = Up(N)
      BY <1>3, <1>8, <3>1
    <3>4. Up(v) \o PlacesIn(segments'[n].coda) = Up(N)
      BY <1>3, <1>7, <3>1
    <3>5. glyphs[v].vowel # "sheva" => segments'[n].nucleus \notin {"schwa", "silent"}
      BY <1>3, <1>7, <3>1, <3>2
    <3>6. Up(v)' = Up(v) /\ Up(N)' = Up(N)
      BY <1>9, Zenon
    <3>7. QED
      BY <1>4, <1>5, <3>1, <3>3, <3>4, <3>5, <3>6
  <2>4. Up(Len(glyphs))' = Up(N)'
    BY <1>4, <1>9, Zenon DEF Up
  <2>5. Len(segments') = n /\ looked' <= n + 1 /\ ~(looked' > 1)
    BY <1>1, <1>4, <1>5
  <2>6. QED
    BY <1>3, <1>4, <2>1, <2>2, <2>3, <2>4, <2>5 DEF DecideInv
<1>11. QED
  BY <1>4, <1>6, <1>10 DEF HebrewInv, GivenInv, ReadingInv, HeardInv

(* What deciding a sheva is about.                                         *)
LEMMA DecidingIs ==
  ASSUME HebrewInv, Decides
  PROVE  /\ hebrew = "deciding" /\ looked \in 1..Len(segments) /\ looked \in Nat /\ Len(segments) \in Nat
         /\ segments \in Seq(AnySegment) /\ segments[looked] \in AnySegment
         /\ silenced <=> (looked > 1 /\ segments[looked - 1].nucleus = "silent")
         /\ \A i \in 1..Len(segments) : segments[i].nucleus = "silent" =>
              1 < i /\ i < looked /\ segments[i].onset = << >> /\ segments[i - 1].nucleus # "silent"
         /\ \A i \in 1..(Len(segments) - 1) :
              looked <= i \/ segments[i].nucleus = "silent" => segments[i].coda = << >>
         /\ \A v \in Nat : IsLastVoweled(v, Len(glyphs)) =>
              /\ Len(segments) # 0
              /\ Held(segments) = Up(Len(glyphs))
              /\ Up(v) \o PlacesIn(segments[Len(segments)].coda) = Up(Len(glyphs))
              /\ glyphs[v].vowel # "sheva" => segments[Len(segments)].nucleus \notin {"schwa", "silent"}
<1>1. /\ hebrew = "deciding" /\ looked \in Nat /\ looked >= 1 /\ segments \in Seq(AnySegment)
      /\ looked <= Len(segments)
  BY DEF HebrewInv, HebrewType, Decides
<1>2. Len(segments) \in Nat
  BY <1>1
<1>3. looked \in 1..Len(segments)
  BY <1>1, <1>2
<1>4. segments[looked] \in AnySegment
  BY <1>1, <1>3
<1>5. QED
  BY <1>1, <1>2, <1>3, <1>4 DEF HebrewInv, DecideInv

(* A sheva that is heard holds what it held.                               *)
LEMMA SpeakStep ==
  ASSUME HebrewInv, SpeakSheva PROVE HebrewInv'
<1> DEFINE n == Len(segments)
           N == Len(glyphs)
<1>1. Decides
  BY DEF SpeakSheva
<1>2. /\ hebrew = "deciding" /\ looked \in 1..n /\ looked \in Nat /\ n \in Nat
      /\ segments \in Seq(AnySegment) /\ segments[looked] \in AnySegment
      /\ silenced <=> (looked > 1 /\ segments[looked - 1].nucleus = "silent")
      /\ \A i \in 1..n : segments[i].nucleus = "silent" =>
           1 < i /\ i < looked /\ segments[i].onset = << >> /\ segments[i - 1].nucleus # "silent"
      /\ \A i \in 1..(n - 1) :
           looked <= i \/ segments[i].nucleus = "silent" => segments[i].coda = << >>
      /\ \A v \in Nat : IsLastVoweled(v, N) =>
           /\ n # 0
           /\ Held(segments) = Up(N)
           /\ Up(v) \o PlacesIn(segments[n].coda) = Up(N)
           /\ glyphs[v].vowel # "sheva" => segments[n].nucleus \notin {"schwa", "silent"}
  BY <1>1, DecidingIs
<1>3. /\ hebrew' = "deciding" /\ silenced' = FALSE /\ looked' = looked + 1
      /\ word' = word /\ glyphs' = glyphs /\ onset' = onset /\ ipa' = ipa
      /\ segments' = IF segments[looked].nucleus = "schwa"
                     THEN [segments EXCEPT ![looked].nucleus = "e"] ELSE segments
  BY <1>2 DEF SpeakSheva
<1> HIDE DEF n
<1>4. /\ segments' \in Seq(AnySegment) /\ Len(segments') = n
      /\ \A i \in 1..n : i # looked => segments'[i] = segments[i]
      /\ segments'[looked].onset = segments[looked].onset
      /\ segments'[looked].coda = segments[looked].coda
      /\ segments'[looked].nucleus = IF segments[looked].nucleus = "schwa" THEN "e" ELSE segments[looked].nucleus
  <2>1. CASE segments[looked].nucleus = "schwa"
    <3> DEFINE x == [segments[looked] EXCEPT !.nucleus = "e"]
    <3>1. /\ x \in AnySegment /\ x.onset = segments[looked].onset /\ x.coda = segments[looked].coda
          /\ x.nucleus = "e"
      BY <1>2 DEF AnySegment, Nuclei
    <3>2. segments' = [segments EXCEPT ![looked] = x]
      BY <1>3, <2>1
    <3> HIDE DEF x
    <3>3. segments' \in Seq(AnySegment) /\ Len(segments') = n /\ segments'[looked] = x
          /\ \A i \in 1..n : i # looked => segments'[i] = segments[i]
      BY <1>2, <3>1, <3>2 DEF n
    <3>4. QED
      BY <2>1, <3>1, <3>3
  <2>2. CASE segments[looked].nucleus # "schwa"
    BY <1>2, <1>3, <2>2 DEF n
  <2>3. QED
    BY <2>1, <2>2
<1>5. HebrewType'
  <2>1. looked' \in Nat \ {0} /\ FALSE \in BOOLEAN
    BY <1>2, <1>3
  <2>2. QED
    BY <1>3, <1>4, <2>1 DEF HebrewInv, HebrewType
<1>6. \A i \in 1..n : /\ segments'[i].onset = segments[i].onset /\ segments'[i].coda = segments[i].coda
                      /\ segments'[i].nucleus = "silent" <=> segments[i].nucleus = "silent"
                      /\ segments[i].nucleus \notin {"schwa", "silent"} =>
                           segments'[i].nucleus \notin {"schwa", "silent"}
  <2> SUFFICES ASSUME NEW i \in 1..n
               PROVE  /\ segments'[i].onset = segments[i].onset /\ segments'[i].coda = segments[i].coda
                      /\ segments'[i].nucleus = "silent" <=> segments[i].nucleus = "silent"
                      /\ segments[i].nucleus \notin {"schwa", "silent"} =>
                           segments'[i].nucleus \notin {"schwa", "silent"}
    OBVIOUS
  <2>1. CASE i = looked
    BY <1>4, <2>1
  <2>2. CASE i # looked
    BY <1>4, <2>2
  <2>3. QED
    BY <2>1, <2>2
<1>7. Held(segments') = Held(segments)
  <2>1. \A i \in 1..n : segments[i] \in AnySegment /\ segments'[i] \in AnySegment
    BY <1>2, <1>4 DEF n
  <2>2. \A i \in 1..n : PlacesOfSegment[segments[i]] = PlacesOfSegment[segments'[i]]
    BY <1>6, <2>1, SegmentPlaces
  <2>3. QED
    BY <1>2, <1>4, <2>2, HeldAlike, Zenon DEF n
<1>8. /\ \A k : Up(k)' = Up(k)
      /\ \A i : IsLastVoweled(i, Len(glyphs))' <=> IsLastVoweled(i, N)
      /\ Len(glyphs') = N
  <2>1. \A k : Voweled(k)' <=> Voweled(k)
    BY <1>3 DEF Voweled
  <2>2. \A k : Up(k)' = Up(k)
    BY <1>3 DEF Up
  <2>4. \A i : IsLastVoweled(i, Len(glyphs))' <=> IsLastVoweled(i, N)
    BY <1>3, <2>1, Zenon DEF IsLastVoweled
  <2>5. QED
    BY <1>3, <2>2, <2>4
<1>9. DecideInv'
  <2>1. looked' <= n + 1 /\ looked' - 1 = looked /\ looked' > 1
    BY <1>2, <1>3
  <2>2. segments'[looked].nucleus # "silent"
    <3>1. ~(looked < looked)
      BY <1>2
    <3>2. segments[looked].nucleus # "silent"
      BY <1>2, <3>1
    <3>3. QED
      BY <1>2, <1>6, <3>2
  <2>3. \A i \in 1..n : segments'[i].nucleus = "silent" =>
          1 < i /\ i < looked' /\ segments'[i].onset = << >> /\ segments'[i - 1].nucleus # "silent"
    <3> SUFFICES ASSUME NEW i \in 1..n, segments'[i].nucleus = "silent"
                 PROVE  1 < i /\ i < looked' /\ segments'[i].onset = << >> /\ segments'[i - 1].nucleus # "silent"
      OBVIOUS
    <3>1. 1 < i /\ i < looked /\ segments[i].onset = << >> /\ segments[i - 1].nucleus # "silent"
      BY <1>2, <1>6
    <3>2. i - 1 \in 1..n /\ i < looked'
      BY <1>2, <1>3, <3>1
    <3>3. QED
      BY <1>6, <3>1, <3>2
  <2>4. \A i \in 1..(n - 1) :
          looked' <= i \/ segments'[i].nucleus = "silent" => segments'[i].coda = << >>
    <3> SUFFICES ASSUME NEW i \in 1..(n - 1), looked' <= i \/ segments'[i].nucleus = "silent"
                 PROVE  segments'[i].coda = << >>
      OBVIOUS
    <3>1. i \in 1..n /\ (looked' <= i => looked <= i)
      BY <1>2, <1>3
    <3>2. QED
      BY <1>2, <1>6, <3>1
  <2>5. ASSUME NEW v \in Nat, IsLastVoweled(v, Len(glyphs))'
        PROVE  /\ n # 0
               /\ Held(segments') = Up(N)'
               /\ Up(v)' \o PlacesIn(segments'[n].coda) = Up(N)'
               /\ glyphs'[v].vowel # "sheva" => segments'[n].nucleus \notin {"schwa", "silent"}
    <3>1. /\ n # 0 /\ Held(segments) = Up(N)
          /\ Up(v) \o PlacesIn(segments[n].coda) = Up(N)
          /\ glyphs[v].vowel # "sheva" => segments[n].nucleus \notin {"schwa", "silent"}
      BY <1>2, <1>8, <2>5
    <3>2. n \in 1..n
      BY <1>2, <3>1
    <3>3. Up(v)' = Up(v) /\ Up(N)' = Up(N)
      BY <1>8, Zenon
    <3>4. segments'[n].coda = segments[n].coda
      BY <1>6, <3>2
    <3>5. QED
      BY <1>3, <1>6, <1>7, <3>1, <3>2, <3>3, <3>4
  <2>6. Up(Len(glyphs))' = Up(N)'
    BY <1>3, <1>8, Zenon DEF Up
  <2>7. (silenced <=> (looked > 1 /\ segments[looked - 1].nucleus = "silent"))'
    BY <1>3, <2>1, <2>2
  <2>8. Len(segments') = n
    BY <1>4
  <2>9. QED
    BY <1>3, <2>1, <2>3, <2>4, <2>5, <2>6, <2>7, <2>8 DEF DecideInv
<1>10. QED
  BY <1>3, <1>5, <1>9 DEF HebrewInv, GivenInv, ReadingInv, HeardInv

(* A silent sheva gives its consonants to the segment before.              *)
LEMMA SilenceStep ==
  ASSUME HebrewInv, SilenceSheva PROVE HebrewInv'
<1> DEFINE n == Len(segments)
           N == Len(glyphs)
           b == looked - 1
<1>1. Decides
  BY DEF SilenceSheva
<1>2. /\ hebrew = "deciding" /\ looked \in 1..n /\ looked \in Nat /\ n \in Nat
      /\ segments \in Seq(AnySegment) /\ segments[looked] \in AnySegment
      /\ silenced <=> (looked > 1 /\ segments[looked - 1].nucleus = "silent")
      /\ \A i \in 1..n : segments[i].nucleus = "silent" =>
           1 < i /\ i < looked /\ segments[i].onset = << >> /\ segments[i - 1].nucleus # "silent"
      /\ \A i \in 1..(n - 1) :
           looked <= i \/ segments[i].nucleus = "silent" => segments[i].coda = << >>
      /\ \A v \in Nat : IsLastVoweled(v, N) =>
           /\ n # 0
           /\ Held(segments) = Up(N)
           /\ Up(v) \o PlacesIn(segments[n].coda) = Up(N)
           /\ glyphs[v].vowel # "sheva" => segments[n].nucleus \notin {"schwa", "silent"}
  BY <1>1, DecidingIs
<1>3. /\ hebrew' = "deciding" /\ silenced' = TRUE /\ looked' = looked + 1
      /\ word' = word /\ glyphs' = glyphs /\ onset' = onset /\ ipa' = ipa
      /\ segments' = [segments EXCEPT ![looked - 1].coda = Moved,
                                      ![looked].onset = << >>, ![looked].nucleus = "silent"]
      /\ segments[looked].nucleus = "schwa"
  BY <1>2 DEF SilenceSheva
<1>4. looked # 1 /\ ~silenced
  BY DEF SilenceSheva, Sounds
<1>5. /\ b \in 1..n /\ b \in 1..(n - 1) /\ b + 1 = looked /\ b # looked /\ b \in Nat
      /\ segments[b] \in AnySegment /\ segments[b].nucleus # "silent"
  <2>1. b \in 1..n /\ b \in 1..(n - 1) /\ b + 1 = looked /\ b # looked /\ b \in Nat /\ looked > 1
    BY <1>2, <1>4
  <2>2. QED
    BY <1>2, <1>4, <2>1
<1> HIDE DEF n
<1>6. /\ segments' \in Seq(AnySegment) /\ Len(segments') = n
      /\ \A i \in 1..n : i # looked /\ i # b => segments'[i] = segments[i]
      /\ segments'[looked].onset = << >> /\ segments'[looked].coda = segments[looked].coda
      /\ segments'[looked].nucleus = "silent"
      /\ segments'[b].onset = segments[b].onset /\ segments'[b].nucleus = segments[b].nucleus
      /\ segments'[b].coda = segments[b].coda \o segments[looked].onset
  <2> DEFINE x == [segments[b] EXCEPT !.coda = segments[b].coda \o segments[looked].onset]
             y == [segments[looked] EXCEPT !.onset = << >>, !.nucleus = "silent"]
  <2>1. segments[b].coda \o segments[looked].onset \in Seq(AnySound) /\ << >> \in Seq(AnySound)
    <3>1. segments[b].coda \in Seq(AnySound) /\ segments[looked].onset \in Seq(AnySound)
      BY <1>2, <1>5 DEF AnySegment
    <3>2. QED
      BY <3>1
  <2>2. /\ x \in AnySegment /\ x.onset = segments[b].onset /\ x.nucleus = segments[b].nucleus
        /\ x.coda = segments[b].coda \o segments[looked].onset
    BY <1>5, <2>1 DEF AnySegment
  <2>3. /\ y \in AnySegment /\ y.onset = << >> /\ y.nucleus = "silent" /\ y.coda = segments[looked].coda
    BY <1>2, <2>1 DEF AnySegment, Nuclei
  <2>4. segments' = [segments EXCEPT ![b] = x, ![looked] = y]
    BY <1>2, <1>3, <1>5 DEF Moved, n
  <2> HIDE DEF x, y, b
  <2>5. segments' \in Seq(AnySegment) /\ Len(segments') = n /\ segments'[looked] = y /\ segments'[b] = x
        /\ \A i \in 1..n : i # looked /\ i # b => segments'[i] = segments[i]
    BY <1>2, <1>5, <2>2, <2>3, <2>4 DEF n
  <2>6. QED
    BY <2>2, <2>3, <2>5
<1> HIDE DEF b
<1>7. HebrewType'
  <2>1. looked' \in Nat \ {0} /\ TRUE \in BOOLEAN
    BY <1>2, <1>3
  <2>2. QED
    BY <1>3, <1>6, <2>1 DEF HebrewInv, HebrewType
<1>8. \A i \in 1..n : /\ i # looked => /\ segments'[i].onset = segments[i].onset
                                       /\ segments'[i].nucleus = segments[i].nucleus
                      /\ i # b => segments'[i].coda = segments[i].coda
  <2> SUFFICES ASSUME NEW i \in 1..n
               PROVE  /\ i # looked => /\ segments'[i].onset = segments[i].onset
                                       /\ segments'[i].nucleus = segments[i].nucleus
                      /\ i # b => segments'[i].coda = segments[i].coda
    OBVIOUS
  <2>1. CASE i = looked
    BY <1>6, <2>1
  <2>2. CASE i = b
    BY <1>6, <2>2
  <2>3. CASE i # looked /\ i # b
    BY <1>6, <2>3
  <2>4. QED
    BY <2>1, <2>2, <2>3
<1>9. Held(segments') = Held(segments)
  <2>1. \A i \in 1..n : segments[i] \in AnySegment /\ segments'[i] \in AnySegment
    BY <1>2, <1>6 DEF n
  <2>2. \A i \in 1..n : i # b /\ i # b + 1 => PlacesOfSegment[segments[i]] = PlacesOfSegment[segments'[i]]
    BY <1>5, <1>6
  <2>3. PlacesOfSegment[segments[b]] \o PlacesOfSegment[segments[b + 1]]
          = PlacesOfSegment[segments'[b]] \o PlacesOfSegment[segments'[b + 1]]
    <3> DEFINE o1 == PlacesIn(segments[b].onset)
               c1 == PlacesIn(segments[b].coda)
               o2 == PlacesIn(segments[looked].onset)
               c2 == PlacesIn(segments[looked].coda)
    <3>1. /\ o1 \in Seq(Nat) /\ c1 \in Seq(Nat) /\ o2 \in Seq(Nat) /\ c2 \in Seq(Nat)
          /\ PlacesOfSegment[segments[b]] = o1 \o c1
          /\ PlacesOfSegment[segments[looked]] = o2 \o c2
      BY <1>2, <1>5, SegmentPlaces
    <3>2. PlacesIn(segments'[b].coda) = c1 \o o2
      <4>1. segments[b].coda \in Seq(AnySound) /\ segments[looked].onset \in Seq(AnySound)
        BY <1>2, <1>5, SegmentPlaces
      <4>2. QED
        BY <1>6, <4>1, SoundsJoin
    <3>3. PlacesOfSegment[segments'[b]] = o1 \o (c1 \o o2)
      <4>1. segments'[b] \in AnySegment
        BY <1>5, <2>1
      <4>2. PlacesOfSegment[segments'[b]] = PlacesIn(segments'[b].onset) \o PlacesIn(segments'[b].coda)
        BY <4>1, SegmentPlaces
      <4>3. QED
        BY <1>6, <3>2, <4>2
    <3>4. PlacesOfSegment[segments'[looked]] = c2
      <4>1. segments'[looked] \in AnySegment
        BY <1>2, <2>1
      <4>2. PlacesOfSegment[segments'[looked]] = PlacesIn(segments'[looked].onset) \o PlacesIn(segments'[looked].coda)
        BY <4>1, SegmentPlaces
      <4>3. PlacesIn(segments'[looked].onset) = << >> /\ PlacesIn(segments'[looked].coda) = c2
        BY <1>6, SoundsJoin
      <4>4. << >> \o c2 = c2
        BY <3>1
      <4>5. QED
        BY <4>2, <4>3, <4>4
    <3> HIDE DEF o1, c1, o2, c2
    <3>5. (o1 \o c1) \o (o2 \o c2) = (o1 \o (c1 \o o2)) \o c2
      <4>1. o1 \o c1 \in Seq(Nat)
        BY <3>1
      <4>2. (o1 \o c1) \o (o2 \o c2) = ((o1 \o c1) \o o2) \o c2
        BY <3>1, <4>1, ConsonantsJoin, Zenon DEF Associates
      <4>3. (o1 \o c1) \o o2 = o1 \o (c1 \o o2)
        BY <3>1, ConsonantsJoin, Zenon DEF Associates
      <4>4. QED
        BY <4>2, <4>3, Zenon
    <3>6. QED
      BY <1>5, <3>1, <3>3, <3>4, <3>5, Zenon
  <2>4. QED
    BY <1>2, <1>5, <1>6, <2>2, <2>3, HeldAlike, Zenon DEF n
<1>10. /\ \A k : Up(k)' = Up(k)
       /\ \A i : IsLastVoweled(i, Len(glyphs))' <=> IsLastVoweled(i, N)
       /\ Len(glyphs') = N
  <2>1. \A k : Voweled(k)' <=> Voweled(k)
    BY <1>3 DEF Voweled
  <2>2. \A k : Up(k)' = Up(k)
    BY <1>3 DEF Up
  <2>4. \A i : IsLastVoweled(i, Len(glyphs))' <=> IsLastVoweled(i, N)
    BY <1>3, <2>1, Zenon DEF IsLastVoweled
  <2>5. QED
    BY <1>3, <2>2, <2>4
<1>11. DecideInv'
  <2>1. looked' <= n + 1 /\ looked' - 1 = looked /\ looked' > 1
    <3>1. looked \in 1..n /\ looked \in Nat /\ n \in Nat /\ looked' = looked + 1
      BY <1>2, <1>3
    <3>2. QED
      BY <3>1
  <2>3. \A i \in 1..n : segments'[i].nucleus = "silent" =>
          1 < i /\ i < looked' /\ segments'[i].onset = << >> /\ segments'[i - 1].nucleus # "silent"
    <3> SUFFICES ASSUME NEW i \in 1..n, segments'[i].nucleus = "silent"
                 PROVE  1 < i /\ i < looked' /\ segments'[i].onset = << >> /\ segments'[i - 1].nucleus # "silent"
      OBVIOUS
    <3>1. CASE i = looked
      <4>1. 1 < i /\ i < looked' /\ i - 1 = b
        BY <1>2, <1>3, <1>4, <3>1 DEF b
      <4>2. QED
        BY <1>5, <1>6, <3>1, <4>1
    <3>2. CASE i # looked
      <4>1. 1 < i /\ i < looked /\ segments[i].onset = << >> /\ segments[i - 1].nucleus # "silent"
        BY <1>2, <1>8, <3>2
      <4>2. i - 1 \in 1..n /\ i < looked' /\ i - 1 # looked
        BY <1>2, <1>3, <4>1
      <4>3. QED
        BY <1>8, <3>2, <4>1, <4>2
    <3>3. QED
      BY <3>1, <3>2
  <2>4. \A i \in 1..(n - 1) :
          looked' <= i \/ segments'[i].nucleus = "silent" => segments'[i].coda = << >>
    <3> SUFFICES ASSUME NEW i \in 1..(n - 1), looked' <= i \/ segments'[i].nucleus = "silent"
                 PROVE  segments'[i].coda = << >>
      OBVIOUS
    <3>1. i \in 1..n /\ (looked' <= i => looked <= i /\ i # b)
      BY <1>2, <1>3 DEF b
    <3>2. i # b
      BY <1>5, <1>6, <3>1
    <3>3. segments[i].coda = << >>
      <4>1. CASE i = looked
        BY <1>2, <4>1
      <4>2. CASE i # looked
        BY <1>2, <1>8, <3>1, <4>2
      <4>3. QED
        BY <4>1, <4>2
    <3>4. QED
      BY <1>8, <3>1, <3>2, <3>3
  <2>5. ASSUME NEW v \in Nat, IsLastVoweled(v, Len(glyphs))'
        PROVE  /\ n # 0
               /\ Held(segments') = Up(N)'
               /\ Up(v)' \o PlacesIn(segments'[n].coda) = Up(N)'
               /\ glyphs'[v].vowel # "sheva" => segments'[n].nucleus \notin {"schwa", "silent"}
    <3>1. /\ n # 0 /\ Held(segments) = Up(N)
          /\ Up(v) \o PlacesIn(segments[n].coda) = Up(N)
          /\ glyphs[v].vowel # "sheva" => segments[n].nucleus \notin {"schwa", "silent"}
      BY <1>2, <1>10, <2>5
    <3>2. n \in 1..n /\ n # b
      BY <1>2, <1>5, <3>1
    <3>3. Up(v)' = Up(v) /\ Up(N)' = Up(N)
      BY <1>10, Zenon
    <3>4. segments'[n].coda = segments[n].coda
      BY <1>8, <3>2
    <3>5. glyphs'[v].vowel # "sheva" => segments'[n].nucleus \notin {"schwa", "silent"}
      <4>1. n = looked => segments[n].nucleus = "schwa"
        BY <1>3
      <4>2. QED
        BY <1>3, <1>8, <3>1, <3>2, <4>1
    <3>6. QED
      BY <1>9, <3>1, <3>3, <3>4, <3>5
  <2>6. Up(Len(glyphs))' = Up(N)'
    BY <1>3, <1>10, Zenon DEF Up
  <2>7. (silenced <=> (looked > 1 /\ segments[looked - 1].nucleus = "silent"))'
    BY <1>3, <1>6, <2>1
  <2>8. Len(segments') = n
    BY <1>6
  <2>9. QED
    BY <1>3, <2>1, <2>3, <2>4, <2>5, <2>6, <2>7, <2>8 DEF DecideInv
<1>12. QED
  BY <1>3, <1>7, <1>11 DEF HebrewInv, GivenInv, ReadingInv, HeardInv

(* No ordinary consonant is lost between the segments and the sounds.      *)
LEMMA RealizedHolds ==
  ASSUME NEW x \in Seq(AnySound)
  PROVE  Realized(x) \in Seq(AnySound) /\ PlacesIn(Realized(x)) = PlacesIn(x)
<1> DEFINE Gone(i) == x[i].sound = "alef" /\ ~BeforeVowel(x, i)
           ss == [i \in 1..Len(x) |-> IF Gone(i) THEN << >> ELSE <<x[i]>>]
<1>1. DOMAIN x = 1..Len(x) /\ Len(x) \in Nat /\ \A i \in 1..Len(x) : x[i] \in AnySound
  OBVIOUS
<1>2. Realized(x) = FlattenSeq(ss)
  BY <1>1 DEF Realized
<1>3. /\ ss \in Seq(Seq(AnySound)) /\ Len(ss) = Len(x)
      /\ \A i \in 1..Len(x) : ss[i] = IF Gone(i) THEN << >> ELSE <<x[i]>>
  <2>1. \A i \in 1..Len(x) : (IF Gone(i) THEN << >> ELSE <<x[i]>>) \in Seq(AnySound)
    BY <1>1
  <2>2. QED
    BY <1>1, <2>1
<1> HIDE DEF ss
<1>4. PlaceOfSound \in Expansions(AnySound, Nat)
  BY PlacesAreSequences
<1>5. FlattenSeq(ss) \in Seq(AnySound)
  BY <1>3, FlattenType
<1>6. Spread(PlaceOfSound, FlattenSeq(ss)) = FlattenSeq([i \in 1..Len(ss) |-> Spread(PlaceOfSound, ss[i])])
  BY <1>3, <1>4, SpreadFlatten
<1>7. \A i \in 1..Len(x) : Spread(PlaceOfSound, ss[i]) = PlaceOfSound[x[i]]
  <2> SUFFICES ASSUME NEW i \in 1..Len(x) PROVE Spread(PlaceOfSound, ss[i]) = PlaceOfSound[x[i]]
    OBVIOUS
  <2>1. CASE Gone(i)
    <3>1. PlaceOfSound[x[i]] = << >>
      BY <1>1, <2>1 DEF PlaceOfSound, Ordinary
    <3>2. ss[i] = << >>
      BY <1>3, <2>1
    <3>3. QED
      BY <3>1, <3>2, SpreadEmpty
  <2>2. CASE ~Gone(i)
    <3>1. ss[i] = <<x[i]>> /\ x[i] \in AnySound
      BY <1>1, <1>3, <2>2
    <3>2. QED
      BY <1>4, <3>1, SpreadOne
  <2>3. QED
    BY <2>1, <2>2
<1>8. [i \in 1..Len(ss) |-> Spread(PlaceOfSound, ss[i])] = [i \in 1..Len(x) |-> PlaceOfSound[x[i]]]
  BY <1>3, <1>7
<1>9. Spread(PlaceOfSound, FlattenSeq(ss)) = Spread(PlaceOfSound, x)
  BY <1>6, <1>8, Zenon DEF Spread
<1>10. QED
  BY <1>2, <1>5, <1>9 DEF PlacesIn

LEMMA JoinedHolds ==
  ASSUME NEW m \in Seq(AnySegment)
  PROVE  Joined(m) \in Seq(AnySound) /\ PlacesIn(Joined(m)) = Held(m)
<1> DEFINE stress(i) == IF i = Stressed(m) THEN Sound("stress") ELSE << >>
           piece(i) == m[i].onset \o stress(i) \o Sound(m[i].nucleus) \o m[i].coda
           ss == [i \in 1..Len(m) |-> piece(i)]
<1>1. DOMAIN m = 1..Len(m) /\ Len(m) \in Nat /\ \A i \in 1..Len(m) : m[i] \in AnySegment
  OBVIOUS
<1>2. Joined(m) = FlattenSeq(ss)
  BY <1>1 DEF Joined
<1>3. ASSUME NEW s \in Nuclei \cup {"stress"}
      PROVE  Sound(s) \in Seq(AnySound) /\ PlacesIn(Sound(s)) = << >>
  <2> DEFINE x == [sound |-> s, place |-> 0]
  <2>1. x \in AnySound
    BY DEF AnySound
  <2>2. ~Ordinary(x.sound)
    BY DEF Ordinary, Nuclei
  <2> HIDE DEF x
  <2>3. PlacesIn(<<x>>) = << >>
    BY <2>1, <2>2, SoundsJoin
  <2>4. <<x>> \in Seq(AnySound)
    BY <2>1
  <2>5. QED
    BY <2>3, <2>4 DEF Sound, x
<1>4. ASSUME NEW i \in 1..Len(m)
      PROVE  piece(i) \in Seq(AnySound) /\ PlacesIn(piece(i)) = PlacesOfSegment[m[i]]
  <2> DEFINE o == m[i].onset
             c == m[i].coda
             t == stress(i)
             v == Sound(m[i].nucleus)
  <2>1. /\ o \in Seq(AnySound) /\ c \in Seq(AnySound) /\ m[i].nucleus \in Nuclei
        /\ PlacesIn(o) \in Seq(Nat) /\ PlacesIn(c) \in Seq(Nat)
        /\ PlacesOfSegment[m[i]] = PlacesIn(o) \o PlacesIn(c)
    BY <1>1, SegmentPlaces
  <2>2. v \in Seq(AnySound) /\ PlacesIn(v) = << >>
    BY <1>3, <2>1
  <2>3. t \in Seq(AnySound) /\ PlacesIn(t) = << >>
    <3>1. Sound("stress") \in Seq(AnySound) /\ PlacesIn(Sound("stress")) = << >>
      BY <1>3
    <3>2. << >> \in Seq(AnySound) /\ PlacesIn(<< >>) = << >>
      BY SoundsJoin
    <3>3. QED
      BY <3>1, <3>2
  <2>4. piece(i) = ((o \o t) \o v) \o c
    OBVIOUS
  <2> HIDE DEF o, c, t, v
  <2>5. o \o t \in Seq(AnySound) /\ PlacesIn(o \o t) = PlacesIn(o)
    <3>1. o \o t \in Seq(AnySound)
      BY <2>1, <2>3
    <3>2. PlacesIn(o \o t) = PlacesIn(o) \o << >>
      BY <2>1, <2>3, SoundsJoin
    <3>3. QED
      BY <2>1, <3>1, <3>2
  <2>6. (o \o t) \o v \in Seq(AnySound) /\ PlacesIn((o \o t) \o v) = PlacesIn(o)
    <3> DEFINE w == o \o t
    <3> HIDE DEF w
    <3>0. w \in Seq(AnySound) /\ PlacesIn(w) = PlacesIn(o)
      BY <2>5 DEF w
    <3>1. w \o v \in Seq(AnySound)
      BY <2>2, <3>0
    <3>2. PlacesIn(w \o v) = PlacesIn(o) \o << >>
      BY <2>2, <3>0, SoundsJoin
    <3>3. w \o v \in Seq(AnySound) /\ PlacesIn(w \o v) = PlacesIn(o)
      BY <2>1, <3>1, <3>2
    <3>4. QED
      BY <3>3 DEF w
  <2>7. ((o \o t) \o v) \o c \in Seq(AnySound) /\ PlacesIn(((o \o t) \o v) \o c) = PlacesIn(o) \o PlacesIn(c)
    <3> DEFINE w == (o \o t) \o v
    <3> HIDE DEF w
    <3>0. w \in Seq(AnySound) /\ PlacesIn(w) = PlacesIn(o)
      BY <2>6 DEF w
    <3>1. w \o c \in Seq(AnySound)
      BY <2>1, <3>0
    <3>2. PlacesIn(w \o c) = PlacesIn(o) \o PlacesIn(c)
      BY <2>1, <3>0, SoundsJoin
    <3>4. QED
      BY <3>1, <3>2 DEF w
  <2>8. QED
    BY <2>1, <2>4, <2>7
<1> HIDE DEF piece
<1>5. ss \in Seq(Seq(AnySound)) /\ Len(ss) = Len(m) /\ \A i \in 1..Len(m) : ss[i] = piece(i)
  BY <1>1, <1>4
<1> HIDE DEF ss
<1>6. PlaceOfSound \in Expansions(AnySound, Nat)
  BY PlacesAreSequences
<1>7. FlattenSeq(ss) \in Seq(AnySound)
  BY <1>5, FlattenType
<1>8. Spread(PlaceOfSound, FlattenSeq(ss)) = FlattenSeq([i \in 1..Len(ss) |-> Spread(PlaceOfSound, ss[i])])
  BY <1>5, <1>6, SpreadFlatten
<1>9. \A i \in 1..Len(m) : Spread(PlaceOfSound, ss[i]) = PlacesOfSegment[m[i]]
  BY <1>4, <1>5 DEF PlacesIn
<1>10. [i \in 1..Len(ss) |-> Spread(PlaceOfSound, ss[i])] = [i \in 1..Len(m) |-> PlacesOfSegment[m[i]]]
  BY <1>5, <1>9
<1>11. PlacesIn(FlattenSeq(ss)) = Held(m)
  BY <1>8, <1>10, Zenon DEF Spread, Held, PlacesIn
<1>12. QED
  BY <1>2, <1>7, <1>11

LEMMA MergedHolds ==
  ASSUME HebrewInv, hebrew = "deciding", NEW n \in Nat \ {0}, n = Len(segments)
  PROVE  /\ Merged \in Seq(AnySegment)
         /\ segments[n].nucleus # "silent" => Held(segments) = Held(Merged)
         /\ segments[n].nucleus = "silent" => Held(segments) = Held(Merged) \o PlacesIn(segments[n].coda)
<1> DEFINE piece(i) ==
             IF Silent(i) THEN << >>
             ELSE IF Silent(i + 1) THEN <<[segments[i] EXCEPT !.coda = @ \o segments[i + 1].onset]>>
             ELSE <<segments[i]>>
           ss == [i \in 1..n |-> piece(i)]
           q == [i \in 1..n |-> Held(ss[i])]
           s == [i \in 1..n |-> PlacesOfSegment[segments[i]]]
<1>1. /\ segments \in Seq(AnySegment) /\ DOMAIN segments = 1..n /\ n \in 1..n
      /\ \A i \in 1..n : segments[i] \in AnySegment
      /\ \A i \in 1..n : Silent(i) <=> segments[i].nucleus = "silent"
      /\ \A i \in 1..n : Silent(i + 1) => segments[i + 1].nucleus = "silent" /\ i + 1 \in 1..n
  <2>1. segments \in Seq(AnySegment)
    BY DEF HebrewInv, HebrewType
  <2>2. DOMAIN segments = 1..n /\ \A i \in 1..n : segments[i] \in AnySegment
    BY <2>1
  <2>3. n \in 1..n
    OBVIOUS
  <2>4. QED
    BY <2>1, <2>2, <2>3 DEF Silent
<1>2. /\ \A i \in 1..n : segments[i].nucleus = "silent" => segments[i].onset = << >>
      /\ \A i \in 1..(n - 1) : segments[i].nucleus = "silent" => segments[i].coda = << >>
  BY DEF HebrewInv, DecideInv
<1>3. Merged = FlattenSeq(ss)
  BY <1>1 DEF Merged
<1>4. PlacesOfSegment \in Expansions(AnySegment, Nat)
  BY PlacesAreSequences
<1>5. ASSUME NEW i \in 1..n
      PROVE  /\ piece(i) \in Seq(AnySegment)
             /\ ~Silent(i) => Held(piece(i)) = PlacesOfSegment[segments[i]]
             /\ Silent(i) => Held(piece(i)) = << >>
  <2>1. CASE Silent(i)
    <3>1. piece(i) = << >>
      BY <2>1
    <3>2. << >> \in Seq(AnySegment)
      OBVIOUS
    <3>3. QED
      BY <2>1, <3>1, <3>2, SegmentsJoin
  <2>2. CASE ~Silent(i)
    <3> DEFINE x == IF Silent(i + 1) THEN [segments[i] EXCEPT !.coda = @ \o segments[i + 1].onset]
                    ELSE segments[i]
    <3>1. x = segments[i]
      <4>1. CASE Silent(i + 1)
        <5>1. segments[i + 1].onset = << >> /\ segments[i] \in AnySegment
          BY <1>1, <1>2, <4>1
        <5>2. segments[i].coda \in Seq(AnySound)
          BY <5>1 DEF AnySegment
        <5>3. segments[i].coda \o segments[i + 1].onset = segments[i].coda
          BY <5>1, <5>2
        <5>4. [segments[i] EXCEPT !.coda = segments[i].coda] = segments[i]
          BY <5>1 DEF AnySegment
        <5>5. QED
          BY <4>1, <5>3, <5>4
      <4>2. CASE ~Silent(i + 1)
        BY <4>2
      <4>3. QED
        BY <4>1, <4>2
    <3>2. piece(i) = <<x>>
      BY <2>2
    <3> HIDE DEF x, piece
    <3>3. <<segments[i]>> \in Seq(AnySegment) /\ segments[i] \in AnySegment
      BY <1>1
    <3>4. Spread(PlacesOfSegment, <<segments[i]>>) = PlacesOfSegment[segments[i]]
      BY <1>4, <3>3, SpreadOne
    <3>5. QED
      BY <2>2, <3>1, <3>2, <3>3, <3>4 DEF Held
  <2>3. QED
    BY <2>1, <2>2
<1> HIDE DEF piece
<1>6. ss \in Seq(Seq(AnySegment)) /\ Len(ss) = n /\ \A i \in 1..n : ss[i] = piece(i)
  BY <1>5
<1> HIDE DEF ss
<1>7. Merged \in Seq(AnySegment)
  BY <1>3, <1>6, FlattenType
<1>8. Held(Merged) = FlattenSeq(q)
  <2>1. Spread(PlacesOfSegment, FlattenSeq(ss)) = FlattenSeq([i \in 1..Len(ss) |-> Spread(PlacesOfSegment, ss[i])])
    BY <1>4, <1>6, SpreadFlatten
  <2>2. [i \in 1..Len(ss) |-> Spread(PlacesOfSegment, ss[i])] = q
    BY <1>6 DEF Held
  <2>3. QED
    BY <1>3, <2>1, <2>2, Zenon DEF Held
<1>9. Held(segments) = FlattenSeq(s)
  BY DEF Held, Spread
<1>10. /\ q \in Seq(Seq(Nat)) /\ Len(q) = n /\ \A i \in 1..n : q[i] = Held(piece(i))
  <2>1. \A i \in 1..n : Held(ss[i]) \in Seq(Nat) /\ ss[i] = piece(i)
    BY <1>5, <1>6, SegmentsJoin
  <2>2. QED
    BY <2>1
<1>11. /\ s \in Seq(Seq(Nat)) /\ Len(s) = n /\ \A i \in 1..n : s[i] = PlacesOfSegment[segments[i]]
  <2>1. \A i \in 1..n : PlacesOfSegment[segments[i]] \in Seq(Nat)
    BY <1>1, SegmentPlaces
  <2>2. QED
    BY <2>1
<1> HIDE DEF q, s
<1>12. \A i \in 1..n : ~Silent(i) => q[i] = s[i]
  BY <1>5, <1>10, <1>11
<1>13. \A i \in 1..(n - 1) : q[i] = s[i]
  <2> SUFFICES ASSUME NEW i \in 1..(n - 1), Silent(i) PROVE q[i] = s[i]
    <3>1. \A i \in 1..(n - 1) : i \in 1..n
      OBVIOUS
    <3>2. QED
      BY <1>12, <3>1
  <2>1. i \in 1..n
    OBVIOUS
  <2>2. segments[i].onset = << >> /\ segments[i].coda = << >>
    BY <1>1, <1>2, <2>1
  <2>3. PlacesOfSegment[segments[i]] = << >> \o << >>
    <3>1. PlacesOfSegment[segments[i]] = PlacesIn(segments[i].onset) \o PlacesIn(segments[i].coda)
      BY <1>1, <2>1, SegmentPlaces
    <3>2. PlacesIn(<< >>) = << >>
      BY SoundsJoin
    <3>3. QED
      BY <2>2, <3>1, <3>2
  <2>4. q[i] = << >>
    BY <1>5, <1>10, <2>1
  <2>5. << >> \o << >> = << >>
    OBVIOUS
  <2>6. QED
    BY <1>11, <2>1, <2>3, <2>4, <2>5
<1>14. ASSUME segments[n].nucleus # "silent" PROVE Held(segments) = Held(Merged)
  <2>1. \A i \in 1..n : q[i] = s[i]
    <3>1. \A i \in 1..n : i \in 1..(n - 1) \/ i = n
      OBVIOUS
    <3>2. ~Silent(n)
      BY <1>1, <1>14
    <3>3. QED
      BY <1>1, <1>12, <1>13, <3>1, <3>2
  <2>2. q = s
    BY <1>10, <1>11, <2>1, SeqEqual
  <2>3. QED
    BY <1>8, <1>9, <2>2
<1>15. ASSUME segments[n].nucleus = "silent"
       PROVE  Held(segments) = Held(Merged) \o PlacesIn(segments[n].coda)
  <2> DEFINE c == PlacesIn(segments[n].coda)
  <2>1. c \in Seq(Nat) /\ PlacesOfSegment[segments[n]] = PlacesIn(segments[n].onset) \o c
    BY <1>1, SegmentPlaces
  <2>2. PlacesIn(segments[n].onset) = << >>
    BY <1>1, <1>2, <1>15, SoundsJoin
  <2>3. q[n] = << >> /\ s[n] = << >> \o c
    BY <1>1, <1>5, <1>10, <1>11, <1>15, <2>1, <2>2
  <2> HIDE DEF c
  <2>4. Longer(q, s, n, c)
    BY <2>3, Zenon DEF Longer
  <2>5. FlattenSeq(s) = FlattenSeq(q) \o c
    BY <1>10, <1>11, <1>13, <2>1, <2>4, FlattenLonger
  <2>6. QED
    BY <1>8, <1>9, <2>5 DEF c
<1>16. QED
  BY <1>7, <1>14, <1>15

LEMMA PronounceStep ==
  ASSUME HebrewInv, Pronounce PROVE HebrewInv'
<1> DEFINE n == Len(segments)
           N == Len(glyphs)
<1>1. /\ hebrew = "deciding" /\ n \in Nat /\ segments \in Seq(AnySegment) /\ glyphs \in Seq(PlacedGlyph)
      /\ N \in Nat
  <2>1. segments \in Seq(AnySegment) /\ glyphs \in Seq(PlacedGlyph)
    BY DEF HebrewInv, HebrewType
  <2>2. QED
    BY <2>1 DEF Pronounce
<1>2. /\ hebrew' = "heard" /\ ipa' = Realized(Joined(Merged))
      /\ word' = word /\ glyphs' = glyphs /\ looked' = looked /\ onset' = onset
      /\ segments' = segments /\ silenced' = silenced
  BY DEF Pronounce
<1>3. \A v \in Nat : IsLastVoweled(v, N) =>
        /\ n # 0
        /\ Held(segments) = Up(N)
        /\ Up(v) \o PlacesIn(segments[n].coda) = Up(N)
        /\ glyphs[v].vowel # "sheva" => segments[n].nucleus \notin {"schwa", "silent"}
  BY <1>1 DEF HebrewInv, DecideInv
<1>4. Merged \in Seq(AnySegment)
  <2>1. CASE n = 0
    <3>1. DOMAIN segments = {}
      BY <1>1, <2>1
    <3>2. Merged = FlattenSeq(<< >>)
      BY <3>1 DEF Merged
    <3>3. << >> \in Seq(AnySegment)
      OBVIOUS
    <3>4. QED
      BY <3>2, <3>3, FlattenEmpty
  <2>2. CASE n # 0
    BY <1>1, <2>2, MergedHolds
  <2>3. QED
    BY <2>1, <2>2
<1>5. ipa' \in Seq(AnySound) /\ PlacesIn(ipa') = Held(Merged)
  <2> DEFINE j == Joined(Merged)
  <2>1. j \in Seq(AnySound) /\ PlacesIn(j) = Held(Merged)
    BY <1>4, JoinedHolds
  <2> HIDE DEF j
  <2>2. Realized(j) \in Seq(AnySound) /\ PlacesIn(Realized(j)) = PlacesIn(j)
    BY <2>1, RealizedHolds
  <2>3. ipa' = Realized(j)
    BY <1>2 DEF j
  <2>4. QED
    BY <2>1, <2>2, <2>3
<1>6. HebrewType'
  BY <1>2, <1>5 DEF HebrewInv, HebrewType
<1>7. /\ \A k : Up(k)' = Up(k)
      /\ \A i : IsLastVoweled(i, Len(glyphs))' <=> IsLastVoweled(i, N)
      /\ Len(glyphs') = N
  <2>1. \A k : Voweled(k)' <=> Voweled(k)
    BY <1>2 DEF Voweled
  <2>2. \A k : Up(k)' = Up(k)
    BY <1>2 DEF Up
  <2>4. \A i : IsLastVoweled(i, Len(glyphs))' <=> IsLastVoweled(i, N)
    BY <1>2, <2>1, Zenon DEF IsLastVoweled
  <2>5. QED
    BY <1>2, <2>2, <2>4
<1>8. HeardInv'
  <2>1. ASSUME NEW v \in Nat, IsLastVoweled(v, Len(glyphs))'
        PROVE  \/ PlacesIn(ipa') = Up(N)'
               \/ PlacesIn(ipa') = Up(v)' /\ glyphs'[v].vowel = "sheva"
    <3>1. IsLastVoweled(v, N)
      BY <1>7, <2>1
    <3>2. /\ n # 0 /\ Held(segments) = Up(N)
          /\ Up(v) \o PlacesIn(segments[n].coda) = Up(N)
          /\ glyphs[v].vowel # "sheva" => segments[n].nucleus \notin {"schwa", "silent"}
      BY <1>3, <3>1
    <3>3. Up(v)' = Up(v) /\ Up(N)' = Up(N)
      BY <1>7, Zenon
    <3>4. CASE segments[n].nucleus # "silent"
      <4>1. Held(segments) = Held(Merged)
        BY <1>1, <3>2, <3>4, MergedHolds
      <4>2. QED
        BY <1>5, <3>2, <3>3, <4>1
    <3>5. CASE segments[n].nucleus = "silent"
      <4>1. Held(segments) = Held(Merged) \o PlacesIn(segments[n].coda)
        BY <1>1, <3>2, <3>5, MergedHolds
      <4>2. glyphs[v].vowel = "sheva"
        BY <3>2, <3>5
      <4> DEFINE a == Held(Merged)
                 b == Up(v)
                 c == PlacesIn(segments[n].coda)
      <4>3. a \in Seq(Nat)
        BY <1>4, SegmentsJoin
      <4>4. c \in Seq(Nat)
        <5>1. segments[n] \in AnySegment
          BY <1>1, <3>2
        <5>2. QED
          BY <5>1, SegmentPlaces
      <4>5. b \in Seq(Nat)
        <5>1. v \in 0..N
          BY <1>1, <3>1 DEF IsLastVoweled
        <5>2. QED
          BY <1>1, <5>1, GlyphsJoin DEF Up
      <4>6. a \o c = b \o c
        BY <3>2, <4>1
      <4> HIDE DEF a, b, c
      <4>7. a = b
        BY <4>3, <4>4, <4>5, <4>6, JoinsCancel
      <4>8. PlacesIn(ipa') = Up(v)'
        BY <1>5, <3>3, <4>7 DEF a, b
      <4>9. QED
        BY <1>2, <4>2, <4>8
    <3>6. QED
      BY <3>4, <3>5
  <2>2. Up(Len(glyphs))' = Up(N)'
    BY <1>2, <1>7, Zenon DEF Up
  <2>3. QED
    BY <2>1, <2>2 DEF HeardInv
<1>9. QED
  BY <1>2, <1>6, <1>8 DEF HebrewInv, GivenInv, ReadingInv, DecideInv

LEMMA HebrewKeeps == HebrewInv /\ [HebrewNext]_hebrewVars => HebrewInv'
<1> SUFFICES ASSUME HebrewInv, [HebrewNext]_hebrewVars PROVE HebrewInv'
  OBVIOUS
<1>1. ASSUME UNCHANGED hebrewVars PROVE HebrewInv'
  <2> USE <1>1 DEF hebrewVars
  <2>1. (\A k : Voweled(k)' <=> Voweled(k)) /\ \A k : Up(k)' = Up(k)
    BY DEF Voweled, Up
  <2>2. \A v, k : IsLastVoweled(v, k)' <=> IsLastVoweled(v, k)
    BY <2>1 DEF IsLastVoweled
  <2>3. HebrewType' /\ GivenInv'
    BY DEF HebrewInv, HebrewType, GivenInv
  <2>4. \A v : IsLastVoweled(v, looked - 1)' <=> IsLastVoweled(v, looked - 1)
    BY <2>1 DEF IsLastVoweled
  <2>5. \A v : IsLastVoweled(v, Len(glyphs))' <=> IsLastVoweled(v, Len(glyphs))
    BY <2>1 DEF IsLastVoweled
  <2>6. Up(looked - 1)' = Up(looked - 1) /\ Up(Len(glyphs))' = Up(Len(glyphs))
    BY DEF Up
  <2>7. ReadingInv'
    BY <2>1, <2>4, <2>6 DEF HebrewInv, ReadingInv
  <2>8. DecideInv'
    BY <2>1, <2>5, <2>6 DEF HebrewInv, DecideInv
  <2>9. HeardInv'
    BY <2>1, <2>5, <2>6 DEF HebrewInv, HeardInv
  <2>10. QED
    BY <2>3, <2>7, <2>8, <2>9 DEF HebrewInv
<1>2. ASSUME TakePoints PROVE HebrewInv'
  <2>1. hebrew = "given" /\ Read(word) /\ word \in Seq(Glyph)
    BY <1>2 DEF TakePoints, HebrewInv, HebrewType
  <2>2. word \in Seq(AnyGlyph)
    BY <2>1, PointedType
  <2>3. QED
    BY <2>1, <2>2, ReadStep
<1>3. ASSUME Diacritize PROVE HebrewInv'
  <2>1. hebrew = "given" /\ word \in Seq(Glyph)
    BY <1>3 DEF Diacritize, HebrewInv, HebrewType
  <2>2. PICK niqqud \in [DOMAIN word -> niqqud_classes], dagesh \in [DOMAIN word -> dagesh_classes] :
          Read(merge_diacritics(word, niqqud, dagesh))
    BY <1>3 DEF Diacritize
  <2>3. merge_diacritics(word, niqqud, dagesh) \in Seq(AnyGlyph)
    BY <2>1, PointedType
  <2>4. QED
    BY <2>1, <2>2, <2>3, ReadStep
<1>4. ASSUME DiacritizeFails PROVE HebrewInv'
  BY <1>4 DEF DiacritizeFails, HebrewInv, HebrewType, GivenInv, ReadingInv, DecideInv, HeardInv
<1>5. QED
  BY <1>1, <1>2, <1>3, <1>4, VowelStep, ConsonantStep, EndStep, SpeakStep, SilenceStep, PronounceStep
  DEF HebrewNext

LEMMA HebrewInvariant == HebrewSpec => []HebrewInv
  BY HebrewBegins, HebrewKeeps, PTL DEF HebrewSpec

LEMMA HearsInOrder == HebrewInv => ConsonantsAreHeardInOrder
<1> SUFFICES ASSUME HebrewInv, hebrew = "heard", HasVowel
             PROVE  /\ IsPrefix(HeardPlaces, OrdinaryPlaces(glyphs))
                    /\ IsPrefix(OrdinaryPlaces(SubSeq(glyphs, 1, LastVoweled)), HeardPlaces)
                    /\ glyphs[LastVoweled].vowel # "sheva" => HeardPlaces = OrdinaryPlaces(glyphs)
  BY DEF ConsonantsAreHeardInOrder
<1> DEFINE N == Len(glyphs)
           l == LastVoweled
<1>1. glyphs \in Seq(PlacedGlyph) /\ ipa \in Seq(AnySound) /\ N \in Nat /\ DOMAIN glyphs = 1..N
  <2>1. glyphs \in Seq(PlacedGlyph) /\ ipa \in Seq(AnySound)
    BY DEF HebrewInv, HebrewType
  <2>2. QED
    BY <2>1
<1>2. l \in 1..N /\ Voweled(l) /\ \A k \in 1..N : Voweled(k) => k <= l
  <2> DEFINE S == {i \in 1..N : Voweled(i)}
  <2>1. S \subseteq 0..N /\ S # {}
    BY <1>1 DEF HasVowel
  <2>2. Max(S) \in S /\ \A y \in S : y <= Max(S)
    BY <1>1, <2>1, MaxIsGreatest
  <2> DEFINE m == Max(S)
  <2> HIDE DEF m
  <2>3. m \in DOMAIN glyphs /\ Voweled(m) /\ \A k \in DOMAIN glyphs : Voweled(k) => k <= m
    BY <1>1, <2>2 DEF m
  <2>4. \E i \in DOMAIN glyphs : Voweled(i) /\ \A k \in DOMAIN glyphs : Voweled(k) => k <= i
    BY <2>3
  <2>5. l \in DOMAIN glyphs /\ Voweled(l) /\ \A k \in DOMAIN glyphs : Voweled(k) => k <= l
    BY <2>4, Zenon DEF LastVoweled
  <2>6. QED
    BY <1>1, <2>5
<1> HIDE DEF l
<1>3. HeardPlaces = PlacesIn(ipa)
  <2>1. DOMAIN ipa = 1..Len(ipa) /\ \A i \in 1..Len(ipa) : ipa[i] \in AnySound
    BY <1>1
  <2>2. \A i \in 1..Len(ipa) :
          PlaceOfSound[ipa[i]] = IF Ordinary(ipa[i].sound) THEN <<ipa[i].place>> ELSE << >>
    BY <2>1 DEF PlaceOfSound
  <2>3. [i \in 1..Len(ipa) |-> PlaceOfSound[ipa[i]]]
          = [i \in DOMAIN ipa |-> IF Ordinary(ipa[i].sound) THEN <<ipa[i].place>> ELSE << >>]
    BY <2>1, <2>2
  <2>4. QED
    BY <2>3, Zenon DEF HeardPlaces, PlacesIn, Spread
<1>4. l \in 0..N /\ N \in 0..N /\ l \in Nat
  BY <1>1, <1>2
<1>5. /\ Up(N) \in Seq(Nat) /\ Up(l) \in Seq(Nat)
      /\ OrdinaryPlaces(glyphs) = Up(N) /\ OrdinaryPlaces(SubSeq(glyphs, 1, l)) = Up(l)
  BY <1>1, <1>4, GlyphsJoin DEF Up
<1>6. PlacesIn(ipa) = Up(N) \/ (PlacesIn(ipa) = Up(l) /\ glyphs[l].vowel = "sheva")
  <2>1. IsLastVoweled(l, N)
    BY <1>2 DEF IsLastVoweled
  <2>2. QED
    BY <1>4, <2>1 DEF HebrewInv, HeardInv
<1>7. PICK x \in Seq(Nat) : Up(N) = Up(l) \o x
  <2> DEFINE a == SubSeq(glyphs, 1, l)
             b == SubSeq(glyphs, l + 1, N)
  <2>1. a \in Seq(PlacedGlyph) /\ b \in Seq(PlacedGlyph) /\ glyphs = a \o b
    BY <1>1, <1>4, PartsOf
  <2> HIDE DEF a, b
  <2>4. PlaceOfGlyph \in Expansions(PlacedGlyph, Nat)
    BY PlacesAreSequences
  <2>5. Spread(PlaceOfGlyph, a \o b) = Spread(PlaceOfGlyph, a) \o Spread(PlaceOfGlyph, b)
    BY <2>1, <2>4, SpreadJoin
  <2>6. Spread(PlaceOfGlyph, b) \in Seq(Nat)
    BY <2>1, <2>4, SpreadType
  <2>7. SubSeq(glyphs, 1, N) = glyphs
    BY <1>1
  <2>8. Up(N) = Spread(PlaceOfGlyph, a \o b) /\ Up(l) = Spread(PlaceOfGlyph, a)
    BY <2>1, <2>7, Zenon DEF Up, a
  <2>9. QED
    BY <2>5, <2>6, <2>8
<1>8. IsPrefix(Up(l), Up(N)) /\ IsPrefix(Up(l), Up(l)) /\ IsPrefix(Up(N), Up(N))
  BY <1>5, <1>7, JoinHasPrefix
<1>9. QED
  BY <1>3, <1>5, <1>6, <1>8 DEF l

(* However a word is read into segments and its shevas decided, its        *)
(* ordinary consonants are heard, each once and in order; only behind a    *)
(* last vowel that is a sheva some may be lost (word_to_segments,          *)
(* resolve_sheva_and_qamats).                                              *)
THEOREM ConsonantsAreHeard == HebrewSpec => []ConsonantsAreHeardInOrder
  BY HebrewInvariant, HearsInOrder, PTL

-----------------------------------------------------------------------------
(* JapaneseText.                                                           *)

Symbol == {"a", "i", "?'", "N", ":'", "g", "k", "K'", "j", "G", "j'", " "} \cup PUNCT_VALUES

(* The vowels, glottal stops, nasals and lengths of some phonemes.         *)
TailOf == [s \in Symbol |-> IF is_tail(s) THEN <<s>> ELSE << >>]
Tails(phonemes) == Spread(TailOf, phonemes)

(* What a mora is heard as.                                                *)
MoraTail == [m \in DOMAIN MoraTable |-> <<Last(MoraTable[m])>>]

LEMMA TailsAreExpansions == TailOf \in Expansions(Symbol, Symbol)
<1>1. \A s \in Symbol : TailOf[s] \in Seq(Symbol)
  <2>1. ASSUME NEW X, NEW s \in X PROVE <<s>> \in Seq(X) /\ << >> \in Seq(X)
    OBVIOUS
  <2>2. \A s \in Symbol : TailOf[s] = IF is_tail(s) THEN <<s>> ELSE << >>
    BY DEF TailOf
  <2>3. QED
    BY <2>1, <2>2, Zenon
<1>2. TailOf = [s \in Symbol |-> TailOf[s]]
  BY DEF TailOf
<1> QED
  BY <1>1, <1>2 DEF Expansions

LEMMA TailsOfSymbols ==
  /\ \A v \in {"a", "i", "?'", "N", ":'"} : is_tail(v) /\ v \in Symbol /\ TailOf[v] = <<v>>
  /\ \A c \in {"g", "k", "K'", "j"} : c \in Symbol /\ TailOf[c] = << >>
<1>1. \A s \in Symbol : TailOf[s] = IF is_tail(s) THEN <<s>> ELSE << >>
  BY Zenon DEF TailOf
<1>2. \A v \in {"a", "i", "?'", "N", ":'"} : is_tail(v) /\ v \in Symbol
  BY DEF is_tail, Symbol
<1>3. \A c \in {"g", "k", "K'", "j"} : ~is_tail(c)
  BY DEF is_tail
<1>4. \A c \in {"g", "k", "K'", "j"} : c \in Symbol
  BY DEF Symbol
<1>5. QED
  BY <1>1, <1>2, <1>3, <1>4, Zenon

LEMMA MoraIs ==
  ASSUME NEW m \in DOMAIN MoraTable
  PROVE  \/ \E v \in {"a", "?'", "N", ":'"} : MoraTable[m] = <<v>>
         \/ \E c \in {"g", "k", "K'", "j"}, v \in {"a", "i"} : MoraTable[m] = <<c, v>>
<1>1. m \in {<<"a">>, <<"ga">>, <<"ki">>, <<"ki", "ya">>, <<"ya">>, <<"tsu">>, <<"n">>, <<"long">>}
  BY DEF MoraTable
<1>2. /\ MoraTable[<<"a">>] = <<"a">>
      /\ MoraTable[<<"ga">>] = <<"g", "a">>
      /\ MoraTable[<<"ki">>] = <<"k", "i">>
      /\ MoraTable[<<"ki", "ya">>] = <<"K'", "a">>
      /\ MoraTable[<<"ya">>] = <<"j", "a">>
      /\ MoraTable[<<"tsu">>] = <<"?'">>
      /\ MoraTable[<<"n">>] = <<"N">>
      /\ MoraTable[<<"long">>] = <<":'">>
  BY DEF MoraTable, mora_phonemes
<1>3. QED
  BY <1>1, <1>2

(* A mora ends in its tail and has no other (moras_to_phonemes, is_tail).  *)
LEMMA MoraHasTail ==
  ASSUME NEW m \in DOMAIN MoraTable
  PROVE  /\ MoraTable[m] \in Seq(Symbol) /\ MoraTable[m] # << >>
         /\ Last(MoraTable[m]) \in Symbol /\ is_tail(Last(MoraTable[m]))
         /\ Tails(MoraTable[m]) = <<Last(MoraTable[m])>>
<1>1. CASE \E v \in {"a", "?'", "N", ":'"} : MoraTable[m] = <<v>>
  <2>1. PICK v \in {"a", "?'", "N", ":'"} : MoraTable[m] = <<v>>
    BY <1>1
  <2>2. is_tail(v) /\ v \in Symbol /\ TailOf[v] = <<v>>
    BY TailsOfSymbols
  <2>3. Spread(TailOf, <<v>>) = TailOf[v]
    BY <2>2, SpreadOne, TailsAreExpansions, Zenon
  <2>4. Last(<<v>>) = v /\ <<v>> \in Seq(Symbol) /\ <<v>> # << >>
    BY <2>2 DEF Last
  <2>5. QED
    BY <2>1, <2>2, <2>3, <2>4 DEF Tails
<1>2. CASE \E c \in {"g", "k", "K'", "j"}, v \in {"a", "i"} : MoraTable[m] = <<c, v>>
  <2>1. PICK c \in {"g", "k", "K'", "j"}, v \in {"a", "i"} : MoraTable[m] = <<c, v>>
    BY <1>2
  <2>2. is_tail(v) /\ v \in Symbol /\ TailOf[v] = <<v>> /\ c \in Symbol /\ TailOf[c] = << >>
    BY TailsOfSymbols
  <2>3. Spread(TailOf, <<c>>) = TailOf[c]
    BY <2>2, SpreadOne, TailsAreExpansions, Zenon
  <2>4. <<c>> \in Seq(Symbol) /\ <<c, v>> = Append(<<c>>, v)
    BY <2>2
  <2>5. Spread(TailOf, Append(<<c>>, v)) = Spread(TailOf, <<c>>) \o TailOf[v]
    BY <2>2, <2>4, SpreadAppend, TailsAreExpansions, Zenon
  <2>6. << >> \o <<v>> = <<v>>
    BY <2>2
  <2>7. Last(<<c, v>>) = v /\ <<c, v>> \in Seq(Symbol) /\ <<c, v>> # << >>
    BY <2>2 DEF Last
  <2>8. Tails(<<c, v>>) = <<v>>
    BY <2>2, <2>3, <2>4, <2>5, <2>6, Zenon DEF Tails
  <2>9. QED
    BY <2>1, <2>2, <2>7, <2>8
<1>3. QED
  BY <1>1, <1>2, MoraIs, Zenon

LEMMA MorasAreExpansions ==
  /\ MoraTable \in Expansions(DOMAIN MoraTable, Symbol)
  /\ MoraTail \in Expansions(DOMAIN MoraTable, Symbol)
<1>1. \A s \in Symbol : <<s>> \in Seq(Symbol)
  OBVIOUS
<1>2. MoraTable = [m \in DOMAIN MoraTable |-> MoraTable[m]]
  BY DEF MoraTable
<1>3. \A m \in DOMAIN MoraTable : MoraTail[m] \in Seq(Symbol)
  <2>1. \A m \in DOMAIN MoraTable : MoraTail[m] = <<Last(MoraTable[m])>>
    BY Zenon DEF MoraTail
  <2>2. QED
    BY <1>1, <2>1, MoraHasTail, Zenon
<1>4. MoraTail = [m \in DOMAIN MoraTable |-> MoraTail[m]]
  BY DEF MoraTail
<1>5. \A m \in DOMAIN MoraTable : MoraTable[m] \in Seq(Symbol)
  BY MoraHasTail, Zenon
<1>6. MoraTable \in [DOMAIN MoraTable -> Seq(Symbol)]
  BY <1>2, <1>5
<1>7. MoraTail \in [DOMAIN MoraTable -> Seq(Symbol)]
  BY <1>3, <1>4
<1>8. QED
  BY <1>6, <1>7 DEF Expansions

(* The phonemes of some moras have the tails of these, and end in one.     *)
LEMMA PhonemesOfMoras ==
  ASSUME NEW moras \in Seq(DOMAIN MoraTable)
  PROVE  /\ moras_to_phonemes(moras) \in Seq(Symbol)
         /\ Tails(moras_to_phonemes(moras)) = Spread(MoraTail, moras)
         /\ moras # << >> =>
              moras_to_phonemes(moras) # << >> /\ is_tail(Last(moras_to_phonemes(moras)))
<1> DEFINE n == Len(moras)
           ss == [i \in 1..n |-> MoraTable[moras[i]]]
<1>1. DOMAIN moras = 1..n /\ n \in Nat /\ \A i \in 1..n : moras[i] \in DOMAIN MoraTable
  OBVIOUS
<1>2. ss \in Seq(Seq(Symbol)) /\ Len(ss) = n /\ \A i \in 1..n : ss[i] = MoraTable[moras[i]]
  <2>1. \A i \in 1..n : MoraTable[moras[i]] \in Seq(Symbol)
    BY <1>1, MoraHasTail, Zenon
  <2>2. QED
    BY <1>1, <2>1
<1>3. moras_to_phonemes(moras) = FlattenSeq(ss) /\ Spread(MoraTable, moras) = FlattenSeq(ss)
  BY <1>1 DEF moras_to_phonemes, Spread
<1>4. FlattenSeq(ss) \in Seq(Symbol)
  BY <1>2, FlattenType
<1>5. Tails(FlattenSeq(ss)) = Spread(MoraTail, moras)
  <2>1. Tails(FlattenSeq(ss)) = FlattenSeq([i \in 1..Len(ss) |-> Spread(TailOf, ss[i])])
    <3> HIDE DEF ss
    <3>1. Spread(TailOf, FlattenSeq(ss)) = FlattenSeq([i \in 1..Len(ss) |-> Spread(TailOf, ss[i])])
      BY <1>2, SpreadFlatten, TailsAreExpansions
    <3>2. QED
      BY <3>1 DEF Tails
  <2>2. \A i \in 1..n : Spread(TailOf, ss[i]) = MoraTail[moras[i]]
    <3>1. \A m \in DOMAIN MoraTable : MoraTail[m] = <<Last(MoraTable[m])>>
      BY Zenon DEF MoraTail
    <3>2. QED
      BY <1>1, <1>2, <3>1, MoraHasTail, Zenon DEF Tails
  <2>3. [i \in 1..Len(ss) |-> Spread(TailOf, ss[i])] = [i \in 1..n |-> MoraTail[moras[i]]]
    BY <1>2, <2>2
  <2>4. QED
    BY <2>1, <2>3, Zenon DEF Spread
<1>6. moras # << >> => FlattenSeq(ss) # << >> /\ is_tail(Last(FlattenSeq(ss)))
  <2> SUFFICES ASSUME moras # << >>
               PROVE  FlattenSeq(ss) # << >> /\ is_tail(Last(FlattenSeq(ss)))
    OBVIOUS
  <2> DEFINE f == SubSeq(moras, 1, n - 1)
  <2>1. n - 1 \in 0..(n - 1) /\ (n - 1) + 1 = n
    BY <1>1
  <2>2. f \in Seq(DOMAIN MoraTable) /\ moras = Append(f, moras[n]) /\ moras[n] \in DOMAIN MoraTable
    <3> HIDE DEF n
    <3>1. /\ SubSeq(moras, 1, n) = moras /\ f \in Seq(DOMAIN MoraTable)
          /\ SubSeq(moras, 1, (n - 1) + 1) = Append(f, moras[(n - 1) + 1])
          /\ moras[(n - 1) + 1] \in DOMAIN MoraTable
      <4>1. \A k \in 0..(n - 1) : k \in 0..n
        BY <1>1
      <4>2. QED
        BY <2>1, <4>1, PrefixGrows, Zenon DEF n
    <3>2. QED
      BY <2>1, <3>1
  <2>3. Spread(MoraTable, moras) = Spread(MoraTable, f) \o MoraTable[moras[n]]
    BY <2>2, SpreadAppend, MorasAreExpansions, Zenon
  <2>4. Spread(MoraTable, f) \in Seq(Symbol)
    BY <2>2, SpreadType, MorasAreExpansions, Zenon
  <2> DEFINE a == Spread(MoraTable, f)
             b == MoraTable[moras[n]]
  <2>5. b \in Seq(Symbol) /\ b # << >> /\ is_tail(Last(b))
    BY <2>2, MoraHasTail
  <2> HIDE DEF a, b
  <2>6. a \o b # << >> /\ Last(a \o b) = Last(b)
    BY <2>4, <2>5 DEF Last, a
  <2>7. QED
    BY <1>3, <2>3, <2>5, <2>6 DEF a, b
<1>7. QED
  BY <1>3, <1>4, <1>5, <1>6, Zenon

KanaRead == {"a", "ga", "ki", "ya", "tsu", "n", "long"}

LEMMA TheMoras ==
  /\ \A k : <<k>> \in DOMAIN MoraTable <=> k \in KanaRead
  /\ \A k, l : <<k, l>> \in DOMAIN MoraTable <=> k = "ki" /\ l = "ya"
  BY DEF MoraTable, KanaRead

LEMMA KnownKana ==
  ASSUME NEW kana \in Seq(STRING) PROVE Known(kana) \in Seq(KanaRead)
<1> DEFINE ss == [i \in DOMAIN kana |->
                    IF <<kana[i]>> \in DOMAIN MoraTable THEN <<kana[i]>> ELSE << >>]
<1>1. \A i \in 1..Len(kana) : ss[i] \in Seq(KanaRead)
  <2> SUFFICES ASSUME NEW i \in 1..Len(kana) PROVE ss[i] \in Seq(KanaRead)
    OBVIOUS
  <2>1. CASE <<kana[i]>> \in DOMAIN MoraTable
    BY <2>1, TheMoras
  <2>2. CASE <<kana[i]>> \notin DOMAIN MoraTable
    BY <2>2
  <2>3. QED
    BY <2>1, <2>2
<1>2. ss = [i \in 1..Len(kana) |-> ss[i]] /\ Len(kana) \in Nat
  OBVIOUS
<1>3. Known(kana) = FlattenSeq(ss)
  BY DEF Known
<1> HIDE DEF ss
<1>4. ss \in Seq(Seq(KanaRead))
  BY <1>1, <1>2
<1>5. QED
  BY <1>3, <1>4, FlattenType, Zenon

(* A word read as moras (pron_to_moras) is heard as its kana: a glide      *)
(* gives the mora it is part of its vowel.                                 *)
LEMMA MorasOfWord ==
  ASSUME NEW kana \in Seq(STRING)
  PROVE  /\ pron_to_moras(kana) \in Seq(DOMAIN MoraTable)
         /\ Spread(MoraTail, pron_to_moras(kana)) = MorasOf(kana)
<1> DEFINE known == Known(kana)
           n == Len(known)
           Glide(i) == i \in 2..n /\ known[i] = "ya" /\ known[i - 1] = "ki"
           ss == [i \in DOMAIN known |->
                    IF Joins(known, i + 1) THEN << >>
                    ELSE IF Joins(known, i) THEN <<<<known[i - 1], known[i]>>>> ELSE <<<<known[i]>>>>]
           vv == [i \in DOMAIN known |->
                    IF Glide(i + 1) THEN << >> ELSE <<Last(MoraTable[<<known[i]>>])>>]
<1>1. pron_to_moras(kana) = FlattenSeq(ss) /\ MorasOf(kana) = FlattenSeq(vv)
  BY Zenon DEF pron_to_moras, MorasOf
<1>2. known \in Seq(KanaRead)
  BY KnownKana
<1> HIDE DEF known
<1>3. n \in Nat /\ DOMAIN known = 1..n /\ \A i \in 1..n : known[i] \in KanaRead
  BY <1>2
<1>4. \A i : Joins(known, i) <=> Glide(i)
  <2> SUFFICES ASSUME NEW i PROVE Joins(known, i) <=> Glide(i)
    OBVIOUS
  <2>1. <<known[i - 1], known[i]>> \in DOMAIN MoraTable <=> known[i - 1] = "ki" /\ known[i] = "ya"
    BY TheMoras, Zenon
  <2>2. QED
    BY <2>1, Zenon DEF Joins
<1>5. \A i \in 1..n : /\ ss[i] \in Seq(DOMAIN MoraTable)
                      /\ Spread(MoraTail, ss[i]) = vv[i]
  <2> SUFFICES ASSUME NEW i \in 1..n
               PROVE  ss[i] \in Seq(DOMAIN MoraTable) /\ Spread(MoraTail, ss[i]) = vv[i]
    OBVIOUS
  <2>0. \A m \in DOMAIN MoraTable : /\ <<m>> \in Seq(DOMAIN MoraTable)
                                    /\ Spread(MoraTail, <<m>>) = <<Last(MoraTable[m])>>
    <3>1. \A m \in DOMAIN MoraTable : MoraTail[m] = <<Last(MoraTable[m])>>
      BY Zenon DEF MoraTail
    <3>2. ASSUME NEW X, NEW m \in X PROVE <<m>> \in Seq(X)
      OBVIOUS
    <3>3. QED
      BY <3>1, <3>2, SpreadOne, MorasAreExpansions, Zenon
  <2>1. CASE Joins(known, i + 1)
    <3>1. ss[i] = << >> /\ vv[i] = << >>
      BY <1>3, <1>4, <2>1, Zenon
    <3>2. << >> \in Seq(DOMAIN MoraTable)
      OBVIOUS
    <3>3. QED
      BY <3>1, <3>2, SpreadEmpty, Zenon
  <2>2. CASE ~Joins(known, i + 1) /\ Joins(known, i)
    <3>1. ss[i] = <<<<known[i - 1], known[i]>>>> /\ vv[i] = <<Last(MoraTable[<<known[i]>>])>>
      BY <1>3, <1>4, <2>2, Zenon
    <3>2. known[i - 1] = "ki" /\ known[i] = "ya" /\ <<"ki", "ya">> \in DOMAIN MoraTable
      BY <1>4, <2>2, TheMoras
    <3>3. Last(MoraTable[<<"ki", "ya">>]) = Last(MoraTable[<<"ya">>])
      BY DEF MoraTable, mora_phonemes, Last
    <3>4. QED
      BY <2>0, <3>1, <3>2, <3>3, Zenon
  <2>3. CASE ~Joins(known, i + 1) /\ ~Joins(known, i)
    <3>1. ss[i] = <<<<known[i]>>>> /\ vv[i] = <<Last(MoraTable[<<known[i]>>])>>
      BY <1>3, <1>4, <2>3, Zenon
    <3>2. <<known[i]>> \in DOMAIN MoraTable
      BY <1>3, TheMoras
    <3>3. QED
      BY <2>0, <3>1, <3>2, Zenon
  <2>4. QED
    BY <2>1, <2>2, <2>3
<1>6. ss = [i \in 1..n |-> ss[i]] /\ vv = [i \in 1..n |-> vv[i]]
  BY <1>3
<1> HIDE DEF ss, vv
<1>7. ss \in Seq(Seq(DOMAIN MoraTable)) /\ Len(ss) = n
  BY <1>3, <1>5, <1>6
<1>8. FlattenSeq(ss) \in Seq(DOMAIN MoraTable)
  BY <1>7, FlattenType, Zenon
<1>9. Spread(MoraTail, FlattenSeq(ss)) = FlattenSeq([i \in 1..Len(ss) |-> Spread(MoraTail, ss[i])])
  BY <1>7, SpreadFlatten, MorasAreExpansions
<1>10. [i \in 1..Len(ss) |-> Spread(MoraTail, ss[i])] = vv
  BY <1>5, <1>6, <1>7
<1>11. QED
  BY <1>1, <1>8, <1>9, <1>10, Zenon

-----------------------------------------------------------------------------
(* Phonemes, with the number of the word each is of; 0 is a space.         *)
Phoneme == [symbol : Symbol, of : Nat]
HasMoras(t, n) == n \in 1..Len(t) /\ pron_to_moras(t[n].kana) # << >>
Follows(t, u, v) ==
  /\ u = 0 => v # 0
  /\ (HasMoras(t, u) /\ HasMoras(t, v) /\ u # v) => MayFollow(t[v])

(* Words in their order, apart from each other.                            *)
Apart(t, x) ==
  \A i, j \in 1..Len(x) :
    /\ (i < j /\ x[i].of # 0 /\ x[j].of # 0) => x[i].of <= x[j].of
    /\ j = i + 1 => Follows(t, x[i].of, x[j].of)

SpacesOnly(x) == \A i \in 1..Len(x) : x[i].of = 0 => x[i] = Space

LEMMA SpaceIs ==
  Space \in Phoneme /\ Space.of = 0 /\ Space.symbol = " " /\ ~is_tail(Space.symbol)
  BY DEF Space, Phoneme, Symbol, is_tail

LEMMA ApartJoin ==
  ASSUME NEW t, NEW a \in Seq(Phoneme), NEW b \in Seq(Phoneme), a # << >>, b # << >>,
         Apart(t, a), Apart(t, b), Follows(t, a[Len(a)].of, b[1].of),
         \A i \in 1..Len(a), j \in 1..Len(b) : b[j].of # 0 => a[i].of <= b[j].of
  PROVE  Apart(t, a \o b)
<1> DEFINE x == a \o b
           m == Len(a)
           n == Len(b)
<1>1. /\ m \in Nat \ {0} /\ n \in Nat \ {0} /\ Len(x) = m + n
      /\ \A i \in 1..m : x[i] = a[i]
      /\ \A i \in (m + 1)..(m + n) : x[i] = b[i - m]
  OBVIOUS
<1>2. /\ \A i \in 1..m : a[i].of \in Nat
      /\ \A i \in 1..n : b[i].of \in Nat
  <2>1. \A p \in Phoneme : p.of \in Nat
    BY DEF Phoneme
  <2>2. (\A i \in 1..m : a[i] \in Phoneme) /\ (\A i \in 1..n : b[i] \in Phoneme)
    OBVIOUS
  <2>3. QED
    BY <2>1, <2>2, Zenon
<1> HIDE DEF x, m, n
<1>3. SUFFICES ASSUME NEW i \in 1..(m + n), NEW j \in 1..(m + n)
               PROVE  /\ (i < j /\ x[i].of # 0 /\ x[j].of # 0) => x[i].of <= x[j].of
                      /\ j = i + 1 => Follows(t, x[i].of, x[j].of)
  BY <1>1, Zenon DEF Apart, x
<1>4. CASE i \in 1..m /\ j \in 1..m
  BY <1>1, <1>4 DEF Apart, m
<1>5. CASE i \in 1..m /\ j \in (m + 1)..(m + n)
  <2>1. j - m \in 1..n /\ x[j] = b[j - m] /\ x[i] = a[i]
    BY <1>1, <1>5
  <2>2. b[j - m].of # 0 => a[i].of <= b[j - m].of
    BY <1>5, <2>1 DEF m, n
  <2>3. j = i + 1 => i = m /\ j - m = 1
    BY <1>1, <1>5
  <2>4. j = i + 1 => Follows(t, x[i].of, x[j].of)
    BY <2>1, <2>3 DEF m
  <2>5. QED
    BY <2>1, <2>2, <2>4
<1>6. CASE i \in (m + 1)..(m + n) /\ j \in 1..m
  BY <1>1, <1>6
<1>7. CASE i \in (m + 1)..(m + n) /\ j \in (m + 1)..(m + n)
  <2>1. /\ j - m \in 1..n /\ x[j] = b[j - m] /\ i - m \in 1..n /\ x[i] = b[i - m]
        /\ i < j <=> i - m < j - m
        /\ j = i + 1 <=> j - m = (i - m) + 1
    <3>1. m \in Nat /\ n \in Nat /\ i \in (m + 1)..(m + n) /\ j \in (m + 1)..(m + n)
      BY <1>1, <1>7
    <3>2. j - m \in 1..n /\ i - m \in 1..n
      BY <3>1
    <3>3. i < j <=> i - m < j - m
      BY <3>1
    <3>4. j = i + 1 <=> j - m = (i - m) + 1
      BY <3>1
    <3>5. x[j] = b[j - m] /\ x[i] = b[i - m]
      BY <1>1, <1>7, Zenon
    <3>6. QED
      BY <3>2, <3>3, <3>4, <3>5, Zenon
  <2>2. /\ (i - m < j - m /\ b[i - m].of # 0 /\ b[j - m].of # 0) => b[i - m].of <= b[j - m].of
        /\ j - m = (i - m) + 1 => Follows(t, b[i - m].of, b[j - m].of)
    BY <2>1 DEF Apart, n
  <2>3. QED
    BY <2>1, <2>2
<1>8. QED
  <2>1. (i \in 1..m \/ i \in (m + 1)..(m + n)) /\ (j \in 1..m \/ j \in (m + 1)..(m + n))
    BY <1>1
  <2>2. QED
    BY <1>4, <1>5, <1>6, <1>7, <2>1, Zenon

(* One phoneme, or several of one word, are apart.                         *)
LEMMA ApartAlone ==
  ASSUME NEW t, NEW x \in Seq(Phoneme), NEW u \in Nat,
         \A i \in 1..Len(x) : x[i].of = u, Len(x) = 1 \/ u # 0
  PROVE  Apart(t, x)
<1>1. u # 0 => Follows(t, u, u)
  BY DEF Follows
<1>2. ASSUME NEW i \in 1..Len(x), NEW j \in 1..Len(x)
      PROVE  /\ (i < j /\ x[i].of # 0 /\ x[j].of # 0) => x[i].of <= x[j].of
             /\ j = i + 1 => Follows(t, x[i].of, x[j].of)
  <2>1. x[i].of = u /\ x[j].of = u
    BY <1>2
  <2>2. j = i + 1 => u # 0
    BY <1>2
  <2>3. QED
    BY <1>1, <2>1, <2>2
<1>3. QED
  BY <1>2, Zenon DEF Apart

(* What of a phoneme is heard of word n, and how it is written.            *)
HeardOf(n) == [p \in Phoneme |-> IF p.of = n /\ is_tail(p.symbol) THEN <<p.symbol>> ELSE << >>]
WrittenAs == [p \in Phoneme |-> [j \in DOMAIN Fitted(p.symbol) |->
                                  [symbol |-> Fitted(p.symbol)[j], of |-> p.of]]]

LEMMA PhonemeParts ==
  /\ \A p \in Phoneme : p.symbol \in Symbol /\ p.of \in Nat
  /\ \A s \in Symbol, n \in Nat : [symbol |-> s, of |-> n] \in Phoneme
  /\ \A p \in Phoneme : p = [symbol |-> p.symbol, of |-> p.of]
  BY DEF Phoneme

LEMMA FittedIs ==
  ASSUME NEW s \in Symbol
  PROVE  \/ \E c \in Symbol \ {"g", "K'"} :
              Fitted(s) = <<c>> /\ (is_tail(c) <=> is_tail(s)) /\ (is_tail(c) => c = s)
         \/ Fitted(s) = <<"k", "j'">> /\ ~is_tail(s)
<1>1. CASE s = "g"
  <2>1. "G" \in Symbol \ {"g", "K'"} /\ ~is_tail("G") /\ ~is_tail("g")
    BY DEF Symbol, is_tail
  <2>2. Fitted(s) = <<"G">>
    BY <1>1 DEF Fitted
  <2>3. QED
    BY <1>1, <2>1, <2>2
<1>2. CASE s = "K'"
  BY <1>2 DEF Fitted, is_tail
<1>3. CASE s # "g" /\ s # "K'"
  <2>1. Fitted(s) = <<s>>
    BY <1>3 DEF Fitted
  <2>2. QED
    BY <1>3, <2>1
<1>4. QED
  BY <1>1, <1>2, <1>3

(* A phoneme is written as one or two of its word, which are known to the  *)
(* tokenizer and sound the same (fit_to_vocab).                            *)
LEMMA WrittenIs ==
  ASSUME NEW p \in Phoneme
  PROVE  /\ WrittenAs[p] \in Seq(Phoneme) /\ Len(WrittenAs[p]) \in {1, 2}
         /\ \A i \in 1..Len(WrittenAs[p]) :
              WrittenAs[p][i].of = p.of /\ WrittenAs[p][i].symbol \notin {"g", "K'"}
         /\ p = Space => WrittenAs[p] = <<Space>>
         /\ \A n : Spread(HeardOf(n), WrittenAs[p]) = HeardOf(n)[p]
<1> DEFINE s == p.symbol
           u == p.of
<1>1. s \in Symbol /\ u \in Nat
  BY PhonemeParts
<1>2. WrittenAs[p] = [j \in DOMAIN Fitted(s) |-> [symbol |-> Fitted(s)[j], of |-> u]]
  BY DEF WrittenAs
<1>3. \A n, q : q \in Phoneme =>
        HeardOf(n)[q] = IF q.of = n /\ is_tail(q.symbol) THEN <<q.symbol>> ELSE << >>
  BY Zenon DEF HeardOf
<1>4. \A n : HeardOf(n) \in Expansions(Phoneme, Symbol)
  <2> SUFFICES ASSUME NEW n PROVE HeardOf(n) \in Expansions(Phoneme, Symbol)
    OBVIOUS
  <2>1. \A q \in Phoneme : HeardOf(n)[q] \in Seq(Symbol)
    <3>1. \A c \in Symbol : <<c>> \in Seq(Symbol) /\ << >> \in Seq(Symbol)
      OBVIOUS
    <3>2. QED
      BY <1>3, <3>1, PhonemeParts, Zenon
  <2>2. HeardOf(n) = [q \in Phoneme |-> HeardOf(n)[q]]
    BY DEF HeardOf
  <2>3. QED
    BY <2>1, <2>2 DEF Expansions
<1>5. CASE \E c \in Symbol \ {"g", "K'"} :
              Fitted(s) = <<c>> /\ (is_tail(c) <=> is_tail(s)) /\ (is_tail(c) => c = s)
  <2>1. PICK c \in Symbol \ {"g", "K'"} :
              Fitted(s) = <<c>> /\ (is_tail(c) <=> is_tail(s)) /\ (is_tail(c) => c = s)
    BY <1>5
  <2> DEFINE q == [symbol |-> c, of |-> u]
  <2>2. q \in Phoneme /\ q.symbol = c /\ q.of = u
    BY <1>1, PhonemeParts
  <2>3. WrittenAs[p] = <<q>>
    BY <1>2, <2>1
  <2>4. p = Space => q = Space
    <3>1. Fitted(" ") = <<" ">>
      BY DEF Fitted
    <3>2. p = Space => s = " " /\ u = 0
      BY SpaceIs, Zenon
    <3>3. ASSUME p = Space PROVE c = " "
      <4>1. Fitted(s) = <<" ">>
        BY <3>1, <3>2, <3>3
      <4>2. <<c>> = <<" ">>
        BY <2>1, <4>1, Zenon
      <4>3. QED
        BY <4>2
    <3>4. QED
      BY <3>2, <3>3 DEF Space
  <2>5. \A n : Spread(HeardOf(n), <<q>>) = HeardOf(n)[p]
    <3> SUFFICES ASSUME NEW n PROVE Spread(HeardOf(n), <<q>>) = HeardOf(n)[p]
      OBVIOUS
    <3> HIDE DEF q
    <3>1. Spread(HeardOf(n), <<q>>) = HeardOf(n)[q]
      BY <1>4, <2>2, SpreadOne, Zenon
    <3>2. HeardOf(n)[q] = HeardOf(n)[p]
      <4>1. HeardOf(n)[q] = IF u = n /\ is_tail(c) THEN <<c>> ELSE << >>
        BY <1>3, <2>2, Zenon
      <4>2. HeardOf(n)[p] = IF u = n /\ is_tail(s) THEN <<s>> ELSE << >>
        BY <1>3, Zenon
      <4>3. QED
        BY <2>1, <4>1, <4>2, Zenon
    <3>3. QED
      BY <3>1, <3>2
  <2> HIDE DEF q
  <2>6. <<q>> \in Seq(Phoneme) /\ Len(<<q>>) = 1 /\ <<q>>[1] = q
    BY <2>2
  <2>7. QED
    BY <2>1, <2>2, <2>3, <2>4, <2>5, <2>6
<1>6. CASE Fitted(s) = <<"k", "j'">> /\ ~is_tail(s)
  <2> DEFINE q == [symbol |-> "k", of |-> u]
             r == [symbol |-> "j'", of |-> u]
  <2>1. q \in Phoneme /\ r \in Phoneme
    <3>1. "k" \in Symbol /\ "j'" \in Symbol
      BY DEF Symbol
    <3>2. QED
      BY <1>1, <3>1, PhonemeParts
  <2>2. /\ q.of = u /\ r.of = u /\ q.symbol \notin {"g", "K'"} /\ r.symbol \notin {"g", "K'"}
        /\ ~is_tail(q.symbol) /\ ~is_tail(r.symbol)
    BY DEF is_tail
  <2>3. WrittenAs[p] = <<q, r>>
    BY <1>2, <1>6
  <2>4. p # Space
    <3>1. Fitted(" ") = <<" ">>
      BY DEF Fitted
    <3>2. p = Space => s = " "
      BY SpaceIs, Zenon
    <3>3. <<"k", "j'">> # <<" ">>
      OBVIOUS
    <3>4. QED
      BY <1>6, <3>1, <3>2, <3>3, Zenon
  <2> HIDE DEF q, r
  <2>5. <<q, r>> \in Seq(Phoneme) /\ Len(<<q, r>>) = 2 /\ <<q, r>>[1] = q /\ <<q, r>>[2] = r
    BY <2>1
  <2>6. \A n : Spread(HeardOf(n), <<q, r>>) = HeardOf(n)[p]
    <3> SUFFICES ASSUME NEW n PROVE Spread(HeardOf(n), <<q, r>>) = HeardOf(n)[p]
      OBVIOUS
    <3>1. <<q>> \in Seq(Phoneme) /\ <<q, r>> = Append(<<q>>, r)
      BY <2>1
    <3>2. Spread(HeardOf(n), Append(<<q>>, r)) = Spread(HeardOf(n), <<q>>) \o HeardOf(n)[r]
      BY <1>4, <2>1, <3>1, SpreadAppend, Zenon
    <3>3. Spread(HeardOf(n), <<q>>) = HeardOf(n)[q]
      BY <1>4, <2>1, SpreadOne, Zenon
    <3>4. HeardOf(n)[q] = << >> /\ HeardOf(n)[r] = << >> /\ HeardOf(n)[p] = << >>
      BY <1>3, <1>6, <2>1, <2>2, Zenon
    <3>5. << >> \o << >> = << >>
      OBVIOUS
    <3>6. QED
      BY <3>1, <3>2, <3>3, <3>4, <3>5, Zenon
  <2>7. \A i \in 1..Len(<<q, r>>) : <<q, r>>[i] = q \/ <<q, r>>[i] = r
    BY <2>5
  <2>8. QED
    BY <2>2, <2>3, <2>4, <2>5, <2>6, <2>7
<1>7. QED
  BY <1>1, <1>5, <1>6, FittedIs, Zenon

(* r tells the words of x as x does, in symbols the tokenizer knows.       *)
Fits(t, x, r) ==
  /\ r \in Seq(Phoneme) /\ r # << >>
  /\ r[1].of = x[1].of /\ r[Len(r)].of = x[Len(x)].of
  /\ Apart(t, r) /\ SpacesOnly(r)
  /\ \A i \in 1..Len(r) : /\ r[i].symbol \notin {"g", "K'"}
                          /\ \E k \in 1..Len(x) : r[i].of = x[k].of

LEMMA HeardIsExpansion == \A n : HeardOf(n) \in Expansions(Phoneme, Symbol)
<1> SUFFICES ASSUME NEW n PROVE HeardOf(n) \in Expansions(Phoneme, Symbol)
  OBVIOUS
<1>1. \A q \in Phoneme : HeardOf(n)[q] \in Seq(Symbol)
  <2>1. \A c \in Symbol : <<c>> \in Seq(Symbol) /\ << >> \in Seq(Symbol)
    OBVIOUS
  <2>2. \A q \in Phoneme :
          HeardOf(n)[q] = IF q.of = n /\ is_tail(q.symbol) THEN <<q.symbol>> ELSE << >>
    BY Zenon DEF HeardOf
  <2>3. QED
    BY <2>1, <2>2, PhonemeParts, Zenon
<1>2. HeardOf(n) = [q \in Phoneme |-> HeardOf(n)[q]]
  BY DEF HeardOf
<1>3. QED
  BY <1>1, <1>2 DEF Expansions

LEMMA WrittenIsExpansion == WrittenAs \in Expansions(Phoneme, Phoneme)
<1>1. \A q \in Phoneme : WrittenAs[q] \in Seq(Phoneme)
  BY WrittenIs, Zenon
<1>2. WrittenAs = [q \in Phoneme |-> WrittenAs[q]]
  BY DEF WrittenAs
<1>3. QED
  BY <1>1, <1>2 DEF Expansions

LEMMA WrittenAlone ==
  ASSUME NEW t, NEW p \in Phoneme, p.of = 0 => p = Space
  PROVE  Apart(t, WrittenAs[p]) /\ SpacesOnly(WrittenAs[p]) /\ WrittenAs[p] # << >>
<1> DEFINE w == WrittenAs[p]
<1>1. /\ w \in Seq(Phoneme) /\ Len(w) \in {1, 2} /\ (p = Space => w = <<Space>>)
      /\ \A i \in 1..Len(w) : w[i].of = p.of
  BY WrittenIs, Zenon
<1>2. p.of \in Nat
  BY PhonemeParts
<1> HIDE DEF w
<1>3. Len(w) = 1 \/ p.of # 0
  <2>1. Len(<<Space>>) = 1
    OBVIOUS
  <2>2. QED
    BY <1>1, <2>1, Zenon
<1>4. Apart(t, w)
  BY <1>1, <1>2, <1>3, ApartAlone
<1>5. SpacesOnly(w)
  <2> SUFFICES ASSUME NEW i \in 1..Len(w), w[i].of = 0 PROVE w[i] = Space
    BY DEF SpacesOnly
  <2>1. w = <<Space>>
    BY <1>1
  <2>2. QED
    BY <2>1
<1>6. w # << >>
  <2>1. Len(<< >>) \notin {1, 2}
    OBVIOUS
  <2>2. QED
    BY <1>1, <2>1, Zenon
<1>7. QED
  BY <1>4, <1>5, <1>6 DEF w

LEMMA FitsStep ==
  ASSUME NEW t, NEW y \in Seq(Phoneme), NEW p \in Phoneme, NEW r, y # << >>, Fits(t, y, r),
         NEW z, z = Append(y, p), Apart(t, z), SpacesOnly(z)
  PROVE  Fits(t, z, r \o WrittenAs[p])
<1> DEFINE w == WrittenAs[p]
           m == Len(y)
           x == r \o w
<1>1. /\ m \in Nat \ {0} /\ Len(z) = m + 1 /\ z[m + 1] = p
      /\ \A k \in 1..m : z[k] = y[k] /\ z[k] \in Phoneme
  OBVIOUS
<1>2. p.of = 0 => p = Space
  BY <1>1 DEF SpacesOnly
<1>3. /\ w \in Seq(Phoneme) /\ Apart(t, w) /\ SpacesOnly(w) /\ w # << >>
      /\ \A i \in 1..Len(w) : w[i].of = p.of /\ w[i].symbol \notin {"g", "K'"}
  BY <1>2, WrittenIs, WrittenAlone, Zenon
<1> HIDE DEF w
<1>4. /\ r \in Seq(Phoneme) /\ r # << >> /\ Apart(t, r) /\ SpacesOnly(r)
      /\ r[1].of = y[1].of /\ r[Len(r)].of = y[m].of
      /\ \A i \in 1..Len(r) : /\ r[i].symbol \notin {"g", "K'"}
                              /\ \E k \in 1..m : r[i].of = y[k].of
  BY DEF Fits
<1>5. /\ Len(r) \in Nat \ {0} /\ Len(w) \in Nat \ {0} /\ x \in Seq(Phoneme)
      /\ Len(x) = Len(r) + Len(w)
      /\ \A i \in 1..Len(r) : x[i] = r[i]
      /\ \A i \in (Len(r) + 1)..(Len(r) + Len(w)) : x[i] = w[i - Len(r)]
      /\ \A i \in 1..Len(r) : r[i] \in Phoneme
  BY <1>3, <1>4
<1>6. \A k \in 1..m : y[k].of \in Nat /\ (p.of # 0 => y[k].of <= p.of)
  <2> SUFFICES ASSUME NEW k \in 1..m PROVE y[k].of \in Nat /\ (p.of # 0 => y[k].of <= p.of)
    OBVIOUS
  <2>1. y[k].of \in Nat /\ p.of \in Nat
    BY <1>1, PhonemeParts
  <2>2. k \in 1..(m + 1) /\ m + 1 \in 1..(m + 1) /\ k < m + 1
    BY <1>1
  <2>3. (z[k].of # 0 /\ z[m + 1].of # 0) => z[k].of <= z[m + 1].of
    BY <1>1, <2>2 DEF Apart
  <2>4. QED
    BY <1>1, <2>1, <2>3
<1>7. Follows(t, y[m].of, p.of)
  <2>1. m \in 1..(m + 1) /\ m + 1 \in 1..(m + 1)
    BY <1>1
  <2>2. Follows(t, z[m].of, z[m + 1].of)
    BY <1>1, <2>1 DEF Apart
  <2>3. m \in 1..m
    BY <1>1
  <2>4. QED
    BY <1>1, <2>2, <2>3
<1>8. Apart(t, x)
  <2>1. Follows(t, r[Len(r)].of, w[1].of)
    <3>1. 1 \in 1..Len(w)
      BY <1>5
    <3>2. QED
      BY <1>3, <1>4, <1>7, <3>1
  <2>2. \A i \in 1..Len(r), j \in 1..Len(w) : w[j].of # 0 => r[i].of <= w[j].of
    BY <1>3, <1>4, <1>6, Zenon
  <2>3. QED
    BY <1>3, <1>4, <2>1, <2>2, ApartJoin
<1> HIDE DEF x, m
<1>9. \A i \in 1..Len(x) : /\ (x[i].of = 0 => x[i] = Space) /\ x[i].symbol \notin {"g", "K'"}
                           /\ \E k \in 1..Len(z) : x[i].of = z[k].of
  <2> SUFFICES ASSUME NEW i \in 1..Len(x)
               PROVE  /\ (x[i].of = 0 => x[i] = Space) /\ x[i].symbol \notin {"g", "K'"}
                      /\ \E k \in 1..Len(z) : x[i].of = z[k].of
    OBVIOUS
  <2>1. CASE i \in 1..Len(r)
    <3>1. PICK k \in 1..m : r[i].of = y[k].of
      BY <1>4, <2>1
    <3>2. k \in 1..Len(z) /\ z[k] = y[k]
      BY <1>1
    <3>3. x[i] = r[i] /\ (r[i].of = 0 => r[i] = Space) /\ r[i].symbol \notin {"g", "K'"}
      BY <1>4, <1>5, <2>1 DEF SpacesOnly
    <3>4. QED
      BY <3>1, <3>2, <3>3
  <2>2. CASE i \in (Len(r) + 1)..(Len(r) + Len(w))
    <3>1. i - Len(r) \in 1..Len(w)
      BY <1>5, <2>2
    <3> DEFINE l == i - Len(r)
    <3>2. x[i] = w[l]
      BY <1>5, <2>2
    <3> HIDE DEF l
    <3>3. (w[l].of = 0 => w[l] = Space) /\ w[l].symbol \notin {"g", "K'"} /\ w[l].of = p.of
      BY <1>3, <3>1 DEF SpacesOnly, l
    <3>4. m + 1 \in 1..Len(z)
      BY <1>1
    <3>5. QED
      BY <1>1, <3>2, <3>3, <3>4
  <2>3. i \in 1..Len(r) \/ i \in (Len(r) + 1)..(Len(r) + Len(w))
    BY <1>5
  <2>4. QED
    BY <2>1, <2>2, <2>3
<1>10. x[1].of = z[1].of /\ x[Len(x)].of = z[Len(z)].of
  <2>1. x[1] = r[1] /\ z[1] = y[1]
    BY <1>1, <1>5
  <2>2. x[Len(x)] = w[Len(w)] /\ z[Len(z)] = p
    <3>1. Len(r) + Len(w) \in (Len(r) + 1)..(Len(r) + Len(w))
      BY <1>5
    <3>2. (Len(r) + Len(w)) - Len(r) = Len(w)
      BY <1>5
    <3>3. QED
      BY <1>1, <1>5, <3>1, <3>2
  <2>3. Len(w) \in 1..Len(w)
    BY <1>5
  <2>4. QED
    BY <1>3, <1>4, <2>1, <2>2, <2>3
<1>11. x # << >>
  BY <1>5
<1>12. x \in Seq(Phoneme)
  BY <1>5
<1>13. Fits(t, z, x)
  BY <1>8, <1>9, <1>10, <1>11, <1>12, Zenon DEF Fits, SpacesOnly
<1>14. QED
  BY <1>13 DEF x, w

LEMMA FitKeeps ==
  ASSUME NEW t, NEW x \in Seq(Phoneme), x # << >>, Apart(t, x), SpacesOnly(x)
  PROVE  /\ Fits(t, x, fit_to_vocab(x))
         /\ \A n : Spread(HeardOf(n), fit_to_vocab(x)) = Spread(HeardOf(n), x)
<1> DEFINE l == Len(x)
           y(k) == SubSeq(x, 1, k)
           T == {k \in Nat : k >= 1 /\ k <= l => Fits(t, y(k), Spread(WrittenAs, y(k)))}
<1>1. l \in Nat \ {0} /\ DOMAIN x = 1..l /\ \A i \in 1..l : x[i] \in Phoneme
  OBVIOUS
<1>2. fit_to_vocab(x) = Spread(WrittenAs, x)
  <2>1. \A q \in Phoneme : WrittenAs[q] = [j \in DOMAIN Fitted(q.symbol) |->
                               [symbol |-> Fitted(q.symbol)[j], of |-> q.of]]
    BY DEF WrittenAs
  <2> DEFINE ff == [i \in DOMAIN x |-> [j \in DOMAIN Fitted(x[i].symbol) |->
                               [symbol |-> Fitted(x[i].symbol)[j], of |-> x[i].of]]]
  <2>2. \A i \in 1..l : ff[i] = WrittenAs[x[i]]
    BY <1>1, <2>1
  <2>3. ff = [i \in 1..l |-> ff[i]]
    BY <1>1
  <2>4. fit_to_vocab(x) = FlattenSeq(ff)
    BY Zenon DEF fit_to_vocab
  <2> HIDE DEF ff
  <2>5. ff = [i \in 1..l |-> WrittenAs[x[i]]]
    BY <2>2, <2>3
  <2>6. QED
    BY <2>4, <2>5, Zenon DEF Spread
<1> HIDE DEF l
<1>3. /\ \A k \in 0..l : y(k) \in Seq(Phoneme) /\ Len(y(k)) = k
      /\ \A k \in 0..(l - 1) : x[k + 1] \in Phoneme /\ y(k + 1) = Append(y(k), x[k + 1])
      /\ y(l) = x /\ y(0) = << >>
  BY PrefixGrows, Zenon DEF l
<1>4. \A k \in 1..l : Apart(t, y(k)) /\ SpacesOnly(y(k))
  <2> SUFFICES ASSUME NEW k \in 1..l PROVE Apart(t, y(k)) /\ SpacesOnly(y(k))
    OBVIOUS
  <2>1. Len(y(k)) = k /\ \A i \in 1..k : y(k)[i] = x[i] /\ i \in 1..l
    <3>1. k \in 0..l
      BY <1>1
    <3>2. QED
      BY <1>1, <1>3, <3>1 DEF l
  <2> HIDE DEF y
  <2>2. Apart(t, y(k))
    BY <2>1 DEF Apart, l
  <2>3. SpacesOnly(y(k))
    BY <2>1 DEF SpacesOnly, l
  <2>4. QED
    BY <2>2, <2>3
<1>5. 0 \in T
  OBVIOUS
<1>6. \A k \in Nat : k \in T => k + 1 \in T
  <2> SUFFICES ASSUME NEW k \in Nat, k \in T, k + 1 <= l
               PROVE  Fits(t, y(k + 1), Spread(WrittenAs, y(k + 1)))
    OBVIOUS
  <2>1. k \in 0..(l - 1) /\ k \in 0..l /\ k + 1 \in 1..l
    BY <1>1
  <2> DEFINE p == x[k + 1]
  <2>2. /\ y(k) \in Seq(Phoneme) /\ Len(y(k)) = k /\ p \in Phoneme /\ y(k + 1) = Append(y(k), p)
        /\ Apart(t, y(k + 1)) /\ SpacesOnly(y(k + 1))
    BY <1>3, <1>4, <2>1, Zenon
  <2>3. k # 0 => Fits(t, y(k), Spread(WrittenAs, y(k)))
    BY <2>1
  <2> HIDE DEF p, y, T
  <2>4. CASE k = 0
    <3>1. y(k) = << >> /\ y(k + 1) = <<p>>
      <4>1. y(k) = << >>
        BY <1>3, <2>4, Zenon
      <4>2. Append(<< >>, p) = <<p>>
        OBVIOUS
      <4>3. QED
        BY <2>2, <4>1, <4>2, Zenon
    <3>2. Spread(WrittenAs, <<p>>) = WrittenAs[p]
      BY <2>2, SpreadOne, WrittenIsExpansion, Zenon
    <3>3. p.of = 0 => p = Space
      <4>1. Len(<<p>>) = 1 /\ <<p>>[1] = p /\ 1 \in 1..1
        OBVIOUS
      <4>2. QED
        BY <2>2, <3>1, <4>1, Zenon DEF SpacesOnly
    <3> DEFINE w == WrittenAs[p]
    <3>4. /\ w \in Seq(Phoneme) /\ Apart(t, w) /\ SpacesOnly(w) /\ w # << >>
          /\ \A i \in 1..Len(w) : w[i].of = p.of /\ w[i].symbol \notin {"g", "K'"}
      BY <2>2, <3>3, WrittenIs, WrittenAlone, Zenon
    <3> HIDE DEF w
    <3>5. Fits(t, <<p>>, w)
      <4>1. 1 \in 1..Len(w) /\ Len(w) \in 1..Len(w) /\ Len(<<p>>) = 1 /\ <<p>>[1] = p /\ 1 \in 1..1
        BY <3>4
      <4>2. QED
        BY <3>4, <4>1, Zenon DEF Fits
    <3>6. QED
      BY <3>1, <3>2, <3>5, Zenon DEF w
  <2>5. CASE k # 0
    <3>1. y(k) # << >>
      <4>1. Len(<< >>) = 0
        OBVIOUS
      <4>2. QED
        BY <2>2, <2>5, <4>1, Zenon
    <3>2. Spread(WrittenAs, Append(y(k), p)) = Spread(WrittenAs, y(k)) \o WrittenAs[p]
      BY <2>2, SpreadAppend, WrittenIsExpansion, Zenon
    <3> DEFINE a == y(k)
               z == y(k + 1)
               r == Spread(WrittenAs, y(k))
    <3>3. /\ a \in Seq(Phoneme) /\ p \in Phoneme /\ a # << >> /\ Fits(t, a, r)
          /\ z = Append(a, p) /\ Apart(t, z) /\ SpacesOnly(z)
      BY <2>2, <2>3, <2>5, <3>1, Zenon
    <3> HIDE DEF a, z, r
    <3>4. Fits(t, z, r \o WrittenAs[p])
      BY <3>3, FitsStep
    <3>5. QED
      BY <2>2, <3>2, <3>4, Zenon DEF a, z, r
  <2>6. QED
    BY <2>4, <2>5
<1>7. l \in T
  <2> HIDE DEF T
  <2>1. l \in Nat
    BY <1>1
  <2>2. QED
    BY <1>5, <1>6, <2>1, NatSet
<1>8. Fits(t, x, fit_to_vocab(x))
  <2>1. Fits(t, y(l), Spread(WrittenAs, y(l)))
    BY <1>1, <1>7
  <2>2. QED
    BY <1>2, <1>3, <2>1, Zenon
<1>9. \A n : Spread(HeardOf(n), fit_to_vocab(x)) = Spread(HeardOf(n), x)
  <2> SUFFICES ASSUME NEW n PROVE Spread(HeardOf(n), fit_to_vocab(x)) = Spread(HeardOf(n), x)
    OBVIOUS
  <2> DEFINE ss == [i \in 1..l |-> WrittenAs[x[i]]]
  <2>1. fit_to_vocab(x) = FlattenSeq(ss)
    BY <1>2, Zenon DEF Spread, l
  <2>2. ss \in Seq(Seq(Phoneme)) /\ Len(ss) = l /\ \A i \in 1..l : ss[i] = WrittenAs[x[i]]
    <3>1. \A i \in 1..l : WrittenAs[x[i]] \in Seq(Phoneme)
      BY <1>1, WrittenIs, Zenon
    <3>2. l \in Nat
      BY <1>1
    <3>3. QED
      BY <3>1, <3>2
  <2> DEFINE e == HeardOf(n)
  <2>3. /\ e \in Expansions(Phoneme, Symbol)
        /\ \A q \in Phoneme : Spread(e, WrittenAs[q]) = e[q]
    BY HeardIsExpansion, WrittenIs, Zenon
  <2> HIDE DEF ss, e, y, T
  <2>4. Spread(e, FlattenSeq(ss)) = FlattenSeq([i \in 1..Len(ss) |-> Spread(e, ss[i])])
    <3>1. ss \in Seq(Seq(Phoneme))
      BY <2>2
    <3>2. e \in Expansions(Phoneme, Symbol)
      BY <2>3
    <3>3. QED
      BY <3>1, <3>2, SpreadFlatten
  <2>5. \A i \in 1..l : Spread(e, ss[i]) = e[x[i]]
    BY <1>1, <2>2, <2>3, Zenon
  <2>6. [i \in 1..Len(ss) |-> Spread(e, ss[i])] = [i \in 1..l |-> e[x[i]]]
    BY <2>2, <2>5
  <2>7. QED
    BY <2>1, <2>4, <2>6, Zenon DEF Spread, l, e
<1>10. QED
  BY <1>8, <1>9

-----------------------------------------------------------------------------
(* Tokens.                                                                 *)
Token == [phonemes : Seq(Symbol), space : BOOLEAN, number : Nat,
          voiced : BOOLEAN, chained : BOOLEAN, nasal : BOOLEAN]
GoodToken(t, k) ==
  /\ k \in Token /\ k.number \in 1..Len(t)
  /\ k.voiced <=> HasMoras(t, k.number)
  /\ k.voiced => k.phonemes # << >> /\ is_tail(Last(k.phonemes))
  /\ Tails(k.phonemes) = MorasOf(t[k.number].kana)
  /\ (k.chained \/ k.nasal) => MayFollow(t[k.number])

Uttered(k) == [i \in DOMAIN k.phonemes |-> [symbol |-> k.phonemes[i], of |-> k.number]]
TokenHeard(n) == [k \in Token |-> IF k.number = n THEN Tails(k.phonemes) ELSE << >>]

LEMMA TokenParts ==
  ASSUME NEW k \in Token
  PROVE  /\ k.phonemes \in Seq(Symbol) /\ k.number \in Nat /\ k.space \in BOOLEAN
         /\ k.voiced \in BOOLEAN /\ k.chained \in BOOLEAN /\ k.nasal \in BOOLEAN
  BY DEF Token

LEMMA TokenHeardIsExpansion ==
  \A n : TokenHeard(n) \in Expansions(Token, Symbol)
<1> SUFFICES ASSUME NEW n PROVE TokenHeard(n) \in Expansions(Token, Symbol)
  OBVIOUS
<1>1. \A k \in Token : TokenHeard(n)[k] \in Seq(Symbol)
  <2> SUFFICES ASSUME NEW k \in Token PROVE TokenHeard(n)[k] \in Seq(Symbol)
    OBVIOUS
  <2>1. TokenHeard(n)[k] = IF k.number = n THEN Tails(k.phonemes) ELSE << >>
    BY Zenon DEF TokenHeard
  <2>2. Tails(k.phonemes) \in Seq(Symbol)
    BY TokenParts, SpreadType, TailsAreExpansions, Zenon DEF Tails
  <2>3. << >> \in Seq(Symbol)
    OBVIOUS
  <2>4. QED
    BY <2>1, <2>2, <2>3, Zenon
<1>2. TokenHeard(n) = [k \in Token |-> TokenHeard(n)[k]]
  BY DEF TokenHeard
<1>3. QED
  BY <1>1, <1>2 DEF Expansions

LEMMA UtteredIs ==
  ASSUME NEW t, NEW k, GoodToken(t, k)
  PROVE  /\ Uttered(k) \in Seq(Phoneme) /\ Len(Uttered(k)) = Len(k.phonemes)
         /\ \A i \in 1..Len(Uttered(k)) : Uttered(k)[i].of = k.number /\ Uttered(k)[i].symbol = k.phonemes[i]
         /\ \A n : Spread(HeardOf(n), Uttered(k)) = TokenHeard(n)[k]
<1> DEFINE x == Uttered(k)
           l == Len(k.phonemes)
<1>1. /\ k \in Token /\ k.phonemes \in Seq(Symbol) /\ k.number \in Nat
  BY TokenParts DEF GoodToken
<1>2. l \in Nat /\ DOMAIN k.phonemes = 1..l /\ \A i \in 1..l : k.phonemes[i] \in Symbol
  BY <1>1
<1>3. /\ x = [i \in 1..l |-> [symbol |-> k.phonemes[i], of |-> k.number]]
  BY <1>2 DEF Uttered
<1>4. \A i \in 1..l : [symbol |-> k.phonemes[i], of |-> k.number] \in Phoneme
  BY <1>1, <1>2, PhonemeParts, Zenon
<1>5. x \in Seq(Phoneme) /\ Len(x) = l
  BY <1>2, <1>3, <1>4
<1>6. \A i \in 1..l : x[i].of = k.number /\ x[i].symbol = k.phonemes[i] /\ x[i] \in Phoneme
  <2> HIDE DEF l, x
  <2>1. \A i \in 1..l : x[i] = [symbol |-> k.phonemes[i], of |-> k.number]
    BY <1>3
  <2>2. SUFFICES ASSUME NEW i \in 1..l
                 PROVE  x[i].of = k.number /\ x[i].symbol = k.phonemes[i] /\ x[i] \in Phoneme
    OBVIOUS
  <2> DEFINE p == [symbol |-> k.phonemes[i], of |-> k.number]
  <2>3. p.of = k.number /\ p.symbol = k.phonemes[i]
    OBVIOUS
  <2> HIDE DEF p
  <2>4. x[i] = p
    BY <2>1 DEF p
  <2>5. p \in Phoneme
    BY <1>4 DEF p
  <2>6. QED
    BY <2>3, <2>4, <2>5
<1> HIDE DEF x, l
<1>7. \A n : Spread(HeardOf(n), x) = TokenHeard(n)[k]
  <2> SUFFICES ASSUME NEW n PROVE Spread(HeardOf(n), x) = TokenHeard(n)[k]
    OBVIOUS
  <2>1. \A p \in Phoneme :
          HeardOf(n)[p] = IF p.of = n /\ is_tail(p.symbol) THEN <<p.symbol>> ELSE << >>
    BY Zenon DEF HeardOf
  <2>2. TokenHeard(n)[k] = IF k.number = n THEN Tails(k.phonemes) ELSE << >>
    BY <1>1, Zenon DEF TokenHeard
  <2>3. CASE k.number = n
    <3>1. \A s \in Symbol : TailOf[s] = IF is_tail(s) THEN <<s>> ELSE << >>
      BY Zenon DEF TailOf
    <3>2. \A i \in 1..l : HeardOf(n)[x[i]] = TailOf[k.phonemes[i]]
      BY <1>2, <1>6, <2>1, <2>3, <3>1, Zenon
    <3>3. [i \in 1..Len(x) |-> HeardOf(n)[x[i]]] = [i \in 1..l |-> TailOf[k.phonemes[i]]]
      BY <1>5, <3>2
    <3>4. QED
      BY <2>2, <2>3, <3>3, Zenon DEF Spread, Tails, l
  <2>4. CASE k.number # n
    <3>1. \A i \in 1..Len(x) : HeardOf(n)[x[i]] = << >>
      BY <1>5, <1>6, <2>1, <2>4, Zenon
    <3>2. Spread(HeardOf(n), x) = << >>
      BY <1>5, <3>1, SpreadNothing, HeardIsExpansion, Zenon
    <3>3. QED
      BY <2>2, <2>4, <3>2, Zenon
  <2>5. QED
    BY <2>3, <2>4
<1>8. QED
  BY <1>5, <1>6, <1>7 DEF x, l

-----------------------------------------------------------------------------
(* assemble.                                                               *)

(* What is put together up to word "top": it begins with a sound and the   *)
(* last sound of a word that has kana is a tail.                           *)
PutTogether(t, out, top) ==
  /\ out \in Seq(Phoneme) /\ Apart(t, out) /\ SpacesOnly(out)
  /\ out # << >> => /\ out[1].of # 0
                    /\ HasMoras(t, out[Len(out)].of) => is_tail(out[Len(out)].symbol)
  /\ \A i \in 1..Len(out) : out[i].of <= top

LEMMA SpaceIsUnvoiced == \A t : ~HasMoras(t, 0)
  BY DEF HasMoras

LEMMA SpaceAfter ==
  ASSUME NEW t, NEW top \in Nat, NEW a, PutTogether(t, a, top), a # << >>, a[Len(a)].of # 0
  PROVE  /\ PutTogether(t, a \o <<Space>>, top) /\ a \o <<Space>> # << >>
         /\ (a \o <<Space>>)[Len(a \o <<Space>>)] = Space
         /\ \A n : Spread(HeardOf(n), a \o <<Space>>) = Spread(HeardOf(n), a)
<1> DEFINE b == <<Space>>
           x == a \o b
<1>1. a \in Seq(Phoneme) /\ b \in Seq(Phoneme) /\ b # << >> /\ Len(b) = 1 /\ b[1] = Space
  <2>1. a \in Seq(Phoneme)
    BY DEF PutTogether
  <2>2. b \in Seq(Phoneme) /\ b # << >> /\ Len(b) = 1 /\ b[1] = Space
    BY SpaceIs, OneElement, Zenon
  <2>3. QED
    BY <2>1, <2>2
<1>2. Apart(t, b)
  <2>1. \A i \in 1..Len(b) : b[i].of = 0
    <3>1. \A i \in 1..Len(b) : b[i] = Space
      OBVIOUS
    <3>2. QED
      BY <3>1, SpaceIs, Zenon
  <2>2. 0 \in Nat
    OBVIOUS
  <2> HIDE DEF b
  <2>3. QED
    BY <1>1, <2>1, <2>2, ApartAlone
<1> HIDE DEF b
<1>3. Apart(t, x)
  <2>1. Follows(t, a[Len(a)].of, b[1].of)
    BY <1>1, SpaceIs, SpaceIsUnvoiced, Zenon DEF Follows
  <2>2. \A i \in 1..Len(a), j \in 1..Len(b) : b[j].of # 0 => a[i].of <= b[j].of
    <3>1. \A j \in 1..Len(b) : j = 1
      BY <1>1
    <3>2. QED
      BY <1>1, <3>1, SpaceIs
  <2>3. QED
    BY <1>1, <1>2, <2>1, <2>2, ApartJoin DEF PutTogether
<1>4. /\ Len(a) \in Nat \ {0} /\ x \in Seq(Phoneme) /\ Len(x) = Len(a) + 1 /\ x # << >>
      /\ \A i \in 1..Len(a) : x[i] = a[i]
      /\ x[Len(a) + 1] = Space
  <2>1. Len(a) \in Nat \ {0} /\ Len(b) = 1
    BY <1>1
  <2>2. /\ x \in Seq(Phoneme) /\ Len(x) = Len(a) + 1 /\ \A i \in 1..Len(a) : x[i] = a[i]
        /\ x[Len(a) + 1] = Space
    <3>1. a \in Seq(Phoneme) /\ Space \in Phoneme
      BY <1>1, SpaceIs
    <3> DEFINE c == a \o <<Space>>
    <3>2. /\ c \in Seq(Phoneme) /\ Len(c) = Len(a) + 1 /\ \A i \in 1..Len(a) : c[i] = a[i]
          /\ c[Len(a) + 1] = Space
      BY <3>1, OneMore
    <3> HIDE DEF c
    <3>3. x = c
      BY Zenon DEF b, c
    <3> HIDE DEF x
    <3>4. QED
      BY <3>2, <3>3
  <2> HIDE DEF x
  <2>4. x # << >>
    BY <2>1, <2>2
  <2>5. QED
    BY <1>1, <2>1, <2>2, <2>4
<1> HIDE DEF x
<1>5. \A i \in 1..Len(x) : (x[i].of = 0 => x[i] = Space) /\ x[i].of <= top
  <2> SUFFICES ASSUME NEW i \in 1..Len(x)
               PROVE  (x[i].of = 0 => x[i] = Space) /\ x[i].of <= top
    OBVIOUS
  <2>1. CASE i \in 1..Len(a)
    BY <1>4, <2>1 DEF PutTogether, SpacesOnly
  <2>2. CASE i = Len(a) + 1
    <3>1. x[i] = Space
      BY <1>4, <2>2
    <3>2. x[i].of = 0
      BY <3>1, SpaceIs, Zenon
    <3>3. QED
      BY <3>1, <3>2
  <2>3. QED
    BY <1>4, <2>1, <2>2
<1>6. x[1].of # 0
  BY <1>4 DEF PutTogether
<1>7. x[Len(x)] = Space
  BY <1>4
<1>8. PutTogether(t, x, top)
  BY <1>3, <1>4, <1>5, <1>6, <1>7, SpaceIs, SpaceIsUnvoiced, Zenon DEF PutTogether, SpacesOnly
<1>9. \A n : Spread(HeardOf(n), x) = Spread(HeardOf(n), a)
  <2> SUFFICES ASSUME NEW n PROVE Spread(HeardOf(n), x) = Spread(HeardOf(n), a)
    OBVIOUS
  <2>1. Spread(HeardOf(n), a \o b) = Spread(HeardOf(n), a) \o Spread(HeardOf(n), b)
    <3> DEFINE e == HeardOf(n)
    <3>1. e \in Expansions(Phoneme, Symbol)
      BY HeardIsExpansion
    <3>2. a \in Seq(Phoneme) /\ b \in Seq(Phoneme)
      BY <1>1
    <3> HIDE DEF e
    <3>3. Spread(e, a \o b) = Spread(e, a) \o Spread(e, b)
      BY <3>1, <3>2, SpreadJoinOf
    <3>4. QED
      BY <3>3 DEF e
  <2>2. Spread(HeardOf(n), b) = HeardOf(n)[Space]
    BY SpreadOne, HeardIsExpansion, SpaceIs, Zenon DEF b
  <2>3. HeardOf(n)[Space] = << >>
    BY SpaceIs, Zenon DEF HeardOf
  <2>4. Spread(HeardOf(n), a) \in Seq(Symbol)
    BY <1>1, SpreadType, HeardIsExpansion, Zenon
  <2>5. Spread(HeardOf(n), a) \o << >> = Spread(HeardOf(n), a)
    BY <2>4
  <2>6. QED
    BY <2>1, <2>2, <2>3, <2>5, Zenon DEF x
<1>10. QED
  BY <1>4, <1>7, <1>8, <1>9, Zenon DEF x, b

(* a goes before token k, and x is a with the token said.                  *)
Ready(t, top, out, k, a) ==
  /\ PutTogether(t, a, top)
  /\ a # << >> => Follows(t, a[Len(a)].of, k.number)
  /\ \A n : Spread(HeardOf(n), a) = Spread(HeardOf(n), out)
Added(t, a, k, x) ==
  /\ PutTogether(t, x, k.number) /\ x # << >> /\ x[Len(x)].of = k.number
  /\ \A n : Spread(HeardOf(n), x) = Spread(HeardOf(n), a) \o TokenHeard(n)[k]

LEMMA SaidAfter ==
  ASSUME NEW t, NEW top \in Nat, NEW a, PutTogether(t, a, top),
         NEW k, GoodToken(t, k), top < k.number, k.phonemes # << >>,
         a # << >> => Follows(t, a[Len(a)].of, k.number)
  PROVE  Added(t, a, k, a \o Uttered(k))
<1> DEFINE b == Uttered(k)
           x == a \o b
           u == k.number
<1>1. /\ b \in Seq(Phoneme) /\ Len(b) = Len(k.phonemes)
      /\ \A i \in 1..Len(b) : b[i].of = u /\ b[i].symbol = k.phonemes[i]
      /\ \A n : Spread(HeardOf(n), b) = TokenHeard(n)[k]
  BY UtteredIs, Zenon
<1>2. k.phonemes \in Seq(Symbol) /\ u \in Nat \ {0} /\ u \in 1..Len(t)
  <2>1. k \in Token /\ u \in 1..Len(t)
    BY DEF GoodToken
  <2>2. u \in Nat /\ k.phonemes \in Seq(Symbol)
    BY <2>1, TokenParts, Zenon
  <2>3. QED
    BY <2>1, <2>2
<1>3. Len(k.phonemes) \in Nat \ {0}
  BY <1>2
<1> HIDE DEF b
<1>4. Len(b) \in Nat \ {0} /\ b # << >> /\ 1 \in 1..Len(b) /\ Len(b) \in 1..Len(b)
  BY <1>1, <1>3
<1>5. HasMoras(t, u) => is_tail(b[Len(b)].symbol)
  <2>1. HasMoras(t, u) => is_tail(Last(k.phonemes))
    BY DEF GoodToken
  <2>2. b[Len(b)].symbol = Last(k.phonemes)
    BY <1>1, <1>4, Zenon DEF Last
  <2>3. QED
    BY <2>1, <2>2, Zenon
<1>6. Apart(t, b)
  <2>1. \A i \in 1..Len(b) : b[i].of = u
    BY <1>1
  <2> HIDE DEF u
  <2>2. QED
    BY <1>1, <1>2, <2>1, ApartAlone
<1>7. /\ a \in Seq(Phoneme) /\ Apart(t, a) /\ Len(a) \in Nat
      /\ \A i \in 1..Len(a) : a[i] \in Phoneme /\ a[i].of \in Nat /\ a[i].of < u
  <2>1. a \in Seq(Phoneme) /\ Apart(t, a) /\ \A i \in 1..Len(a) : a[i].of <= top
    BY DEF PutTogether
  <2>2. Len(a) \in Nat /\ \A i \in 1..Len(a) : a[i] \in Phoneme
    BY <2>1
  <2>3. \A i \in 1..Len(a) : a[i].of \in Nat
    BY <2>2, PhonemeParts, Zenon
  <2> HIDE DEF u
  <2>4. QED
    BY <1>2, <2>1, <2>2, <2>3 DEF u
<1> HIDE DEF u
<1>8. Apart(t, x)
  <2>1. CASE a = << >>
    <3>1. << >> \o b = b
      BY <1>1
    <3>2. QED
      BY <1>6, <2>1, <3>1, Zenon
  <2>2. CASE a # << >>
    <3>1. Follows(t, a[Len(a)].of, b[1].of)
      BY <1>1, <1>4, <2>2, Zenon DEF u
    <3>2. \A i \in 1..Len(a), j \in 1..Len(b) : b[j].of # 0 => a[i].of <= b[j].of
      BY <1>1, <1>2, <1>7
    <3>3. QED
      BY <1>1, <1>4, <1>6, <1>7, <2>2, <3>1, <3>2, ApartJoin
  <2>3. QED
    BY <2>1, <2>2
<1>9. /\ x \in Seq(Phoneme) /\ Len(x) = Len(a) + Len(b)
      /\ \A i \in 1..Len(a) : x[i] = a[i]
      /\ \A i \in (Len(a) + 1)..(Len(a) + Len(b)) : x[i] = b[i - Len(a)]
  <2>1. a \in Seq(Phoneme) /\ b \in Seq(Phoneme)
    BY <1>1, <1>7
  <2>2. QED
    BY <2>1, JoinIs
<1> HIDE DEF x
<1>10. x # << >> /\ x[Len(x)] = b[Len(b)]
  <2>1. Len(a) + Len(b) \in (Len(a) + 1)..(Len(a) + Len(b)) /\ (Len(a) + Len(b)) - Len(a) = Len(b)
    BY <1>4, <1>7
  <2>2. QED
    BY <1>4, <1>7, <1>9, <2>1
<1>11. \A i \in 1..Len(x) : (x[i].of = 0 => x[i] = Space) /\ x[i].of <= u
  <2> SUFFICES ASSUME NEW i \in 1..Len(x)
               PROVE  (x[i].of = 0 => x[i] = Space) /\ x[i].of <= u
    OBVIOUS
  <2>1. CASE i \in 1..Len(a)
    <3>1. x[i] = a[i] /\ a[i].of \in Nat /\ a[i].of < u /\ (a[i].of = 0 => a[i] = Space)
      BY <1>7, <1>9, <2>1 DEF PutTogether, SpacesOnly
    <3>2. QED
      BY <1>2, <3>1
  <2>2. CASE i \in (Len(a) + 1)..(Len(a) + Len(b))
    <3>1. i - Len(a) \in 1..Len(b)
      BY <1>4, <1>7, <2>2
    <3>2. x[i].of = u
      BY <1>1, <1>9, <2>2, <3>1, Zenon
    <3>3. QED
      BY <1>2, <3>2
  <2>3. QED
    BY <1>4, <1>7, <1>9, <2>1, <2>2
<1>12. x[1].of # 0
  <2>1. CASE a = << >>
    <3>1. x = b
      BY <1>1, <2>1 DEF x
    <3>2. QED
      BY <1>1, <1>2, <1>4, <3>1
  <2>2. CASE a # << >>
    <3>1. 1 \in 1..Len(a)
      BY <1>7, <2>2
    <3>2. QED
      BY <1>9, <2>2, <3>1, Zenon DEF PutTogether
  <2>3. QED
    BY <2>1, <2>2
<1>13. PutTogether(t, x, u)
  <2>1. b[Len(b)].of = u
    BY <1>1, <1>4
  <2>2. QED
    BY <1>5, <1>8, <1>9, <1>10, <1>11, <1>12, <2>1, Zenon DEF PutTogether, SpacesOnly
<1>14. \A n : Spread(HeardOf(n), x) = Spread(HeardOf(n), a) \o TokenHeard(n)[k]
  <2> SUFFICES ASSUME NEW n
               PROVE  Spread(HeardOf(n), x) = Spread(HeardOf(n), a) \o TokenHeard(n)[k]
    OBVIOUS
  <2> DEFINE e == HeardOf(n)
  <2>1. e \in Expansions(Phoneme, Symbol)
    BY HeardIsExpansion
  <2>2. a \in Seq(Phoneme) /\ b \in Seq(Phoneme)
    BY <1>1, <1>7
  <2> HIDE DEF e
  <2>3. Spread(e, a \o b) = Spread(e, a) \o Spread(e, b)
    BY <2>1, <2>2, SpreadJoinOf
  <2>4. QED
    BY <1>1, <2>3, Zenon DEF e, x
<1>15. x[Len(x)].of = u
  BY <1>1, <1>4, <1>10
<1>16. QED
  <2>1. Added(t, a, k, x)
    BY <1>10, <1>13, <1>14, <1>15, Zenon DEF Added, u
  <2>2. QED
    BY <2>1 DEF x, b

(* Before a word stands a space unless it may run on (needs_separator).    *)
LEMMA ReadyForWord ==
  ASSUME NEW t, NEW top \in Nat, NEW out, PutTogether(t, out, top),
         NEW k, GoodToken(t, k)
  PROVE  Ready(t, top, out, k, out \o (IF needs_separator(k, out) THEN <<Space>> ELSE << >>))
<1> DEFINE a == out \o (IF needs_separator(k, out) THEN <<Space>> ELSE << >>)
<1>1. k.number # 0
  BY DEF GoodToken
<1>2. out \in Seq(Phoneme)
  BY DEF PutTogether
<1>3. CASE needs_separator(k, out)
  <2>1. a = out \o <<Space>> /\ out # << >> /\ is_tail(Last(out).symbol)
    BY <1>3, Zenon DEF needs_separator
  <2>2. out[Len(out)].of # 0
    <3>1. Len(out) \in 1..Len(out) /\ Last(out) = out[Len(out)]
      BY <1>2, <2>1 DEF Last
    <3>2. out[Len(out)].of = 0 => out[Len(out)] = Space
      BY <3>1, Zenon DEF PutTogether, SpacesOnly
    <3>3. QED
      BY <2>1, <3>1, <3>2, SpaceIs, Zenon
  <2> HIDE DEF a
  <2>3. PutTogether(t, a, top) /\ a[Len(a)] = Space
        /\ \A n : Spread(HeardOf(n), a) = Spread(HeardOf(n), out)
    BY <2>1, <2>2, SpaceAfter, Zenon
  <2>4. Follows(t, 0, k.number)
    BY <1>1, SpaceIsUnvoiced, Zenon DEF Follows
  <2>5. Ready(t, top, out, k, a)
    BY <2>3, <2>4, SpaceIs, Zenon DEF Ready
  <2>6. QED
    BY <2>5 DEF a
<1>4. CASE ~needs_separator(k, out)
  <2>1. a = out
    <3>1. out \o << >> = out
      BY <1>2, JoinNothing
    <3>2. QED
      BY <1>4, <3>1, Zenon
  <2> HIDE DEF a
  <2>2. ASSUME a # << >> PROVE Follows(t, a[Len(a)].of, k.number)
    <3> DEFINE u == a[Len(a)].of
    <3>1. u = 0 => k.number # 0
      BY <1>1
    <3>2. ASSUME HasMoras(t, u), HasMoras(t, k.number), u # k.number PROVE MayFollow(t[k.number])
      <4>1. is_tail(Last(out).symbol)
        BY <2>1, <2>2, <3>2, Zenon DEF PutTogether, Last
      <4>2. k.voiced
        BY <3>2, Zenon DEF GoodToken
      <4>3. k.chained \/ k.nasal
        BY <1>4, <2>1, <2>2, <4>1, <4>2, Zenon DEF needs_separator
      <4>4. QED
        BY <4>3, Zenon DEF GoodToken
    <3>3. QED
      BY <3>1, <3>2, Zenon DEF Follows
  <2>3. Ready(t, top, out, k, a)
    BY <2>1, <2>2, Zenon DEF Ready
  <2>4. QED
    BY <2>3 DEF a
<1>5. QED
  BY <1>3, <1>4

WordAdded(t, out, k, x) ==
  /\ PutTogether(t, x, k.number)
  /\ \A n : Spread(HeardOf(n), x) = Spread(HeardOf(n), out) \o TokenHeard(n)[k]

LEMMA JoinedStep ==
  ASSUME NEW t, NEW top \in Nat, NEW out, PutTogether(t, out, top),
         NEW k, GoodToken(t, k), top < k.number
  PROVE  WordAdded(t, out, k, JoinedToken(out, k))
<1> DEFINE sep == IF needs_separator(k, out) THEN <<Space>> ELSE << >>
           end == IF k.space THEN <<Space>> ELSE << >>
           a == out \o sep
           b == a \o Uttered(k)
<1>1. JoinedToken(out, k) = IF Uttered(k) = << >> THEN out ELSE b \o end
  BY Zenon DEF JoinedToken, Uttered
<1>2. k.number \in Nat \ {0} /\ k.phonemes \in Seq(Symbol)
  <2>1. k \in Token /\ k.number \in 1..Len(t)
    BY DEF GoodToken
  <2>2. k.number \in Nat /\ k.phonemes \in Seq(Symbol)
    BY <2>1, TokenParts, Zenon
  <2>3. QED
    BY <2>1, <2>2
<1>3. /\ Uttered(k) \in Seq(Phoneme) /\ Len(Uttered(k)) = Len(k.phonemes)
      /\ \A n : Spread(HeardOf(n), Uttered(k)) = TokenHeard(n)[k]
  BY UtteredIs, Zenon
<1>4. Uttered(k) = << >> <=> k.phonemes = << >>
  BY <1>2, <1>3
<1>5. out \in Seq(Phoneme)
  BY DEF PutTogether
<1>6. CASE Uttered(k) = << >>
  <2>1. PutTogether(t, out, k.number)
    <3>1. \A i \in 1..Len(out) : out[i].of \in Nat
      <4>1. \A i \in 1..Len(out) : out[i] \in Phoneme
        BY <1>5
      <4>2. QED
        BY <4>1, PhonemeParts, Zenon
    <3>2. \A i \in 1..Len(out) : out[i].of <= k.number
      <4>1. \A i \in 1..Len(out) : out[i].of <= top
        BY DEF PutTogether
      <4>2. QED
        BY <1>2, <3>1, <4>1
    <3>3. QED
      BY <3>2, Zenon DEF PutTogether
  <2>2. ASSUME NEW n PROVE Spread(HeardOf(n), out) = Spread(HeardOf(n), out) \o TokenHeard(n)[k]
    <3>1. TokenHeard(n)[k] = << >>
      BY <1>3, <1>6, SpreadEmpty, Zenon
    <3>2. Spread(HeardOf(n), out) \in Seq(Symbol)
      BY <1>5, SpreadType, HeardIsExpansion, Zenon
    <3>3. Spread(HeardOf(n), out) \o << >> = Spread(HeardOf(n), out)
      BY <3>2, JoinNothing
    <3>4. QED
      BY <3>1, <3>3, Zenon
  <2>3. QED
    BY <1>1, <1>6, <2>1, <2>2, Zenon DEF WordAdded
<1>7. CASE Uttered(k) # << >>
  <2>1. /\ PutTogether(t, a, top)
        /\ a # << >> => Follows(t, a[Len(a)].of, k.number)
        /\ \A n : Spread(HeardOf(n), a) = Spread(HeardOf(n), out)
    <3>1. Ready(t, top, out, k, a)
      BY ReadyForWord, Zenon
    <3> HIDE DEF a
    <3>2. QED
      BY <3>1, Zenon DEF Ready
  <2> HIDE DEF a
  <2>2. /\ PutTogether(t, b, k.number) /\ b # << >> /\ b[Len(b)].of = k.number
        /\ \A n : Spread(HeardOf(n), b) = Spread(HeardOf(n), a) \o TokenHeard(n)[k]
    <3>1. k.phonemes # << >> /\ PutTogether(t, a, top)
      BY <1>4, <1>7, <2>1
    <3>2. a # << >> => Follows(t, a[Len(a)].of, k.number)
      BY <2>1
    <3>3. Added(t, a, k, b)
      BY <3>1, <3>2, SaidAfter, Zenon
    <3> HIDE DEF b
    <3>4. QED
      BY <3>3, Zenon DEF Added
  <2> HIDE DEF b
  <2>3. \A n : Spread(HeardOf(n), b) = Spread(HeardOf(n), out) \o TokenHeard(n)[k]
    BY <2>1, <2>2, Zenon
  <2>4. CASE k.space
    <3>1. b[Len(b)].of # 0 /\ k.number \in Nat
      BY <1>2, <2>2
    <3>2. /\ PutTogether(t, b \o <<Space>>, k.number)
          /\ \A n : Spread(HeardOf(n), b \o <<Space>>) = Spread(HeardOf(n), b)
      BY <2>2, <3>1, SpaceAfter, Zenon
    <3>3. JoinedToken(out, k) = b \o <<Space>>
      BY <1>1, <1>7, <2>4, Zenon
    <3>4. QED
      BY <2>3, <3>2, <3>3, Zenon DEF WordAdded
  <2>5. CASE ~k.space
    <3>1. b \o << >> = b
      <4>1. b \in Seq(Phoneme)
        BY <2>2 DEF PutTogether
      <4>2. QED
        BY <4>1, JoinNothing
    <3>2. JoinedToken(out, k) = b
      BY <1>1, <1>7, <2>5, <3>1, Zenon
    <3>3. QED
      BY <2>2, <2>3, <3>2, Zenon DEF WordAdded
  <2>6. QED
    BY <2>4, <2>5
<1>8. QED
  BY <1>6, <1>7

(* What is assembled: it has no space at either end.                       *)
Trimmed(t, top, out, x) ==
  /\ x \in Seq(Phoneme) /\ Apart(t, x) /\ SpacesOnly(x)
  /\ x # << >> => x[1].of # 0 /\ x[Len(x)].of # 0
  /\ \A i \in 1..Len(x) : x[i].of <= top
  /\ \A n : Spread(HeardOf(n), x) = Spread(HeardOf(n), out)

LEMMA TrimKeeps ==
  ASSUME NEW t, NEW top \in Nat, NEW out, PutTogether(t, out, top)
  PROVE  Trimmed(t, top, out, TrimmedEnd(out))
<1>1. /\ out \in Seq(Phoneme) /\ Apart(t, out) /\ SpacesOnly(out)
      /\ out # << >> => out[1].of # 0
      /\ \A i \in 1..Len(out) : out[i].of <= top
  BY DEF PutTogether
<1>2. CASE out = << >> \/ Last(out) # Space
  <2>1. TrimmedEnd(out) = out
    BY <1>2 DEF TrimmedEnd
  <2>2. out # << >> => out[Len(out)].of # 0
    <3> SUFFICES ASSUME out # << >> PROVE out[Len(out)].of # 0
      OBVIOUS
    <3>1. Len(out) \in 1..Len(out) /\ Last(out) = out[Len(out)]
      BY <1>1 DEF Last
    <3>2. QED
      BY <1>1, <1>2, <3>1, Zenon DEF SpacesOnly
  <2>3. QED
    BY <1>1, <2>1, <2>2, Zenon DEF Trimmed
<1>3. CASE out # << >> /\ Last(out) = Space
  <2> DEFINE l == Len(out)
             x == SubSeq(out, 1, l - 1)
  <2>1. l \in Nat \ {0} /\ l - 1 \in 0..(l - 1) /\ (l - 1) + 1 = l /\ l - 1 \in 0..l
    BY <1>1, <1>3
  <2>2. TrimmedEnd(out) = x /\ out[l] = Space
    BY <1>1, <1>3 DEF TrimmedEnd, Front, Last
  <2>3. x \in Seq(Phoneme) /\ Len(x) = l - 1 /\ out = Append(x, Space)
    <3>1. /\ SubSeq(out, 1, l) = out
          /\ SubSeq(out, 1, l - 1) \in Seq(Phoneme) /\ Len(SubSeq(out, 1, l - 1)) = l - 1
          /\ SubSeq(out, 1, (l - 1) + 1) = Append(SubSeq(out, 1, l - 1), out[(l - 1) + 1])
      BY <1>1, <2>1, PrefixGrows, Zenon
    <3>2. QED
      BY <2>1, <2>2, <3>1
  <2>4. \A i \in 1..(l - 1) : x[i] = out[i] /\ i \in 1..l
    BY <1>1, <2>1
  <2> HIDE DEF x
  <2>5. Apart(t, x)
    <3> SUFFICES ASSUME NEW i \in 1..(l - 1), NEW j \in 1..(l - 1)
                 PROVE  /\ (i < j /\ x[i].of # 0 /\ x[j].of # 0) => x[i].of <= x[j].of
                        /\ j = i + 1 => Follows(t, x[i].of, x[j].of)
      BY <2>3, Zenon DEF Apart
    <3>1. x[i] = out[i] /\ x[j] = out[j] /\ i \in 1..l /\ j \in 1..l
      BY <2>4
    <3>2. QED
      BY <1>1, <3>1, Zenon DEF Apart
  <2>6. SpacesOnly(x)
    BY <1>1, <2>3, <2>4, Zenon DEF SpacesOnly
  <2>7. \A i \in 1..Len(x) : x[i].of <= top
    BY <1>1, <2>3, <2>4, Zenon
  <2>8. x # << >> => x[1].of # 0 /\ x[Len(x)].of # 0
    <3> SUFFICES ASSUME x # << >> PROVE x[1].of # 0 /\ x[Len(x)].of # 0
      OBVIOUS
    <3>1. Len(x) # 0
      BY <2>3
    <3>2. 1 \in 1..(l - 1) /\ l - 1 \in 1..(l - 1) /\ l \in 1..l
      BY <2>1, <2>3, <3>1
    <3>3. Follows(t, out[l - 1].of, out[(l - 1) + 1].of)
      <4>1. l - 1 \in 1..l /\ (l - 1) + 1 \in 1..l
        BY <2>1, <3>2
      <4>2. QED
        BY <1>1, <4>1, Zenon DEF Apart
    <3>4. Follows(t, out[l - 1].of, 0)
      BY <2>1, <2>2, <3>3, SpaceIs
    <3>5. QED
      BY <1>1, <1>3, <2>3, <2>4, <3>2, <3>4, Zenon DEF Follows
  <2>9. \A n : Spread(HeardOf(n), x) = Spread(HeardOf(n), out)
    <3> SUFFICES ASSUME NEW n PROVE Spread(HeardOf(n), x) = Spread(HeardOf(n), out)
      OBVIOUS
    <3>1. Spread(HeardOf(n), Append(x, Space)) = Spread(HeardOf(n), x) \o HeardOf(n)[Space]
      BY <2>3, SpaceIs, SpreadAppend, HeardIsExpansion, Zenon
    <3>2. HeardOf(n)[Space] = << >>
      BY SpaceIs, Zenon DEF HeardOf
    <3>3. Spread(HeardOf(n), x) \in Seq(Symbol)
      BY <2>3, SpreadType, HeardIsExpansion, Zenon
    <3>4. Spread(HeardOf(n), x) \o << >> = Spread(HeardOf(n), x)
      BY <3>3, JoinNothing
    <3>5. QED
      BY <2>3, <3>1, <3>2, <3>4, Zenon
  <2>10. Trimmed(t, top, out, x)
    BY <2>3, <2>5, <2>6, <2>7, <2>8, <2>9, Zenon DEF Trimmed
  <2>11. QED
    BY <2>2, <2>10, Zenon
<1>4. QED
  BY <1>2, <1>3, Zenon

(* h joins the first n tokens of ts.                                       *)
JoinsTokens(ts, h, n) == h = [i \in 0..n |-> IF i = 0 THEN << >> ELSE JoinedToken(h[i - 1], ts[i])]

LEMMA JoiningExists ==
  ASSUME NEW ts, NEW m \in Nat PROVE \E h : JoinsTokens(ts, h, m)
<1> DEFINE T == {n \in Nat : \E h : JoinsTokens(ts, h, n)}
<1>1. 0 \in T
  <2> DEFINE h == [i \in 0..0 |-> << >>]
  <2>1. h = [i \in 0..0 |-> IF i = 0 THEN << >> ELSE JoinedToken(h[i - 1], ts[i])]
    OBVIOUS
  <2> HIDE DEF h
  <2>2. JoinsTokens(ts, h, 0)
    BY <2>1 DEF JoinsTokens
  <2>3. QED
    BY <2>2
<1>2. \A n \in Nat : n \in T => n + 1 \in T
  <2> SUFFICES ASSUME NEW n \in Nat, NEW h, JoinsTokens(ts, h, n)
               PROVE  \E g : JoinsTokens(ts, g, n + 1)
    OBVIOUS
  <2> DEFINE g == [i \in 0..(n + 1) |-> IF i = 0 THEN << >> ELSE JoinedToken(h[i - 1], ts[i])]
  <2>1. \A i \in 0..n : h[i] = IF i = 0 THEN << >> ELSE JoinedToken(h[i - 1], ts[i])
    BY Zenon DEF JoinsTokens
  <2>2. \A i \in 0..n : g[i] = h[i]
    <3>1. \A i \in 0..n : i \in 0..(n + 1)
      OBVIOUS
    <3>2. \A i \in 0..(n + 1) : g[i] = IF i = 0 THEN << >> ELSE JoinedToken(h[i - 1], ts[i])
      BY Zenon
    <3>3. QED
      BY <2>1, <3>1, <3>2, Zenon
  <2>3. \A i \in 0..(n + 1) : i # 0 => i - 1 \in 0..n
    OBVIOUS
  <2>4. \A i \in 0..(n + 1) : g[i] = IF i = 0 THEN << >> ELSE JoinedToken(g[i - 1], ts[i])
    <3>1. \A i \in 0..(n + 1) : g[i] = IF i = 0 THEN << >> ELSE JoinedToken(h[i - 1], ts[i])
      BY Zenon
    <3> HIDE DEF g
    <3>2. QED
      BY <2>2, <2>3, <3>1, Zenon
  <2>5. g = [i \in 0..(n + 1) |-> g[i]]
    OBVIOUS
  <2> HIDE DEF g
  <2>6. g = [i \in 0..(n + 1) |-> IF i = 0 THEN << >> ELSE JoinedToken(g[i - 1], ts[i])]
    BY <2>4, <2>5, Zenon
  <2>7. QED
    BY <2>6, Zenon DEF JoinsTokens
<1> HIDE DEF T
<1>3. m \in T
  BY <1>1, <1>2, NatSet
<1>4. QED
  BY <1>3 DEF T

LEMMA AssembleIs ==
  ASSUME Len(jaTokens) \in Nat
  PROVE  \E h : JoinsTokens(jaTokens, h, Len(jaTokens)) /\ assemble = TrimmedEnd(h[Len(jaTokens)])
<1> DEFINE m == Len(jaTokens)
           joined == CHOOSE h : h = [i \in 0..m |-> IF i = 0 THEN << >>
                                                     ELSE JoinedToken(h[i - 1], jaTokens[i])]
<1>1. \E h : JoinsTokens(jaTokens, h, m)
  BY JoiningExists
<1>2. JoinsTokens(jaTokens, joined, m)
  BY <1>1, Zenon DEF JoinsTokens
<1>3. assemble = TrimmedEnd(joined[m])
  BY Zenon DEF assemble
<1> HIDE DEF joined
<1>4. QED
  BY <1>2, <1>3

OfWords(N) == {p \in Phoneme : p.of = 0 \/ p.of \in N}

LEMMA JoinedOfWords ==
  ASSUME NEW t, NEW N, NEW out \in Seq(OfWords(N)), NEW k, GoodToken(t, k), k.number \in N
  PROVE  JoinedToken(out, k) \in Seq(OfWords(N))
<1> DEFINE sep == IF needs_separator(k, out) THEN <<Space>> ELSE << >>
           end == IF k.space THEN <<Space>> ELSE << >>
           X == OfWords(N)
<1>1. JoinedToken(out, k) = IF Uttered(k) = << >> THEN out ELSE ((out \o sep) \o Uttered(k)) \o end
  BY Zenon DEF JoinedToken, Uttered
<1>2. Space \in X
  BY SpaceIs DEF OfWords
<1>3. Uttered(k) \in Seq(X)
  <2> DEFINE b == Uttered(k)
  <2>1. b \in Seq(Phoneme) /\ \A i \in 1..Len(b) : b[i].of = k.number
    BY UtteredIs, Zenon
  <2> HIDE DEF b
  <2>2. \A i \in 1..Len(b) : b[i] \in Phoneme
    BY <2>1
  <2>3. \A i \in 1..Len(b) : b[i] \in X
    BY <2>1, <2>2, Zenon DEF OfWords
  <2> HIDE DEF X
  <2>4. b \in Seq(X)
    BY <2>1, <2>3
  <2>5. QED
    BY <2>4 DEF b
<1> HIDE DEF X
<1>4. sep \in Seq(X) /\ end \in Seq(X)
  BY <1>2
<1> HIDE DEF sep, end
<1>5. out \o sep \in Seq(X)
  BY <1>4, JoinIs DEF X
<1>6. (out \o sep) \o Uttered(k) \in Seq(X)
  BY <1>3, <1>5, JoinIs
<1>7. ((out \o sep) \o Uttered(k)) \o end \in Seq(X)
  BY <1>4, <1>6, JoinIs
<1>8. QED
  BY <1>1, <1>7, Zenon DEF X

TokensInOrder(t, ts) ==
  /\ ts \in Seq(Token)
  /\ \A i \in 1..Len(ts) : GoodToken(t, ts[i])
  /\ \A i, j \in 1..Len(ts) : i < j => ts[i].number < ts[j].number
TokenNumbers == {jaTokens[i].number : i \in 1..Len(jaTokens)}

LEMMA Assembles ==
  ASSUME NEW t, TokensInOrder(t, jaTokens)
  PROVE  /\ assemble \in Seq(OfWords(TokenNumbers))
         /\ \E top, out : /\ Trimmed(t, top, out, assemble)
                          /\ \A n : Spread(HeardOf(n), out) = Spread(TokenHeard(n), jaTokens)
<1> DEFINE ts == jaTokens
           m == Len(jaTokens)
           X == OfWords(TokenNumbers)
<1>1. /\ ts \in Seq(Token) /\ m \in Nat /\ \A i \in 1..m : ts[i] \in Token
      /\ \A i \in 1..m : GoodToken(t, ts[i]) /\ ts[i].number \in TokenNumbers /\ ts[i].number \in Nat \ {0}
      /\ \A i, j \in 1..m : i < j => ts[i].number < ts[j].number
  <2>1. ts \in Seq(Token) /\ m \in Nat /\ \A i \in 1..m : ts[i] \in Token
    BY DEF TokensInOrder
  <2>2. /\ \A i \in 1..m : GoodToken(t, ts[i])
        /\ \A i, j \in 1..m : i < j => ts[i].number < ts[j].number
    BY DEF TokensInOrder
  <2>3. \A i \in 1..m : ts[i].number \in TokenNumbers
    BY DEF TokenNumbers
  <2>4. \A i \in 1..m : ts[i].number \in Nat \ {0}
    <3> SUFFICES ASSUME NEW i \in 1..m PROVE ts[i].number \in Nat \ {0}
      OBVIOUS
    <3>1. ts[i].number \in 1..Len(t)
      BY <2>2, Zenon DEF GoodToken
    <3>2. QED
      BY <2>1, <3>1
  <2>5. QED
    BY <2>1, <2>2, <2>3, <2>4
<1>2. PICK h : JoinsTokens(ts, h, m) /\ assemble = TrimmedEnd(h[m])
  BY <1>1, AssembleIs
<1>3. \A n \in 0..m : h[n] = IF n = 0 THEN << >> ELSE JoinedToken(h[n - 1], ts[n])
  BY <1>2, Zenon DEF JoinsTokens
<1> DEFINE y(n) == SubSeq(ts, 1, n)
           up(n) == IF n = 0 THEN 0 ELSE ts[n].number
           J(n) == /\ PutTogether(t, h[n], up(n)) /\ h[n] \in Seq(X)
                   /\ \A w : Spread(HeardOf(w), h[n]) = Spread(TokenHeard(w), y(n))
           T == {n \in Nat : n <= m => J(n)}
<1>4. /\ y(0) = << >> /\ y(m) = ts
      /\ \A n \in 0..m : y(n) \in Seq(Token)
      /\ \A n \in 0..(m - 1) : ts[n + 1] \in Token /\ y(n + 1) = Append(y(n), ts[n + 1])
  BY <1>1, PrefixGrows, Zenon
<1> HIDE DEF ts, m, X, y
<1>5. J(0)
  <2>1. h[0] = << >>
    BY <1>1, <1>3
  <2>2. PutTogether(t, << >>, 0)
    BY DEF PutTogether, Apart, SpacesOnly
  <2>3. << >> \in Seq(X)
    OBVIOUS
  <2>4. \A w : Spread(HeardOf(w), << >>) = << >> /\ Spread(TokenHeard(w), << >>) = << >>
    BY SpreadEmpty, Zenon
  <2>5. QED
    BY <1>4, <2>1, <2>2, <2>3, <2>4
<1>6. ASSUME NEW n \in Nat, J(n), n + 1 <= m PROVE J(n + 1)
  <2>1. n \in 0..(m - 1) /\ n \in 0..m /\ n + 1 \in 0..m /\ n + 1 \in 1..m /\ n + 1 # 0 /\ (n + 1) - 1 = n
    BY <1>1, <1>6
  <2> DEFINE k == ts[n + 1]
             o == h[n]
             g == JoinedToken(o, k)
  <2>2. h[n + 1] = g /\ up(n + 1) = k.number
    BY <1>3, <2>1
  <2>3. GoodToken(t, k) /\ k \in Token /\ k.number \in TokenNumbers /\ up(n) \in Nat /\ up(n) < k.number
    <3>1. n # 0 => n \in 1..m /\ n < n + 1
      BY <1>1, <2>1
    <3>2. QED
      BY <1>1, <2>1, <3>1
  <2>4. /\ PutTogether(t, o, up(n)) /\ o \in Seq(X)
        /\ \A w : Spread(HeardOf(w), o) = Spread(TokenHeard(w), y(n))
    BY <1>6
  <2> HIDE DEF k, o, up
  <2>5. /\ PutTogether(t, g, k.number)
        /\ \A w : Spread(HeardOf(w), g) = Spread(HeardOf(w), o) \o TokenHeard(w)[k]
    <3>1. WordAdded(t, o, k, g)
      BY <2>3, <2>4, JoinedStep, Zenon
    <3>2. QED
      BY <3>1, Zenon DEF WordAdded
  <2>6. g \in Seq(X)
    BY <2>3, <2>4, JoinedOfWords, Zenon DEF X
  <2>7. \A w : Spread(HeardOf(w), g) = Spread(TokenHeard(w), y(n + 1))
    <3> SUFFICES ASSUME NEW w PROVE Spread(HeardOf(w), g) = Spread(TokenHeard(w), y(n + 1))
      OBVIOUS
    <3>1. y(n) \in Seq(Token) /\ k \in Token /\ y(n + 1) = Append(y(n), k)
      BY <1>4, <2>1, <2>3, Zenon DEF k
    <3>2. Spread(TokenHeard(w), Append(y(n), k)) = Spread(TokenHeard(w), y(n)) \o TokenHeard(w)[k]
      BY <3>1, SpreadAppend, TokenHeardIsExpansion, Zenon
    <3>3. QED
      BY <2>4, <2>5, <3>1, <3>2, Zenon
  <2>8. QED
    BY <2>2, <2>5, <2>6, <2>7, Zenon
<1> HIDE DEF J
<1>7. m \in T
  <2>1. 0 \in T
    BY <1>5
  <2>2. \A n \in Nat : n \in T => n + 1 \in T
    <3> SUFFICES ASSUME NEW n \in Nat, n \in T, n + 1 <= m PROVE J(n + 1)
      OBVIOUS
    <3>1. n <= m
      BY <1>1
    <3>2. QED
      BY <1>6, <3>1
  <2> HIDE DEF T
  <2>3. QED
    BY <1>1, <2>1, <2>2, NatSet
<1>8. /\ PutTogether(t, h[m], up(m)) /\ h[m] \in Seq(X)
      /\ \A w : Spread(HeardOf(w), h[m]) = Spread(TokenHeard(w), y(m))
  <2>1. J(m)
    BY <1>1, <1>7
  <2>2. QED
    BY <2>1 DEF J
<1>9. up(m) \in Nat
  BY <1>1
<1>10. Trimmed(t, up(m), h[m], assemble)
  BY <1>2, <1>8, <1>9, TrimKeeps, Zenon DEF ts, m
<1>11. assemble \in Seq(X)
  <2>1. h[m] \in Seq(X) => TrimmedEnd(h[m]) \in Seq(X)
    BY DEF TrimmedEnd, Front
  <2>2. QED
    BY <1>2, <1>8, <2>1, Zenon DEF ts, m
<1>12. QED
  <2>1. \A w : Spread(HeardOf(w), h[m]) = Spread(TokenHeard(w), ts)
    BY <1>4, <1>8, Zenon
  <2>2. QED
    BY <1>9, <1>10, <1>11, <2>1, Zenon DEF ts, X

-----------------------------------------------------------------------------
(* push_word.                                                              *)
NumberedWord == [surface : STRING, kana : Seq(STRING), chain : BOOLEAN, number : Nat]

LEMMA SpaceChanged ==
  ASSUME NEW k \in Token, NEW b \in BOOLEAN, NEW j, j = [k EXCEPT !.space = b]
  PROVE  /\ j \in Token /\ j.phonemes = k.phonemes /\ j.number = k.number
         /\ j.voiced = k.voiced /\ j.chained = k.chained /\ j.nasal = k.nasal
  BY DEF Token

(* The tokens say the same, whatever spaces follow them.                   *)
SameWords(ts, us) ==
  /\ us \in Seq(Token) /\ Len(us) = Len(ts)
  /\ \A i \in 1..Len(ts) :
       /\ us[i].phonemes = ts[i].phonemes /\ us[i].number = ts[i].number
       /\ us[i].voiced = ts[i].voiced /\ us[i].chained = ts[i].chained
       /\ us[i].nasal = ts[i].nasal

LEMMA SpacesLeaveWords ==
  ASSUME NEW ts \in Seq(Token), NEW b \in BOOLEAN
  PROVE  SameWords(ts, set_last_whitespace(ts, b)) /\ SameWords(ts, ts)
<1>1. SameWords(ts, ts)
  BY DEF SameWords
<1>2. CASE ts = << >>
  BY <1>1, <1>2 DEF set_last_whitespace
<1>3. CASE ts # << >>
  <2> DEFINE l == Len(ts)
             j == [ts[l] EXCEPT !.space = b]
             us == [ts EXCEPT ![l] = j]
  <2>1. set_last_whitespace(ts, b) = us
    BY <1>3 DEF set_last_whitespace
  <2>2. l \in 1..l /\ l \in Nat /\ ts[l] \in Token
    BY <1>3
  <2>3. /\ j \in Token /\ j.phonemes = ts[l].phonemes /\ j.number = ts[l].number
        /\ j.voiced = ts[l].voiced /\ j.chained = ts[l].chained /\ j.nasal = ts[l].nasal
    <3>1. j = [ts[l] EXCEPT !.space = b]
      OBVIOUS
    <3> HIDE DEF j
    <3>2. QED
      BY <2>2, <3>1, SpaceChanged
  <2> HIDE DEF j
  <2>4. us \in Seq(Token) /\ Len(us) = l /\ us[l] = j /\ \A i \in 1..l : i # l => us[i] = ts[i]
    BY <2>2, <2>3
  <2> HIDE DEF us
  <2>5. SameWords(ts, us)
    <3> SUFFICES ASSUME NEW i \in 1..l
                 PROVE  /\ us[i].phonemes = ts[i].phonemes /\ us[i].number = ts[i].number
                        /\ us[i].voiced = ts[i].voiced /\ us[i].chained = ts[i].chained
                        /\ us[i].nasal = ts[i].nasal
      BY <2>4, Zenon DEF SameWords
    <3>1. QED
      BY <2>3, <2>4, Zenon
  <2>6. QED
    BY <1>1, <2>1, <2>5, Zenon
<1>4. QED
  BY <1>2, <1>3

LEMMA SameWordsSaySame ==
  ASSUME NEW t, NEW ts, TokensInOrder(t, ts), NEW us, SameWords(ts, us)
  PROVE  /\ TokensInOrder(t, us)
         /\ \A n : Spread(TokenHeard(n), us) = Spread(TokenHeard(n), ts)
<1>1. /\ ts \in Seq(Token) /\ us \in Seq(Token) /\ Len(us) = Len(ts) /\ Len(ts) \in Nat
      /\ \A i \in 1..Len(ts) : ts[i] \in Token /\ us[i] \in Token
  BY DEF TokensInOrder, SameWords
<1>2. \A i \in 1..Len(us) : GoodToken(t, us[i])
  <2> SUFFICES ASSUME NEW i \in 1..Len(ts) PROVE GoodToken(t, us[i])
    BY <1>1
  <2>1. GoodToken(t, ts[i])
    BY DEF TokensInOrder
  <2>2. /\ us[i].phonemes = ts[i].phonemes /\ us[i].number = ts[i].number
        /\ us[i].voiced = ts[i].voiced /\ us[i].chained = ts[i].chained
        /\ us[i].nasal = ts[i].nasal
    BY Zenon DEF SameWords
  <2>3. us[i] \in Token
    BY <1>1
  <2>4. QED
    BY <2>1, <2>2, <2>3, Zenon DEF GoodToken
<1>3. \A i, j \in 1..Len(us) : i < j => us[i].number < us[j].number
  <2> SUFFICES ASSUME NEW i \in 1..Len(ts), NEW j \in 1..Len(ts), i < j
               PROVE  us[i].number < us[j].number
    BY <1>1
  <2>1. ts[i].number < ts[j].number
    BY DEF TokensInOrder
  <2>2. us[i].number = ts[i].number /\ us[j].number = ts[j].number
    BY Zenon DEF SameWords
  <2>3. QED
    BY <2>1, <2>2, Zenon
<1>4. ASSUME NEW n PROVE Spread(TokenHeard(n), us) = Spread(TokenHeard(n), ts)
  <2>1. \A k \in Token : TokenHeard(n)[k] = IF k.number = n THEN Tails(k.phonemes) ELSE << >>
    BY Zenon DEF TokenHeard
  <2>2. \A i \in 1..Len(ts) : TokenHeard(n)[us[i]] = TokenHeard(n)[ts[i]]
    <3> SUFFICES ASSUME NEW i \in 1..Len(ts) PROVE TokenHeard(n)[us[i]] = TokenHeard(n)[ts[i]]
      OBVIOUS
    <3>1. us[i].phonemes = ts[i].phonemes /\ us[i].number = ts[i].number
      BY Zenon DEF SameWords
    <3>2. ts[i] \in Token /\ us[i] \in Token
      BY <1>1
    <3>3. QED
      BY <2>1, <3>1, <3>2, Zenon
  <2>3. [i \in 1..Len(us) |-> TokenHeard(n)[us[i]]] = [i \in 1..Len(ts) |-> TokenHeard(n)[ts[i]]]
    BY <1>1, <2>2
  <2>4. QED
    BY <2>3, Zenon DEF Spread
<1>5. QED
  BY <1>1, <1>2, <1>3, <1>4, Zenon DEF TokensInOrder

Pushed(t, ts, w, us) ==
  /\ TokensInOrder(t, us)
  /\ \A i \in 1..Len(us) :
       /\ us[i].number <= w.number
       /\ us[i].number = w.number \/ \E m \in 1..Len(ts) : us[i].number = ts[m].number
  /\ \A n : Spread(TokenHeard(n), us) =
              Spread(TokenHeard(n), ts) \o (IF n = w.number THEN MorasOf(w.kana) ELSE << >>)

LEMMA TokenAppended ==
  ASSUME NEW t, NEW ts, TokensInOrder(t, ts), NEW k, GoodToken(t, k), NEW w,
         k.number = w.number, t[w.number] = w, \A i \in 1..Len(ts) : ts[i].number < k.number
  PROVE  Pushed(t, ts, w, Append(ts, k))
<1> DEFINE us == Append(ts, k)
           l == Len(ts)
<1>1. ts \in Seq(Token) /\ k \in Token /\ l \in Nat
  BY DEF TokensInOrder, GoodToken
<1>2. /\ us \in Seq(Token) /\ Len(us) = l + 1 /\ us[l + 1] = k
      /\ \A i \in 1..l : us[i] = ts[i]
  BY <1>1
<1> HIDE DEF us
<1>3. k.number \in Nat /\ \A i \in 1..l : ts[i].number \in Nat
  <2>1. \A i \in 1..l : ts[i] \in Token
    BY <1>1
  <2>2. QED
    BY <1>1, <2>1, TokenParts, Zenon
<1>4. \A i \in 1..Len(us) : i \in 1..l \/ i = l + 1
  BY <1>1, <1>2
<1>5. \A i \in 1..Len(us) : GoodToken(t, us[i])
  BY <1>2, <1>4, Zenon DEF TokensInOrder
<1>6. \A i, j \in 1..Len(us) : i < j => us[i].number < us[j].number
  <2> SUFFICES ASSUME NEW i \in 1..Len(us), NEW j \in 1..Len(us), i < j
               PROVE  us[i].number < us[j].number
    OBVIOUS
  <2>1. i \in 1..l
    BY <1>1, <1>2
  <2>2. CASE j \in 1..l
    BY <1>2, <2>1, <2>2 DEF TokensInOrder
  <2>3. CASE j = l + 1
    BY <1>2, <2>1, <2>3
  <2>4. QED
    BY <1>4, <2>2, <2>3
<1>7. \A i \in 1..Len(us) : us[i].number <= w.number
  <2> SUFFICES ASSUME NEW i \in 1..Len(us) PROVE us[i].number <= k.number
    OBVIOUS
  <2>1. CASE i \in 1..l
    <3>1. us[i].number = ts[i].number /\ ts[i].number < k.number
      BY <1>2, <2>1
    <3>2. QED
      BY <1>3, <2>1, <3>1
  <2>2. CASE i = l + 1
    <3>1. us[i].number = k.number
      BY <1>2, <2>2
    <3>2. QED
      BY <1>3, <3>1
  <2>3. QED
    BY <1>4, <2>1, <2>2
<1>8. ASSUME NEW n
      PROVE  Spread(TokenHeard(n), us) =
               Spread(TokenHeard(n), ts) \o (IF n = w.number THEN MorasOf(w.kana) ELSE << >>)
  <2>1. Spread(TokenHeard(n), Append(ts, k)) = Spread(TokenHeard(n), ts) \o TokenHeard(n)[k]
    <3> DEFINE e == TokenHeard(n)
    <3>1. e \in Expansions(Token, Symbol)
      BY TokenHeardIsExpansion, Zenon
    <3>2. ts \in Seq(Token) /\ k \in Token
      BY <1>1
    <3> HIDE DEF e, l
    <3>3. Spread(e, Append(ts, k)) = Spread(e, ts) \o e[k]
      BY <3>1, <3>2, SpreadAppend
    <3>4. QED
      BY <3>3 DEF e
  <2>2. TokenHeard(n)[k] = IF k.number = n THEN Tails(k.phonemes) ELSE << >>
    BY <1>1, Zenon DEF TokenHeard
  <2>3. Tails(k.phonemes) = MorasOf(w.kana)
    BY Zenon DEF GoodToken
  <2>4. TokenHeard(n)[k] = IF n = w.number THEN MorasOf(w.kana) ELSE << >>
    BY <2>2, <2>3, Zenon
  <2>5. QED
    BY <2>1, <2>4, Zenon DEF us
<1>9. \A i \in 1..Len(us) :
        us[i].number = w.number \/ \E m \in 1..Len(ts) : us[i].number = ts[m].number
  BY <1>2, <1>4, Zenon
<1>10. Pushed(t, ts, w, us)
  BY <1>2, <1>5, <1>6, <1>7, <1>8, <1>9, Zenon DEF Pushed, TokensInOrder
<1>11. QED
  BY <1>10 DEF us

LEMMA SilentWord ==
  ASSUME NEW kana \in Seq(STRING), pron_to_moras(kana) = << >>
  PROVE  MorasOf(kana) = << >>
<1>1. Spread(MoraTail, pron_to_moras(kana)) = MorasOf(kana)
  BY MorasOfWord, Zenon
<1>2. QED
  BY <1>1, SpreadEmpty, Zenon

LEMMA MarksAreSilent ==
  ASSUME NEW mark \in PUNCT_VALUES
  PROVE  mark \in Symbol /\ <<mark>> \in Seq(Symbol) /\ Tails(<<mark>>) = << >>
<1>1. mark \in Symbol
  BY DEF Symbol
<1>2. ~is_tail(mark)
  BY DEF PUNCT_VALUES, PUNCT_STARTS, PUNCT_STOPS, is_tail
<1>3. TailOf[mark] = << >>
  BY <1>1, <1>2, Zenon DEF TailOf
<1>4. Spread(TailOf, <<mark>>) = TailOf[mark]
  BY <1>1, SpreadOne, TailsAreExpansions, Zenon
<1>5. <<mark>> \in Seq(Symbol)
  BY <1>1
<1>6. QED
  BY <1>1, <1>3, <1>4, <1>5, Zenon DEF Tails

LEMMA BlanksStayBlank ==
  ASSUME NEW s, map_punct(s) \in Blank PROVE s \in Blank
  BY DEF map_punct, Blank

LEMMA PushKeeps ==
  ASSUME NEW t, NEW ts, TokensInOrder(t, ts), NEW w \in NumberedWord,
         w.number \in 1..Len(t), t[w.number] = w, w.surface \in Blank => w.kana = << >>,
         \A i \in 1..Len(ts) : ts[i].number < w.number
  PROVE  Pushed(t, ts, w, push_word(ts, w))
<1> DEFINE mark == map_punct(w.surface)
           moras == pron_to_moras(w.kana)
           voiced == moras # << >>
<1>1. w.kana \in Seq(STRING) /\ w.number \in Nat /\ w.chain \in BOOLEAN
  BY DEF NumberedWord
<1>2. ts \in Seq(Token) /\ \A i \in 1..Len(ts) : ts[i] \in Token /\ ts[i].number \in Nat
  <2>1. ts \in Seq(Token)
    BY DEF TokensInOrder
  <2>2. \A i \in 1..Len(ts) : ts[i] \in Token
    BY <2>1
  <2>3. QED
    BY <2>1, <2>2, TokenParts, Zenon
<1>3. /\ moras \in Seq(DOMAIN MoraTable)
      /\ Spread(MoraTail, moras) = MorasOf(w.kana)
  BY <1>1, MorasOfWord, Zenon
<1>4. HasMoras(t, w.number) <=> voiced
  BY Zenon DEF HasMoras
<1>5. ~voiced => MorasOf(w.kana) = << >>
  BY <1>1, SilentWord, Zenon
<1>6. ASSUME NEW us, SameWords(ts, us)
      PROVE  /\ TokensInOrder(t, us)
             /\ \A i \in 1..Len(us) : us[i].number < w.number
             /\ \A i \in 1..Len(us) : \E m \in 1..Len(ts) : us[i].number = ts[m].number
             /\ \A n : Spread(TokenHeard(n), us) = Spread(TokenHeard(n), ts)
  <2>1. \A i \in 1..Len(us) : i \in 1..Len(ts) /\ us[i].number = ts[i].number
    BY <1>6, Zenon DEF SameWords
  <2>2. QED
    BY <1>6, <2>1, SameWordsSaySame, Zenon
<1>7. CASE ~voiced /\ mark \in PUNCT_VALUES
  <2> DEFINE us == IF mark \in PUNCT_STOPS THEN set_last_whitespace(ts, FALSE)
                   ELSE IF mark \in PUNCT_STARTS THEN set_last_whitespace(ts, TRUE)
                   ELSE ts
             k == [phonemes |-> <<mark>>, space |-> mark \in PUNCT_STOPS, number |-> w.number,
                   voiced |-> FALSE, chained |-> FALSE, nasal |-> FALSE]
  <2>1. push_word(ts, w) = Append(us, k)
    BY <1>7, Zenon DEF push_word, push_punct
  <2>2. SameWords(ts, us)
    BY <1>2, SpacesLeaveWords
  <2>3. <<mark>> \in Seq(Symbol) /\ Tails(<<mark>>) = << >>
    BY <1>7, MarksAreSilent, Zenon
  <2> HIDE DEF us, mark, voiced
  <2>4. /\ k \in Token /\ k.number = w.number /\ k.voiced = FALSE /\ k.chained = FALSE
        /\ k.nasal = FALSE /\ k.phonemes = <<mark>>
    BY <1>1, <2>3 DEF Token
  <2> HIDE DEF k
  <2>5. GoodToken(t, k)
    BY <1>4, <1>5, <1>7, <2>3, <2>4, Zenon DEF GoodToken
  <2>6. /\ TokensInOrder(t, us) /\ \A i \in 1..Len(us) : us[i].number < k.number
        /\ \A i \in 1..Len(us) : \E m \in 1..Len(ts) : us[i].number = ts[m].number
        /\ \A n : Spread(TokenHeard(n), us) = Spread(TokenHeard(n), ts)
    BY <1>6, <2>2, <2>4, Zenon
  <2>7. Pushed(t, us, w, Append(us, k))
    BY <2>4, <2>5, <2>6, TokenAppended, Zenon
  <2>8. Pushed(t, ts, w, Append(us, k))
    <3>1. \A i \in 1..Len(Append(us, k)) :
            \/ Append(us, k)[i].number = w.number
            \/ \E m \in 1..Len(ts) : Append(us, k)[i].number = ts[m].number
      BY <2>6, <2>7, Zenon DEF Pushed
    <3>2. QED
      BY <2>6, <2>7, <3>1, Zenon DEF Pushed
  <2>9. QED
    BY <2>1, <2>8, Zenon
<1>8. CASE /\ ~(~voiced /\ mark \in PUNCT_VALUES)
           /\ mark \in Blank \/ (~voiced /\ mark = "middle dot")
  <2>1. push_word(ts, w) = set_last_whitespace(ts, TRUE)
    BY <1>8, Zenon DEF push_word
  <2>2. MorasOf(w.kana) = << >>
    <3>1. CASE mark \in Blank
      <4>1. w.kana = << >>
        BY <3>1, BlanksStayBlank, Zenon
      <4>2. Known(<< >>) = << >>
        BY FlattenEmpty DEF Known
      <4>3. pron_to_moras(<< >>) = << >>
        BY <4>2, FlattenEmpty DEF pron_to_moras
      <4>4. QED
        BY <1>1, <4>1, <4>3, SilentWord, Zenon
    <3>2. QED
      BY <1>5, <1>8, <3>1, Zenon
  <2> DEFINE us == set_last_whitespace(ts, TRUE)
  <2>3. SameWords(ts, us)
    BY <1>2, SpacesLeaveWords
  <2> HIDE DEF us
  <2>4. /\ TokensInOrder(t, us) /\ \A i \in 1..Len(us) : us[i].number < w.number
        /\ \A i \in 1..Len(us) : \E m \in 1..Len(ts) : us[i].number = ts[m].number
        /\ \A n : Spread(TokenHeard(n), us) = Spread(TokenHeard(n), ts)
    BY <1>6, <2>3, Zenon
  <2>5. \A i \in 1..Len(us) : us[i].number <= w.number
    <3>1. \A i \in 1..Len(us) : us[i].number \in Nat
      <4>1. us \in Seq(Token)
        BY <2>4 DEF TokensInOrder
      <4>2. \A i \in 1..Len(us) : us[i] \in Token
        BY <4>1
      <4>3. QED
        BY <4>2, TokenParts, Zenon
    <3>2. QED
      BY <1>1, <2>4, <3>1
  <2>6. ASSUME NEW n
        PROVE  Spread(TokenHeard(n), us) =
                 Spread(TokenHeard(n), ts) \o (IF n = w.number THEN MorasOf(w.kana) ELSE << >>)
    <3>1. Spread(TokenHeard(n), ts) \in Seq(Symbol)
      BY <1>2, SpreadType, TokenHeardIsExpansion, Zenon
    <3>2. Spread(TokenHeard(n), ts) \o << >> = Spread(TokenHeard(n), ts)
      BY <3>1, JoinNothing
    <3>3. QED
      BY <2>2, <2>4, <3>2, Zenon
  <2>7. Pushed(t, ts, w, us)
    BY <2>4, <2>5, <2>6, Zenon DEF Pushed
  <2>8. QED
    BY <2>1, <2>7 DEF us
<1>9. CASE /\ ~(~voiced /\ mark \in PUNCT_VALUES)
           /\ ~(mark \in Blank \/ (~voiced /\ mark = "middle dot"))
  <2> DEFINE k == [phonemes |-> moras_to_phonemes(moras), space |-> FALSE,
                   number |-> w.number, voiced |-> voiced,
                   chained |-> /\ voiced /\ ts # << >> /\ Last(ts).voiced
                               /\ w.chain \/ moras[1] = <<"long">>,
                   nasal |-> voiced /\ moras[1] = <<"n">>]
             said == moras_to_phonemes(moras)
             chained == /\ voiced /\ ts # << >> /\ Last(ts).voiced
                        /\ w.chain \/ moras[1] = <<"long">>
             nasal == voiced /\ moras[1] = <<"n">>
  <2>1. push_word(ts, w) = Append(ts, k)
    BY <1>9, Zenon DEF push_word
  <2>2. /\ said \in Seq(Symbol) /\ Tails(said) = Spread(MoraTail, moras)
        /\ moras # << >> => said # << >> /\ is_tail(Last(said))
    BY <1>3, PhonemesOfMoras, Zenon
  <2>3. (chained \/ nasal) => MayFollow(w)
    <3>1. moras[1] = Head(moras)
      BY <1>3
    <3>2. QED
      BY <3>1 DEF MayFollow
  <2>4. chained \in BOOLEAN /\ nasal \in BOOLEAN /\ voiced \in BOOLEAN
    BY <1>1
  <2>5. k = [phonemes |-> said, space |-> FALSE, number |-> w.number, voiced |-> voiced,
             chained |-> chained, nasal |-> nasal]
    BY Zenon
  <2> HIDE DEF k, said, chained, nasal, voiced, mark, moras
  <2>6. /\ k \in Token /\ k.number = w.number /\ k.voiced = voiced /\ k.chained = chained
        /\ k.nasal = nasal /\ k.phonemes = said
    BY <1>1, <2>2, <2>4, <2>5 DEF Token
  <2>7. GoodToken(t, k)
    <3>1. k.voiced <=> HasMoras(t, k.number)
      BY <1>4, <2>6, Zenon
    <3>2. k.voiced => k.phonemes # << >> /\ is_tail(Last(k.phonemes))
      BY <2>2, <2>6, Zenon DEF voiced
    <3>3. Tails(k.phonemes) = MorasOf(t[k.number].kana)
      BY <1>3, <2>2, <2>6, Zenon
    <3>4. (k.chained \/ k.nasal) => MayFollow(t[k.number])
      BY <2>3, <2>6, Zenon
    <3>5. QED
      BY <2>6, <3>1, <3>2, <3>3, <3>4, Zenon DEF GoodToken
  <2>8. Pushed(t, ts, w, Append(ts, k))
    BY <2>6, <2>7, TokenAppended, Zenon
  <2>9. QED
    BY <2>1, <2>8, Zenon
<1>10. QED
  BY <1>7, <1>8, <1>9, Zenon

-----------------------------------------------------------------------------
(* The invariant.                                                          *)

(* The text is numbered and blanks have no kana; the words of the sentence *)
(* and those of no sentence yet are words of it.                           *)
TextInv ==
  /\ jaText \in Seq(NumberedWord)
  /\ \A i \in 1..Len(jaText) :
       jaText[i].number = i /\ (jaText[i].surface \in Blank => jaText[i].kana = << >>)

Reached == Len(jaText) - Len(jaRest)

PlaceInv ==
  /\ jaStage \in {"split", "read", "push", "done", "failed"}
  /\ jaRest \in Seq(NumberedWord) /\ Len(jaRest) <= Len(jaText)
  /\ \A i \in 1..Len(jaRest) : jaRest[i] = jaText[Reached + i]
  /\ jaWords \in Seq(NumberedWord)
  /\ \A i \in 1..Len(jaWords) :
       jaWords[i].number \in 1..Reached /\ jaWords[i] = jaText[jaWords[i].number]
  /\ \A i, j \in 1..Len(jaWords) : i < j => jaWords[i].number < jaWords[j].number
  /\ jaStage \in {"split", "done"} => jaWords = << >>
  /\ jaStage = "done" => jaRest = << >>

TokenInv ==
  /\ TokensInOrder(jaText, jaTokens)
  /\ jaStage = "read" => jaTokens = << >>
  /\ \A i \in 1..Len(jaTokens) :
       /\ jaTokens[i].number <= Reached
       /\ \A j \in 1..Len(jaWords) : jaTokens[i].number < jaWords[j].number

(* The sentences told are apart inside, and in order.                      *)
Fine(t, r) ==
  /\ r \in Seq(Phoneme) /\ r # << >> /\ r[1].of # 0 /\ r[Len(r)].of # 0
  /\ Apart(t, r) /\ SpacesOnly(r)
  /\ \A i \in 1..Len(r) : r[i].symbol \notin {"g", "K'"} /\ r[i].of <= Len(t)

Told == FlattenSeq(readings)
ToldInv ==
  /\ readings \in Seq(Seq(Phoneme))
  /\ \A r \in 1..Len(readings) : Fine(jaText, readings[r])
  /\ SpacesOnly(Told)
  /\ \A i, j \in 1..Len(Told) :
       (i < j /\ Told[i].of # 0 /\ Told[j].of # 0) => Told[i].of <= Told[j].of
  /\ \A i \in 1..Len(Told) :
       /\ Told[i].of <= Reached
       /\ \A j \in 1..Len(jaWords) : Told[i].of < jaWords[j].number
       /\ jaStage = "push" => \A j \in 1..Len(jaTokens) : Told[i].of < jaTokens[j].number

(* What is told of a word, and said of it in the sentence, is all of it if *)
(* it had its turn, and nothing else.                                      *)
Waits(n) == \E i \in 1..Len(jaWords) : jaWords[i].number = n
Pending(n) == IF jaStage = "push" THEN Spread(TokenHeard(n), jaTokens) ELSE << >>
Due(n) == IF n <= Reached /\ ~Waits(n) THEN MorasOf(jaText[n].kana) ELSE << >>
TurnInv ==
  jaStage # "failed" =>
    \A n \in 1..Len(jaText) : Spread(HeardOf(n), Told) \o Pending(n) = Due(n)

JapaneseInv == TextInv /\ PlaceInv /\ TokenInv /\ ToldInv /\ TurnInv

Tells(r) ==
  /\ Fine(jaText, r)
  /\ \A i \in 1..Len(r) : r[i].of = 0 \/ r[i].of \in TokenNumbers
  /\ \A n : Spread(HeardOf(n), r) = Spread(TokenHeard(n), jaTokens)

LEMMA SentenceTells ==
  ASSUME TokensInOrder(jaText, jaTokens), Len(jaText) \in Nat
  PROVE  /\ assemble # << >> => Tells(fit_to_vocab(assemble))
         /\ assemble = << >> => \A n : Spread(TokenHeard(n), jaTokens) = << >>
<1> DEFINE x == assemble
           r == fit_to_vocab(x)
           t == jaText
<1>1. x \in Seq(OfWords(TokenNumbers))
  BY Assembles, Zenon
<1>2. PICK top, out : /\ Trimmed(t, top, out, x)
                      /\ \A n : Spread(HeardOf(n), out) = Spread(TokenHeard(n), jaTokens)
  BY Assembles, Zenon
<1> HIDE DEF x
<1>3. /\ x \in Seq(Phoneme) /\ Apart(t, x) /\ SpacesOnly(x)
      /\ x # << >> => x[1].of # 0 /\ x[Len(x)].of # 0
      /\ \A n : Spread(HeardOf(n), x) = Spread(TokenHeard(n), jaTokens)
  BY <1>2, Zenon DEF Trimmed
<1>4. CASE x = << >>
  <2>1. \A n : Spread(TokenHeard(n), jaTokens) = << >>
    BY <1>3, <1>4, SpreadEmpty, Zenon
  <2>2. QED
    BY <1>4, <2>1 DEF x
<1>5. CASE x # << >>
  <2>1. Fits(t, x, r) /\ \A n : Spread(HeardOf(n), r) = Spread(HeardOf(n), x)
    BY <1>3, <1>5, FitKeeps, Zenon
  <2> HIDE DEF r
  <2>2. /\ r \in Seq(Phoneme) /\ r # << >> /\ Apart(t, r) /\ SpacesOnly(r)
        /\ r[1].of = x[1].of /\ r[Len(r)].of = x[Len(x)].of
        /\ \A i \in 1..Len(r) : /\ r[i].symbol \notin {"g", "K'"}
                                /\ \E k \in 1..Len(x) : r[i].of = x[k].of
    BY <2>1, Zenon DEF Fits
  <2>3. \A k \in 1..Len(x) : x[k].of = 0 \/ x[k].of \in TokenNumbers
    <3>1. \A k \in 1..Len(x) : x[k] \in OfWords(TokenNumbers)
      BY <1>1
    <3>2. QED
      BY <3>1, Zenon DEF OfWords
  <2>4. \A i \in 1..Len(r) : r[i].of = 0 \/ r[i].of \in TokenNumbers
    BY <2>2, <2>3, Zenon
  <2>5. \A i \in 1..Len(r) : r[i].of <= Len(t)
    <3>1. \A u \in TokenNumbers : u \in 1..Len(t)
      BY DEF TokenNumbers, TokensInOrder, GoodToken
    <3>2. QED
      BY <2>4, <3>1
  <2>6. Tells(r)
    BY <1>3, <1>5, <2>1, <2>2, <2>4, <2>5, Zenon DEF Tells, Fine
  <2>7. QED
    BY <1>5, <2>6 DEF r, x
<1>6. QED
  BY <1>4, <1>5

(* split_sentences.                                                        *)
LEMMA FirstSentenceIs ==
  ASSUME NEW X, jaRest \in Seq(X), jaRest # << >>
  PROVE  FirstSentence \in 1..Len(jaRest)
<1> DEFINE ends == {i \in DOMAIN jaRest : EndsSentence(jaRest[i])}
<1>1. Len(jaRest) \in Nat \ {0} /\ DOMAIN jaRest = 1..Len(jaRest)
  OBVIOUS
<1>2. FirstSentence = IF ends = {} THEN Len(jaRest) ELSE CHOOSE i \in ends : \A j \in ends : i <= j
  BY Zenon DEF FirstSentence
<1>3. ends \subseteq 1..Len(jaRest)
  BY <1>1
<1> HIDE DEF ends
<1>4. CASE ends = {}
  BY <1>1, <1>2, <1>4
<1>5. CASE ends # {}
  <2>1. \E i \in ends : \A j \in ends : i <= j
    <3>1. ends \subseteq Nat
      BY <1>3
    <3>2. QED
      BY <1>5, <3>1, LeastElement
  <2>2. (CHOOSE i \in ends : \A j \in ends : i <= j) \in ends
    BY <2>1
  <2>3. QED
    BY <1>2, <1>3, <1>5, <2>2
<1>6. QED
  BY <1>4, <1>5

(* What is left of a sentence goes from its first word that is no blank to *)
(* its last.                                                               *)
CutFrom(words, c, cut) ==
  /\ c \in Nat /\ c + Len(cut) <= Len(words)
  /\ \A i \in 1..Len(cut) : cut[i] = words[c + i]
  /\ \A j \in 1..Len(words) : words[j].surface \notin Blank => j - c \in 1..Len(cut)

LEMMA TrimmedWordsAre ==
  ASSUME NEW X, NEW words \in Seq(X)
  PROVE  TrimmedWords(words) \in Seq(X) /\ \E c : CutFrom(words, c, TrimmedWords(words))
<1> DEFINE solid == {i \in DOMAIN words : words[i].surface \notin Blank}
           a == CHOOSE i \in solid : \A j \in solid : i <= j
           b == CHOOSE i \in solid : \A j \in solid : i >= j
           n == Len(words)
<1>1. n \in Nat /\ DOMAIN words = 1..n
  OBVIOUS
<1>2. TrimmedWords(words) = IF solid = {} THEN << >> ELSE SubSeq(words, a, b)
  BY Zenon DEF TrimmedWords
<1>3. solid \subseteq 1..n /\ \A j \in 1..n : words[j].surface \notin Blank => j \in solid
  BY <1>1
<1> HIDE DEF solid
<1>4. CASE solid = {}
  <2>1. TrimmedWords(words) = << >>
    BY <1>2, <1>4
  <2>2. CutFrom(words, 0, << >>)
    BY <1>1, <1>3, <1>4 DEF CutFrom
  <2>3. << >> \in Seq(X)
    OBVIOUS
  <2>4. QED
    BY <2>1, <2>2, <2>3
<1>5. CASE solid # {}
  <2>1. a \in solid /\ \A j \in solid : a <= j
    <3>1. \E i \in solid : \A j \in solid : i <= j
      <4>1. solid \subseteq Nat
        BY <1>3
      <4>2. QED
        BY <1>5, <4>1, LeastElement
    <3>2. QED
      BY <3>1
  <2>2. b \in solid /\ \A j \in solid : b >= j
    <3>1. \E i \in solid : \A j \in solid : i >= j
      <4>1. solid \subseteq 0..n
        BY <1>3
      <4>2. Max(solid) \in solid /\ \A y \in solid : y <= Max(solid)
        BY <1>1, <1>5, <4>1, MaxIsGreatest
      <4>3. \A y \in solid : y \in Nat
        BY <4>1
      <4>4. \A y \in solid : Max(solid) >= y
        BY <4>2, <4>3
      <4>5. QED
        BY <4>2, <4>4
    <3>2. QED
      BY <3>1
  <2> HIDE DEF a, b
  <2> DEFINE cut == SubSeq(words, a, b)
  <2>3. a \in 1..n /\ b \in 1..n /\ a <= b
    BY <1>3, <2>1, <2>2
  <2>4. /\ cut \in Seq(X) /\ Len(cut) = b - a + 1
        /\ \A i \in 1..Len(cut) : cut[i] = words[(a - 1) + i]
    BY <1>1, <2>3
  <2> HIDE DEF cut
  <2>5. \A j \in 1..n : words[j].surface \notin Blank => j - (a - 1) \in 1..Len(cut)
    BY <1>3, <2>1, <2>2, <2>3, <2>4
  <2>6. a - 1 \in Nat /\ (a - 1) + Len(cut) <= n
    BY <1>1, <2>3, <2>4
  <2>7. CutFrom(words, a - 1, cut)
    BY <2>4, <2>5, <2>6, Zenon DEF CutFrom, n
  <2>8. QED
    BY <1>2, <1>5, <2>4, <2>7, Zenon DEF cut
<1>6. QED
  BY <1>4, <1>5

-----------------------------------------------------------------------------
(* The steps.                                                              *)

LEMMA TextBegins == JapaneseInit => TextInv
<1> SUFFICES ASSUME JapaneseInit PROVE TextInv
  OBVIOUS
<1>1. PICK t \in JapaneseTexts : jaText = Numbered(t)
  BY DEF JapaneseInit, JapaneseStarts
<1>2. t \in Seq(Word) /\ \A i \in DOMAIN t : t[i].surface \in Blank => t[i].kana = << >>
  BY JapaneseAssumption
<1> DEFINE n == Len(t)
           e(i) == [surface |-> t[i].surface, kana |-> t[i].kana, chain |-> t[i].chain, number |-> i]
<1>3. DOMAIN t = 1..n /\ n \in Nat /\ \A i \in 1..n : t[i] \in Word
  BY <1>2
<1>4. jaText = [i \in 1..n |-> e(i)]
  BY <1>1, <1>3 DEF Numbered
<1>5. \A i \in 1..n : /\ e(i) \in NumberedWord /\ e(i).number = i
                      /\ e(i).surface = t[i].surface /\ e(i).kana = t[i].kana
  BY <1>3 DEF Word, NumberedWord
<1> HIDE DEF e
<1>6. jaText \in Seq(NumberedWord) /\ Len(jaText) = n /\ \A i \in 1..n : jaText[i] = e(i)
  BY <1>3, <1>4, <1>5
<1>7. QED
  BY <1>2, <1>3, <1>5, <1>6, Zenon DEF TextInv

LEMMA JapaneseBegins == JapaneseInit => JapaneseInv
<1> SUFFICES ASSUME JapaneseInit PROVE JapaneseInv
  OBVIOUS
<1>1. TextInv
  BY TextBegins
<1>2. /\ jaRest = jaText /\ jaWords = << >> /\ jaTokens = << >> /\ readings = << >>
      /\ jaStage = "split"
  BY DEF JapaneseInit, JapaneseStarts
<1>3. jaText \in Seq(NumberedWord) /\ Len(jaText) \in Nat
  BY <1>1 DEF TextInv
<1>4. Reached = 0
  BY <1>2, <1>3 DEF Reached
<1>5. PlaceInv
  BY <1>2, <1>3, <1>4 DEF PlaceInv
<1>6. TokenInv
  BY <1>2 DEF TokenInv, TokensInOrder
<1>7. Told = << >>
  BY <1>2, FlattenEmpty DEF Told
<1>8. ToldInv
  BY <1>2, <1>7 DEF ToldInv, SpacesOnly
<1>9. TurnInv
  <2> SUFFICES ASSUME NEW n \in 1..Len(jaText)
               PROVE  Spread(HeardOf(n), Told) \o Pending(n) = Due(n)
    BY DEF TurnInv
  <2>1. Spread(HeardOf(n), Told) = << >>
    BY <1>7, SpreadEmpty, Zenon
  <2>2. Pending(n) = << >>
    BY <1>2 DEF Pending
  <2>3. Due(n) = << >>
    BY <1>3, <1>4 DEF Due
  <2>4. << >> \o << >> = << >>
    OBVIOUS
  <2>5. QED
    BY <2>1, <2>2, <2>3, <2>4, Zenon
<1>10. QED
  BY <1>1, <1>5, <1>6, <1>8, <1>9 DEF JapaneseInv

(* A sentence is split off: its words wait, the blanks around it are       *)
(* silent.                                                                 *)
SplitsTo(c, f) ==
  /\ c \in Nat /\ f \in 1..Len(jaRest) /\ c + Len(jaWords') <= f
  /\ jaWords' \in Seq(NumberedWord)
  /\ Reached' = Reached + f /\ Len(jaRest') = Len(jaRest) - f /\ jaRest' \in Seq(NumberedWord)
  /\ \A i \in 1..Len(jaRest') : jaRest'[i] = jaRest[f + i]
  /\ \A i \in 1..Len(jaWords') : /\ jaWords'[i] = jaText[Reached + (c + i)]
                                 /\ jaWords'[i].number = Reached + (c + i)
  /\ \A j \in 1..f : jaText[Reached + j].surface \notin Blank => j - c \in 1..Len(jaWords')

LEMMA SplitIs ==
  ASSUME JapaneseInv, SplitSentence
  PROVE  \E c, f : SplitsTo(c, f)
<1> DEFINE f == FirstSentence
           words == SubSeq(jaRest, 1, f)
           W == jaWords'
<1>1. /\ jaRest \in Seq(NumberedWord) /\ jaRest # << >>
      /\ Len(jaRest) \in Nat /\ Len(jaText) \in Nat /\ Len(jaRest) <= Len(jaText)
      /\ \A i \in 1..Len(jaRest) : jaRest[i] = jaText[Reached + i]
      /\ Reached = Len(jaText) - Len(jaRest)
  BY DEF JapaneseInv, PlaceInv, TextInv, SplitSentence, Reached
<1>2. /\ jaText' = jaText /\ W = TrimmedWords(words)
      /\ jaRest' = SubSeq(jaRest, f + 1, Len(jaRest))
  BY DEF SplitSentence
<1>3. f \in 1..Len(jaRest)
  BY <1>1, FirstSentenceIs
<1> HIDE DEF f
<1>4. words \in Seq(NumberedWord) /\ Len(words) = f /\ \A i \in 1..f : words[i] = jaRest[i]
  BY <1>1, <1>3
<1>5. /\ jaRest' \in Seq(NumberedWord) /\ Len(jaRest') = Len(jaRest) - f
      /\ \A i \in 1..Len(jaRest') : jaRest'[i] = jaRest[f + i]
  BY <1>1, <1>2, <1>3
<1>6. Reached' = Reached + f
  <2>1. Reached' = Len(jaText) - Len(jaRest')
    BY <1>2 DEF Reached
  <2>2. /\ f \in Int /\ Len(jaRest) \in Int /\ Len(jaText) \in Int
        /\ Len(jaRest') = Len(jaRest) - f /\ Reached = Len(jaText) - Len(jaRest)
    BY <1>1, <1>3, <1>5
  <2>3. QED
    BY <2>1, <2>2
<1> HIDE DEF words
<1>7. W \in Seq(NumberedWord) /\ \E c : CutFrom(words, c, W)
  BY <1>2, <1>4, TrimmedWordsAre, Zenon
<1>8. PICK c : CutFrom(words, c, W)
  BY <1>7
<1>9. /\ c \in Nat /\ c + Len(W) <= f
      /\ \A i \in 1..Len(W) : W[i] = words[c + i]
      /\ \A j \in 1..f : words[j].surface \notin Blank => j - c \in 1..Len(W)
  BY <1>4, <1>8, Zenon DEF CutFrom
<1>10. Len(W) \in Nat
  BY <1>7
<1>11. \A j \in 1..f : words[j] = jaText[Reached + j] /\ Reached + j \in 1..Len(jaText)
  BY <1>1, <1>3, <1>4
<1>12. \A i \in 1..Len(W) : W[i] = jaText[Reached + (c + i)] /\ W[i].number = Reached + (c + i)
  <2> SUFFICES ASSUME NEW i \in 1..Len(W)
               PROVE  W[i] = jaText[Reached + (c + i)] /\ W[i].number = Reached + (c + i)
    OBVIOUS
  <2> HIDE DEF W
  <2>1. c + i \in 1..f
    BY <1>3, <1>9, <1>10
  <2>2. W[i] = jaText[Reached + (c + i)] /\ Reached + (c + i) \in 1..Len(jaText)
    BY <1>9, <1>11, <2>1, Zenon
  <2>3. \A l \in 1..Len(jaText) : jaText[l].number = l
    BY Zenon DEF JapaneseInv, TextInv
  <2>4. QED
    BY <2>2, <2>3, Zenon
<1>13. \A j \in 1..f : jaText[Reached + j].surface \notin Blank => j - c \in 1..Len(W)
  BY <1>9, <1>11, Zenon
<1>14. SplitsTo(c, f)
  BY <1>3, <1>5, <1>6, <1>7, <1>9, <1>12, <1>13, Zenon DEF SplitsTo
<1>15. QED
  BY <1>14

LEMMA SplitKeeps == JapaneseInv /\ SplitSentence => JapaneseInv'
<1> SUFFICES ASSUME JapaneseInv, SplitSentence PROVE JapaneseInv'
  OBVIOUS
<1>1. PICK c, f : SplitsTo(c, f)
  BY SplitIs
<1>2. /\ jaText' = jaText /\ readings' = readings /\ jaTokens' = << >>
      /\ jaStage = "split" /\ jaStage' = IF jaWords' = << >> THEN "split" ELSE "read"
  BY DEF SplitSentence
<1>3. /\ c \in Nat /\ f \in 1..Len(jaRest) /\ c + Len(jaWords') <= f
      /\ jaWords' \in Seq(NumberedWord)
      /\ Reached' = Reached + f /\ Len(jaRest') = Len(jaRest) - f /\ jaRest' \in Seq(NumberedWord)
      /\ \A i \in 1..Len(jaRest') : jaRest'[i] = jaRest[f + i]
      /\ \A i \in 1..Len(jaWords') : /\ jaWords'[i] = jaText[Reached + (c + i)]
                                     /\ jaWords'[i].number = Reached + (c + i)
      /\ \A j \in 1..f : jaText[Reached + j].surface \notin Blank => j - c \in 1..Len(jaWords')
  BY <1>1, Zenon DEF SplitsTo
<1>4. /\ jaRest \in Seq(NumberedWord) /\ Len(jaRest) \in Nat /\ Len(jaText) \in Nat
      /\ Len(jaRest) <= Len(jaText) /\ Reached = Len(jaText) - Len(jaRest)
      /\ \A i \in 1..Len(jaRest) : jaRest[i] = jaText[Reached + i]
      /\ jaWords = << >>
  BY <1>2 DEF JapaneseInv, PlaceInv, TextInv, Reached
<1>5. Len(jaWords') \in Nat /\ Reached \in Nat /\ f \in Nat
  BY <1>3, <1>4
<1>6. TextInv'
  BY <1>2 DEF JapaneseInv, TextInv
<1>7. PlaceInv'
  <2>1. jaStage' \in {"split", "read"} /\ (jaStage' = "split" => jaWords' = << >>)
    BY <1>2
  <2>2. Len(jaRest') <= Len(jaText')
    BY <1>2, <1>3, <1>4
  <2>3. \A i \in 1..Len(jaRest') : jaRest'[i] = jaText'[Reached' + i]
    <3> SUFFICES ASSUME NEW i \in 1..Len(jaRest') PROVE jaRest'[i] = jaText'[Reached' + i]
      OBVIOUS
    <3>1. f + i \in 1..Len(jaRest) /\ Reached' + i = Reached + (f + i)
      BY <1>3, <1>4, <1>5
    <3>2. QED
      BY <1>2, <1>3, <1>4, <3>1, Zenon
  <2>4. \A i \in 1..Len(jaWords') :
          jaWords'[i].number \in 1..Reached' /\ jaWords'[i] = jaText'[jaWords'[i].number]
    <3> SUFFICES ASSUME NEW i \in 1..Len(jaWords')
                 PROVE  jaWords'[i].number \in 1..Reached' /\ jaWords'[i] = jaText'[jaWords'[i].number]
      OBVIOUS
    <3>1. Reached + (c + i) \in 1..Reached'
      BY <1>3, <1>5
    <3>2. QED
      BY <1>2, <1>3, <3>1, Zenon
  <2>5. \A i, j \in 1..Len(jaWords') : i < j => jaWords'[i].number < jaWords'[j].number
    <3> SUFFICES ASSUME NEW i \in 1..Len(jaWords'), NEW j \in 1..Len(jaWords'), i < j
                 PROVE  jaWords'[i].number < jaWords'[j].number
      OBVIOUS
    <3>1. Reached + (c + i) < Reached + (c + j)
      BY <1>3, <1>5
    <3>2. QED
      BY <1>3, <3>1, Zenon
  <2>6. QED
    BY <1>3, <2>1, <2>2, <2>3, <2>4, <2>5 DEF PlaceInv
<1>8. TokenInv'
  BY <1>2 DEF TokenInv, TokensInOrder
<1>9. Told' = Told
  BY <1>2 DEF Told
<1>10. ToldInv'
  <2>1. /\ readings \in Seq(Seq(Phoneme))
        /\ \A r \in 1..Len(readings) : Fine(jaText, readings[r])
        /\ SpacesOnly(Told)
        /\ \A i, j \in 1..Len(Told) :
             (i < j /\ Told[i].of # 0 /\ Told[j].of # 0) => Told[i].of <= Told[j].of
        /\ \A i \in 1..Len(Told) : Told[i].of <= Reached
    BY DEF JapaneseInv, ToldInv
  <2>2. \A i \in 1..Len(Told) : Told[i].of \in Nat
    <3>1. Told \in Seq(Phoneme)
      BY <2>1, FlattenType DEF Told
    <3>2. \A i \in 1..Len(Told) : Told[i] \in Phoneme
      BY <3>1
    <3>3. QED
      BY <3>2, PhonemeParts, Zenon
  <2>3. \A i \in 1..Len(Told) :
          Told[i].of <= Reached' /\ \A j \in 1..Len(jaWords') : Told[i].of < jaWords'[j].number
    <3> SUFFICES ASSUME NEW i \in 1..Len(Told)
                 PROVE  Told[i].of <= Reached' /\ \A j \in 1..Len(jaWords') : Told[i].of < jaWords'[j].number
      OBVIOUS
    <3> DEFINE u == Told[i].of
    <3>1. u \in Nat /\ u <= Reached
      BY <2>1, <2>2
    <3> HIDE DEF u
    <3>2. u <= Reached'
      BY <1>3, <1>5, <3>1
    <3>3. \A j \in 1..Len(jaWords') : u < Reached + (c + j)
      BY <1>3, <1>5, <3>1
    <3>4. QED
      BY <1>3, <3>2, <3>3, Zenon DEF u
  <2>4. jaStage' # "push"
    BY <1>2
  <2>5. QED
    BY <1>2, <1>9, <2>1, <2>3, <2>4 DEF ToldInv
<1>11. TurnInv'
  <2> SUFFICES ASSUME NEW n \in 1..Len(jaText)
               PROVE  Spread(HeardOf(n), Told') \o Pending(n)' = Due(n)'
    <3>1. Len(jaText') = Len(jaText)
      BY <1>2
    <3>2. \A n \in 1..Len(jaText) : Spread(HeardOf(n), Told)' = Spread(HeardOf(n), Told')
      OBVIOUS
    <3>3. QED
      BY <3>1, Zenon DEF TurnInv
  <2>1. Spread(HeardOf(n), Told) \o Pending(n) = Due(n)
    BY <1>2 DEF JapaneseInv, TurnInv
  <2>2. Pending(n) = << >> /\ Pending(n)' = << >>
    BY <1>2 DEF Pending
  <2>3. Due(n)' = Due(n)
    <3>1. ~Waits(n)
      BY <1>4 DEF Waits
    <3>2. CASE n <= Reached
      <4>1. n <= Reached' /\ \A i \in 1..Len(jaWords') : Reached + (c + i) # n
        BY <1>3, <1>5, <3>2
      <4>2. ~Waits(n)'
        BY <1>3, <4>1, Zenon DEF Waits
      <4>3. QED
        BY <1>2, <3>1, <3>2, <4>1, <4>2, Zenon DEF Due
    <3>3. CASE ~(n <= Reached)
      <4>1. Due(n) = << >>
        BY <3>3, Zenon DEF Due
      <4>2. CASE n <= Reached' /\ ~Waits(n)'
        <5> DEFINE j == n - Reached
        <5>1. j \in 1..f /\ Reached + j = n
          BY <1>3, <1>5, <3>3, <4>2
        <5>2. j - c \notin 1..Len(jaWords')
          <6>1. ASSUME j - c \in 1..Len(jaWords') PROVE FALSE
            <7>1. Reached + (c + (j - c)) = n
              BY <1>3, <1>5, <5>1
            <7>2. jaWords'[j - c].number = n
              BY <1>3, <6>1, <7>1, Zenon
            <7>3. QED
              BY <4>2, <6>1, <7>2, Zenon DEF Waits
          <6>2. QED
            BY <6>1
        <5>3. jaText[n].surface \in Blank
          BY <1>3, <5>1, <5>2, Zenon
        <5>4. jaText[n].kana = << >>
          BY <5>3 DEF JapaneseInv, TextInv
        <5>5. MorasOf(<< >>) = << >>
          <6>1. Known(<< >>) = << >>
            BY FlattenEmpty DEF Known
          <6>2. QED
            BY <6>1, FlattenEmpty DEF MorasOf
        <5>6. QED
          BY <1>2, <4>1, <4>2, <5>4, <5>5, Zenon DEF Due
      <4>3. CASE ~(n <= Reached' /\ ~Waits(n)')
        BY <4>1, <4>3, Zenon DEF Due
      <4>4. QED
        BY <4>2, <4>3
    <3>4. QED
      BY <3>2, <3>3
  <2>4. QED
    BY <1>9, <2>1, <2>2, <2>3, Zenon
<1>12. QED
  BY <1>6, <1>7, <1>8, <1>10, <1>11 DEF JapaneseInv

LEMMA PushKeepsInv == JapaneseInv /\ PushWord => JapaneseInv'
<1> SUFFICES ASSUME JapaneseInv, PushWord PROVE JapaneseInv'
  OBVIOUS
<1> DEFINE w == Head(jaWords)
           us == push_word(jaTokens, w)
<1>1. /\ jaText' = jaText /\ jaRest' = jaRest /\ readings' = readings /\ jaStage' = "push"
      /\ jaStage = "push" /\ jaWords # << >> /\ jaTokens' = us /\ jaWords' = Tail(jaWords)
  BY DEF PushWord
<1>2. /\ jaWords \in Seq(NumberedWord)
      /\ \A i \in 1..Len(jaWords) :
           jaWords[i].number \in 1..Reached /\ jaWords[i] = jaText[jaWords[i].number]
      /\ \A i, j \in 1..Len(jaWords) : i < j => jaWords[i].number < jaWords[j].number
      /\ jaRest \in Seq(NumberedWord) /\ Len(jaRest) <= Len(jaText)
      /\ jaText \in Seq(NumberedWord)
  BY DEF JapaneseInv, PlaceInv, TextInv
<1>3. Reached \in Nat /\ Reached <= Len(jaText) /\ Len(jaText) \in Nat /\ Reached' = Reached
  <2>1. Len(jaRest) \in Nat /\ Len(jaText) \in Nat
    BY <1>2
  <2>2. Reached' = Reached
    BY <1>1 DEF Reached
  <2>3. QED
    BY <1>2, <2>1, <2>2 DEF Reached
<1> DEFINE l == Len(jaWords)
           V == jaWords'
<1>4. /\ l \in Nat \ {0} /\ 1 \in 1..l /\ w = jaWords[1] /\ w \in NumberedWord
      /\ V \in Seq(NumberedWord) /\ Len(V) = l - 1
      /\ \A i \in 1..(l - 1) : V[i] = jaWords[i + 1]
  BY <1>1, <1>2
<1> HIDE DEF w
<1>5. w.number \in 1..Reached /\ w = jaText[w.number]
  BY <1>2, <1>4
<1>6. w.number \in 1..Len(jaText) /\ (w.surface \in Blank => w.kana = << >>)
  <2>1. w.number \in 1..Len(jaText)
    BY <1>3, <1>5
  <2>2. QED
    BY <1>5, <2>1, Zenon DEF JapaneseInv, TextInv
<1>7. \A i \in 1..Len(V) : i + 1 \in 1..l /\ V[i] = jaWords[i + 1] /\ w.number < V[i].number
  <2> SUFFICES ASSUME NEW i \in 1..(l - 1)
               PROVE  i + 1 \in 1..l /\ V[i] = jaWords[i + 1] /\ w.number < V[i].number
    BY <1>4
  <2>1. i + 1 \in 1..l /\ 1 < i + 1
    BY <1>4
  <2> HIDE DEF V
  <2>2. jaWords[1].number < jaWords[i + 1].number
    BY <1>2, <1>4, <2>1
  <2>3. QED
    BY <1>4, <2>1, <2>2
<1>8. Pushed(jaText, jaTokens, w, us)
  <2>1. TokensInOrder(jaText, jaTokens) /\ \A i \in 1..Len(jaTokens) : jaTokens[i].number < w.number
    BY <1>4, Zenon DEF JapaneseInv, TokenInv
  <2>2. QED
    BY <1>4, <1>5, <1>6, <2>1, PushKeeps, Zenon
<1> HIDE DEF us
<1>9. /\ TokensInOrder(jaText, us) /\ \A i \in 1..Len(us) : us[i].number <= w.number
      /\ \A i \in 1..Len(us) :
           us[i].number = w.number \/ \E m \in 1..Len(jaTokens) : us[i].number = jaTokens[m].number
      /\ \A n : Spread(TokenHeard(n), us) =
              Spread(TokenHeard(n), jaTokens) \o (IF n = w.number THEN MorasOf(w.kana) ELSE << >>)
  BY <1>8, Zenon DEF Pushed
<1>10. \A i \in 1..Len(us) : us[i].number \in Nat
  <2>1. us \in Seq(Token)
    BY <1>9 DEF TokensInOrder
  <2>2. \A i \in 1..Len(us) : us[i] \in Token
    BY <2>1
  <2>3. QED
    BY <2>2, TokenParts, Zenon
<1>11. TextInv'
  BY <1>1 DEF JapaneseInv, TextInv
<1> HIDE DEF V
<1>12. PlaceInv'
  <2>1. \A i \in 1..Len(V) : V[i].number \in 1..Reached' /\ V[i] = jaText'[V[i].number]
    BY <1>1, <1>2, <1>3, <1>7
  <2>2. \A i, j \in 1..Len(V) : i < j => V[i].number < V[j].number
    <3> SUFFICES ASSUME NEW i \in 1..Len(V), NEW j \in 1..Len(V), i < j
                 PROVE  V[i].number < V[j].number
      OBVIOUS
    <3>1. i + 1 < j + 1
      BY <1>4
    <3>2. QED
      BY <1>2, <1>7, <3>1
  <2>3. \A i \in 1..Len(jaRest') : jaRest'[i] = jaText'[Reached' + i]
    BY <1>1, <1>3 DEF JapaneseInv, PlaceInv
  <2>4. Len(jaRest') <= Len(jaText') /\ jaRest' \in Seq(NumberedWord)
    BY <1>1, <1>2
  <2>5. QED
    BY <1>1, <1>4, <2>1, <2>2, <2>3, <2>4, Zenon DEF PlaceInv, V
<1>13. TokenInv'
  <2>1. \A i \in 1..Len(us) :
          us[i].number <= Reached' /\ \A j \in 1..Len(V) : us[i].number < V[j].number
    <3> SUFFICES ASSUME NEW i \in 1..Len(us)
                 PROVE  us[i].number <= Reached' /\ \A j \in 1..Len(V) : us[i].number < V[j].number
      OBVIOUS
    <3>1. us[i].number \in Nat /\ us[i].number <= w.number
      BY <1>9, <1>10
    <3>2. us[i].number <= Reached'
      BY <1>3, <1>5, <3>1
    <3>3. ASSUME NEW j \in 1..Len(V) PROVE us[i].number < V[j].number
      <4>1. w.number < V[j].number /\ V[j].number \in Nat /\ w.number \in Nat
        <5>1. j + 1 \in 1..l /\ V[j] = jaWords[j + 1] /\ w.number < V[j].number
          BY <1>7
        <5>2. V[j].number \in 1..Reached
          BY <1>2, <5>1
        <5>3. QED
          BY <1>3, <1>5, <5>1, <5>2
      <4>2. QED
        BY <3>1, <4>1
    <3>4. QED
      BY <3>2, <3>3
  <2>2. QED
    BY <1>1, <1>9, <2>1, Zenon DEF TokenInv, V
<1>14. Told' = Told
  BY <1>1 DEF Told
<1>15. ToldInv'
  <2>1. /\ readings \in Seq(Seq(Phoneme))
        /\ \A r \in 1..Len(readings) : Fine(jaText, readings[r])
        /\ SpacesOnly(Told)
        /\ \A i, j \in 1..Len(Told) :
             (i < j /\ Told[i].of # 0 /\ Told[j].of # 0) => Told[i].of <= Told[j].of
        /\ \A i \in 1..Len(Told) : Told[i].of <= Reached
    BY DEF JapaneseInv, ToldInv
  <2>2. \A i \in 1..Len(Told) : \A j \in 1..l : Told[i].of < jaWords[j].number
    BY DEF JapaneseInv, ToldInv
  <2>3. \A i \in 1..Len(Told), j \in 1..Len(V) : Told[i].of < V[j].number
    BY <1>7, <2>2, Zenon
  <2>4. \A i \in 1..Len(Told), j \in 1..Len(us) : Told[i].of < us[j].number
    <3> SUFFICES ASSUME NEW i \in 1..Len(Told), NEW j \in 1..Len(us) PROVE Told[i].of < us[j].number
      OBVIOUS
    <3>1. \A m \in 1..Len(jaTokens) : Told[i].of < jaTokens[m].number
      BY <1>1, Zenon DEF JapaneseInv, ToldInv
    <3>2. Told[i].of < w.number
      BY <1>4, <2>2, Zenon
    <3>3. QED
      BY <1>9, <3>1, <3>2, Zenon
  <2>5. QED
    BY <1>1, <1>3, <1>14, <2>1, <2>3, <2>4, Zenon DEF ToldInv, V
<1>16. TurnInv'
  <2> SUFFICES ASSUME NEW n \in 1..Len(jaText)
               PROVE  Spread(HeardOf(n), Told') \o Pending(n)' = Due(n)'
    <3>1. Len(jaText') = Len(jaText)
      BY <1>1
    <3>2. \A n \in 1..Len(jaText) : Spread(HeardOf(n), Told)' = Spread(HeardOf(n), Told')
      OBVIOUS
    <3>3. QED
      BY <3>1, Zenon DEF TurnInv
  <2> DEFINE a == Spread(HeardOf(n), Told)
             b == Spread(TokenHeard(n), jaTokens)
             c == IF n = w.number THEN MorasOf(w.kana) ELSE << >>
  <2>1. Pending(n) = b /\ Pending(n)' = b \o c
    <3>1. Pending(n)' = Spread(TokenHeard(n), us)
      BY <1>1, Zenon DEF Pending
    <3>2. QED
      BY <1>1, <1>9, <3>1, Zenon DEF Pending
  <2>2. a \o b = Due(n)
    BY <1>1, <2>1, Zenon DEF JapaneseInv, TurnInv
  <2>3. a \in Seq(Symbol) /\ b \in Seq(Symbol) /\ c \in Seq(Symbol)
    <3>1. Told \in Seq(Phoneme)
      BY FlattenType DEF Told, JapaneseInv, ToldInv
    <3>2. jaTokens \in Seq(Token)
      BY DEF JapaneseInv, TokenInv, TokensInOrder
    <3>3. MorasOf(w.kana) \in Seq(Symbol)
      <4>1. w.kana \in Seq(STRING)
        BY <1>4 DEF NumberedWord
      <4>2. /\ pron_to_moras(w.kana) \in Seq(DOMAIN MoraTable)
            /\ Spread(MoraTail, pron_to_moras(w.kana)) = MorasOf(w.kana)
        BY <4>1, MorasOfWord, Zenon
      <4>3. QED
        BY <4>2, MorasAreExpansions, SpreadType, Zenon
    <3>4. << >> \in Seq(Symbol)
      OBVIOUS
    <3>5. QED
      BY <3>1, <3>2, <3>3, <3>4, SpreadType, HeardIsExpansion, TokenHeardIsExpansion, Zenon
  <2>4. Due(n)' = Due(n) \o c
    <3>1. n <= Reached => n <= Reached'
      BY <1>3, Zenon
    <3>2. CASE n = w.number
      <4>1. Waits(n)
        BY <1>4, <3>2, Zenon DEF Waits
      <4>2. Due(n) = << >>
        BY <4>1, Zenon DEF Due
      <4>3. ~Waits(n)'
        <5>1. \A i \in 1..Len(V) : V[i].number # n
          <6> SUFFICES ASSUME NEW i \in 1..Len(V) PROVE V[i].number # n
            OBVIOUS
          <6>1. n < V[i].number
            BY <1>7, <3>2, Zenon
          <6>2. QED
            BY <6>1
        <5>2. QED
          BY <5>1, Zenon DEF Waits, V
      <4>4. n <= Reached
        BY <1>3, <1>5, <3>2
      <4>5. Due(n)' = MorasOf(w.kana)
        BY <1>1, <1>3, <1>5, <3>2, <4>3, <4>4, Zenon DEF Due
      <4>6. << >> \o c = c
        BY <2>3, JoinNothing
      <4>7. QED
        BY <3>2, <4>2, <4>5, <4>6, Zenon
    <3>3. CASE n # w.number
      <4>1. Waits(n) => Waits(n)'
        <5> SUFFICES ASSUME NEW i \in 1..l, jaWords[i].number = n
                     PROVE  Waits(n)'
          BY DEF Waits
        <5>1. i # 1
          BY <1>4, <3>3
        <5>2. i - 1 \in 1..Len(V) /\ (i - 1) + 1 = i
          BY <1>4, <5>1
        <5>3. V[i - 1].number = n
          BY <1>7, <5>2, Zenon
        <5>4. QED
          BY <5>2, <5>3, Zenon DEF Waits, V
      <4>2. Waits(n)' => Waits(n)
        <5>1. \A i \in 1..Len(V) : i + 1 \in 1..l /\ jaWords[i + 1].number = V[i].number
          BY <1>7, Zenon
        <5>2. QED
          BY <5>1, Zenon DEF Waits, V
      <4>3. Due(n)' = Due(n)
        BY <1>1, <1>3, <4>1, <4>2, Zenon DEF Due
      <4>4. Due(n) \in Seq(Symbol)
        <5> HIDE DEF a, b, c
        <5>1. a \o b \in Seq(Symbol)
          BY <2>3
        <5>2. QED
          BY <2>2, <5>1, Zenon
      <4>5. Due(n) \o << >> = Due(n)
        BY <4>4, JoinNothing
      <4>6. QED
        BY <3>3, <4>3, <4>5, Zenon
    <3>4. QED
      BY <3>2, <3>3
  <2> HIDE DEF a, b, c
  <2>5. a \o (b \o c) = (a \o b) \o c
    BY <2>3
  <2>6. Spread(HeardOf(n), Told') = a
    BY <1>14, Zenon DEF a
  <2>7. QED
    BY <2>1, <2>2, <2>4, <2>5, <2>6, Zenon
<1>17. QED
  BY <1>11, <1>12, <1>13, <1>15, <1>16 DEF JapaneseInv


(* What is told grows by a sentence.                                       *)
InTurn(x) == \A i, j \in 1..Len(x) : (i < j /\ x[i].of # 0 /\ x[j].of # 0) => x[i].of <= x[j].of
TurnsTo(a, b) == \A i \in 1..Len(a), j \in 1..Len(b) : b[j].of # 0 => a[i].of <= b[j].of
Grown(a, b, x) ==
  /\ SpacesOnly(x) /\ InTurn(x)
  /\ \A i \in 1..Len(x) : \/ \E k \in 1..Len(a) : x[i] = a[k]
                          \/ \E k \in 1..Len(b) : x[i] = b[k]

LEMMA ToldGrows ==
  ASSUME NEW a \in Seq(Phoneme), NEW b \in Seq(Phoneme), SpacesOnly(a), SpacesOnly(b),
         InTurn(a), InTurn(b), TurnsTo(a, b), NEW x, x = a \o b
  PROVE  Grown(a, b, x)
<1> DEFINE m == Len(a)
           n == Len(b)
<1>1. /\ m \in Nat /\ n \in Nat /\ Len(x) = m + n /\ \A i \in 1..m : x[i] = a[i]
      /\ \A i \in (m + 1)..(m + n) : x[i] = b[i - m]
  BY JoinIs
<1> HIDE DEF m, n
<1>2. \A i \in 1..Len(x) : i \in 1..m \/ (i - m \in 1..n /\ i \in (m + 1)..(m + n))
  BY <1>1
<1>3. \A i \in 1..Len(x) : x[i].of = 0 => x[i] = Space
  <2> SUFFICES ASSUME NEW i \in 1..Len(x), x[i].of = 0 PROVE x[i] = Space
    OBVIOUS
  <2>1. CASE i \in 1..m
    BY <1>1, <2>1, Zenon DEF SpacesOnly, m
  <2>2. CASE i - m \in 1..n /\ i \in (m + 1)..(m + n)
    BY <1>1, <2>2, Zenon DEF SpacesOnly, n
  <2>3. QED
    BY <1>2, <2>1, <2>2
<1>4. ASSUME NEW i \in 1..Len(x), NEW j \in 1..Len(x), i < j, x[i].of # 0, x[j].of # 0
      PROVE  x[i].of <= x[j].of
  <2>1. CASE i \in 1..m /\ j \in 1..m
    BY <1>1, <1>4, <2>1, Zenon DEF InTurn, m
  <2>2. CASE i \in 1..m /\ j - m \in 1..n /\ j \in (m + 1)..(m + n)
    BY <1>1, <1>4, <2>2, Zenon DEF TurnsTo, m, n
  <2>3. CASE i - m \in 1..n /\ i \in (m + 1)..(m + n) /\ j - m \in 1..n /\ j \in (m + 1)..(m + n)
    <3>1. i - m < j - m
      BY <1>1, <1>4
    <3>2. QED
      BY <1>1, <1>4, <2>3, <3>1, Zenon DEF InTurn, n
  <2>4. ~(i \in (m + 1)..(m + n) /\ j \in 1..m)
    BY <1>1, <1>4
  <2>5. QED
    BY <1>2, <2>1, <2>2, <2>3, <2>4
<1>5. \A i \in 1..Len(x) : \/ \E k \in 1..Len(a) : x[i] = a[k]
                           \/ \E k \in 1..Len(b) : x[i] = b[k]
  <2> SUFFICES ASSUME NEW i \in 1..Len(x)
               PROVE  \/ \E k \in 1..Len(a) : x[i] = a[k]
                      \/ \E k \in 1..Len(b) : x[i] = b[k]
    OBVIOUS
  <2>1. CASE i \in 1..m
    BY <1>1, <2>1, Zenon DEF m
  <2>2. CASE i - m \in 1..n /\ i \in (m + 1)..(m + n)
    BY <1>1, <2>2, Zenon DEF n
  <2>3. QED
    BY <1>2, <2>1, <2>2
<1>6. QED
  BY <1>3, <1>4, <1>5, Zenon DEF Grown, InTurn, SpacesOnly

LEMMA FinishKeeps == JapaneseInv /\ FinishSentence => JapaneseInv'
<1> SUFFICES ASSUME JapaneseInv, FinishSentence PROVE JapaneseInv'
  OBVIOUS
<1> DEFINE r == fit_to_vocab(assemble)
<1>1. /\ jaText' = jaText /\ jaRest' = jaRest /\ jaTokens' = jaTokens /\ jaStage' = "split"
      /\ jaStage = "push" /\ jaWords = << >> /\ jaWords' = jaWords
      /\ readings' = IF assemble = << >> THEN readings ELSE Append(readings, r)
  BY DEF FinishSentence
<1> HIDE DEF r
<1>2. /\ TokensInOrder(jaText, jaTokens) /\ Len(jaText) \in Nat
      /\ readings \in Seq(Seq(Phoneme)) /\ SpacesOnly(Told)
      /\ \A i \in 1..Len(readings) : Fine(jaText, readings[i])
      /\ \A i, j \in 1..Len(Told) :
           (i < j /\ Told[i].of # 0 /\ Told[j].of # 0) => Told[i].of <= Told[j].of
  BY DEF JapaneseInv, TextInv, TokenInv, ToldInv
<1>3. Reached' = Reached /\ \A i \in 1..Len(Told) : Told[i].of <= Reached
  BY <1>1 DEF Reached, JapaneseInv, ToldInv
<1>4. \A i \in 1..Len(Told), m \in 1..Len(jaTokens) : Told[i].of < jaTokens[m].number
  BY <1>1, Zenon DEF JapaneseInv, ToldInv
<1>5. Told \in Seq(Phoneme) /\ \A i \in 1..Len(Told) : Told[i].of \in Nat
  <2>1. Told \in Seq(Phoneme)
    BY <1>2, FlattenType DEF Told
  <2>2. \A i \in 1..Len(Told) : Told[i] \in Phoneme
    BY <2>1
  <2>3. QED
    BY <2>1, <2>2, PhonemeParts, Zenon
<1>6. /\ assemble # << >> => Tells(r)
      /\ assemble = << >> => \A n : Spread(TokenHeard(n), jaTokens) = << >>
  BY <1>2, SentenceTells, Zenon DEF r
<1>7. TextInv'
  BY <1>1 DEF JapaneseInv, TextInv
<1>8. PlaceInv'
  BY <1>1, <1>3 DEF JapaneseInv, PlaceInv
<1>9. TokenInv'
  BY <1>1, <1>3 DEF JapaneseInv, TokenInv
<1>10. /\ readings' \in Seq(Seq(Phoneme)) /\ SpacesOnly(Told')
       /\ \A i \in 1..Len(readings') : Fine(jaText, readings'[i])
       /\ \A i, j \in 1..Len(Told') :
            (i < j /\ Told'[i].of # 0 /\ Told'[j].of # 0) => Told'[i].of <= Told'[j].of
       /\ \A i \in 1..Len(Told') : Told'[i].of <= Reached
       /\ \A n : Spread(HeardOf(n), Told') =
                   Spread(HeardOf(n), Told) \o Spread(TokenHeard(n), jaTokens)
  <2>1. CASE assemble = << >>
    <3>1. readings' = readings /\ Told' = Told
      BY <1>1, <2>1 DEF Told
    <3>2. ASSUME NEW n
          PROVE  Spread(HeardOf(n), Told) =
                   Spread(HeardOf(n), Told) \o Spread(TokenHeard(n), jaTokens)
      <4>1. Spread(HeardOf(n), Told) \in Seq(Symbol)
        BY <1>5, SpreadType, HeardIsExpansion, Zenon
      <4>2. Spread(HeardOf(n), Told) \o << >> = Spread(HeardOf(n), Told)
        BY <4>1, JoinNothing
      <4>3. QED
        BY <1>6, <2>1, <4>2, Zenon
    <3>3. QED
      BY <1>2, <1>3, <3>1, <3>2, Zenon
  <2>2. CASE assemble # << >>
    <3>1. Tells(r) /\ readings' = Append(readings, r)
      BY <1>1, <1>6, <2>2
    <3>2. /\ Fine(jaText, r) /\ r \in Seq(Phoneme) /\ SpacesOnly(r) /\ Apart(jaText, r)
          /\ \A i \in 1..Len(r) : r[i].of = 0 \/ r[i].of \in TokenNumbers
          /\ \A n : Spread(HeardOf(n), r) = Spread(TokenHeard(n), jaTokens)
      BY <3>1, Zenon DEF Tells, Fine
    <3>3. Told' = Told \o r
      <4>1. Told' = FlattenSeq(Append(readings, r))
        BY <3>1 DEF Told
      <4>2. FlattenSeq(Append(readings, r)) = FlattenSeq(readings) \o r
        BY <1>2, <3>2, FlattenAppend, Zenon
      <4>3. QED
        BY <4>1, <4>2, Zenon DEF Told
    <3>4. \A i \in 1..Len(r) : r[i].of # 0 =>
             \E m \in 1..Len(jaTokens) : r[i].of = jaTokens[m].number
      BY <3>2, Zenon DEF TokenNumbers
    <3>5. \A m \in 1..Len(jaTokens) : jaTokens[m].number <= Reached /\ jaTokens[m].number \in Nat
      <4>1. \A m \in 1..Len(jaTokens) : jaTokens[m] \in Token
        BY <1>2 DEF TokensInOrder
      <4>2. \A m \in 1..Len(jaTokens) : jaTokens[m].number <= Reached
        BY DEF JapaneseInv, TokenInv
      <4>3. QED
        BY <4>1, <4>2, TokenParts, Zenon
    <3>6. \A i \in 1..Len(Told), j \in 1..Len(r) : r[j].of # 0 => Told[i].of <= r[j].of
      <4> SUFFICES ASSUME NEW i \in 1..Len(Told), NEW j \in 1..Len(r), r[j].of # 0
                   PROVE  Told[i].of <= r[j].of
        OBVIOUS
      <4>1. PICK m \in 1..Len(jaTokens) : r[j].of = jaTokens[m].number
        BY <3>4
      <4>2. Told[i].of < jaTokens[m].number /\ Told[i].of \in Nat /\ jaTokens[m].number \in Nat
        BY <1>4, <1>5, <3>5, Zenon
      <4>3. QED
        BY <4>1, <4>2
    <3>7. 0 <= Reached
      BY DEF Reached, JapaneseInv, PlaceInv, TextInv
    <3>8. \A i \in 1..Len(r) : r[i].of <= Reached
      BY <3>2, <3>4, <3>5, <3>7, Zenon
    <3>9. /\ SpacesOnly(Told')
          /\ \A i, j \in 1..Len(Told') :
               (i < j /\ Told'[i].of # 0 /\ Told'[j].of # 0) => Told'[i].of <= Told'[j].of
          /\ \A i \in 1..Len(Told') : \/ \E k \in 1..Len(Told) : Told'[i] = Told[k]
                                      \/ \E k \in 1..Len(r) : Told'[i] = r[k]
      <4> DEFINE x == Told'
      <4>1. x = Told \o r
        BY <3>3
      <4> HIDE DEF x
      <4>2. InTurn(r) /\ InTurn(Told) /\ TurnsTo(Told, r)
        BY <1>2, <3>2, <3>6, Zenon DEF Apart, InTurn, TurnsTo
      <4>3. Grown(Told, r, x)
        BY <1>2, <1>5, <3>2, <4>1, <4>2, ToldGrows, Zenon
      <4>4. QED
        BY <4>3, Zenon DEF x, Grown, InTurn
    <3>10. \A i \in 1..Len(Told') : Told'[i].of <= Reached
      BY <1>3, <3>8, <3>9, Zenon
    <3>11. readings' \in Seq(Seq(Phoneme)) /\ \A i \in 1..Len(readings') : Fine(jaText, readings'[i])
      <4>1. /\ readings' \in Seq(Seq(Phoneme)) /\ Len(readings') = Len(readings) + 1
            /\ readings'[Len(readings) + 1] = r /\ Len(readings) \in Nat
            /\ \A i \in 1..Len(readings) : readings'[i] = readings[i]
        BY <1>2, <3>1, <3>2
      <4>2. \A i \in 1..Len(readings') : i \in 1..Len(readings) \/ i = Len(readings) + 1
        BY <4>1
      <4>3. QED
        BY <1>2, <3>2, <4>1, <4>2, Zenon
    <3>12. ASSUME NEW n
           PROVE  Spread(HeardOf(n), Told') =
                    Spread(HeardOf(n), Told) \o Spread(TokenHeard(n), jaTokens)
      <4>1. Spread(HeardOf(n), Told \o r) = Spread(HeardOf(n), Told) \o Spread(HeardOf(n), r)
        <5> DEFINE e == HeardOf(n)
                   a == Told
        <5>1. e \in Expansions(Phoneme, Symbol)
          BY HeardIsExpansion, Zenon
        <5>2. a \in Seq(Phoneme) /\ r \in Seq(Phoneme)
          BY <1>5, <3>2
        <5> HIDE DEF e, a
        <5>3. Spread(e, a \o r) = Spread(e, a) \o Spread(e, r)
          BY <5>1, <5>2, SpreadJoinOf
        <5>4. QED
          BY <5>3 DEF e, a
      <4>2. QED
        BY <3>2, <3>3, <4>1, Zenon
    <3>13. QED
      BY <3>9, <3>10, <3>11, <3>12, Zenon
  <2>3. QED
    BY <2>1, <2>2
<1>11. ToldInv'
  BY <1>1, <1>3, <1>10 DEF ToldInv
<1>12. TurnInv'
  <2> SUFFICES ASSUME NEW n \in 1..Len(jaText)
               PROVE  Spread(HeardOf(n), Told') \o Pending(n)' = Due(n)'
    <3>1. Len(jaText') = Len(jaText)
      BY <1>1
    <3>2. \A n \in 1..Len(jaText) : Spread(HeardOf(n), Told)' = Spread(HeardOf(n), Told')
      OBVIOUS
    <3>3. QED
      BY <3>1, Zenon DEF TurnInv
  <2>1. Pending(n) = Spread(TokenHeard(n), jaTokens) /\ Pending(n)' = << >>
    BY <1>1 DEF Pending
  <2>2. Spread(HeardOf(n), Told) \o Pending(n) = Due(n)
    BY <1>1, Zenon DEF JapaneseInv, TurnInv
  <2>3. Waits(n)' <=> Waits(n)
    BY <1>1 DEF Waits
  <2>4. Due(n)' = Due(n)
    BY <1>1, <1>3, <2>3, Zenon DEF Due
  <2>5. Spread(HeardOf(n), Told') = Due(n)
    BY <1>10, <2>1, <2>2, Zenon
  <2>6. Due(n) \in Seq(Symbol)
    <3> DEFINE a == Spread(HeardOf(n), Told)
               b == Spread(TokenHeard(n), jaTokens)
    <3>1. jaTokens \in Seq(Token)
      BY <1>2 DEF TokensInOrder
    <3>2. a \in Seq(Symbol) /\ b \in Seq(Symbol)
      BY <1>5, <3>1, SpreadType, HeardIsExpansion, TokenHeardIsExpansion, Zenon
    <3>3. a \o b = Due(n)
      BY <2>1, <2>2, Zenon
    <3> HIDE DEF a, b
    <3>4. a \o b \in Seq(Symbol)
      BY <3>2
    <3>5. QED
      BY <3>3, <3>4, Zenon
  <2>7. Due(n) \o << >> = Due(n)
    BY <2>6, JoinNothing
  <2>8. QED
    BY <2>1, <2>4, <2>5, <2>7, Zenon
<1>13. QED
  BY <1>7, <1>8, <1>9, <1>11, <1>12 DEF JapaneseInv

LEMMA ReadKeeps == JapaneseInv /\ ReadSentence => JapaneseInv'
<1> SUFFICES ASSUME JapaneseInv, ReadSentence PROVE JapaneseInv'
  OBVIOUS
<1>1. /\ jaText' = jaText /\ jaRest' = jaRest /\ jaWords' = jaWords /\ jaTokens' = jaTokens
      /\ readings' = readings /\ jaStage = "read" /\ jaStage' = "push"
  BY DEF ReadSentence
<1>2. jaTokens = << >> /\ Reached' = Reached /\ Told' = Told
  BY <1>1 DEF JapaneseInv, TokenInv, Reached, Told
<1>3. TextInv'
  BY <1>1 DEF JapaneseInv, TextInv
<1>4. PlaceInv'
  BY <1>1, <1>2 DEF JapaneseInv, PlaceInv
<1>5. TokenInv'
  BY <1>1, <1>2 DEF JapaneseInv, TokenInv
<1>6. ToldInv'
  BY <1>1, <1>2 DEF JapaneseInv, ToldInv
<1>7. TurnInv'
  <2> SUFFICES ASSUME NEW n \in 1..Len(jaText)
               PROVE  Spread(HeardOf(n), Told') \o Pending(n)' = Due(n)'
    <3>1. Len(jaText') = Len(jaText)
      BY <1>1
    <3>2. \A n \in 1..Len(jaText) : Spread(HeardOf(n), Told)' = Spread(HeardOf(n), Told')
      OBVIOUS
    <3>3. QED
      BY <3>1, Zenon DEF TurnInv
  <2>1. Spread(HeardOf(n), Told) \o Pending(n) = Due(n)
    BY <1>1, Zenon DEF JapaneseInv, TurnInv
  <2>2. Pending(n) = << >>
    BY <1>1 DEF Pending
  <2>3. Pending(n)' = << >>
    <3>1. Pending(n)' = Spread(TokenHeard(n), jaTokens)
      BY <1>1, Zenon DEF Pending
    <3>2. QED
      BY <1>2, <3>1, SpreadEmpty, Zenon
  <2>4. Waits(n)' <=> Waits(n)
    BY <1>1 DEF Waits
  <2>5. Due(n)' = Due(n)
    BY <1>1, <1>2, <2>4, Zenon DEF Due
  <2>6. QED
    BY <1>2, <2>1, <2>2, <2>3, <2>5, Zenon
<1>8. QED
  BY <1>3, <1>4, <1>5, <1>6, <1>7 DEF JapaneseInv

LEMMA FailKeeps == JapaneseInv /\ FailSentence => JapaneseInv'
<1> SUFFICES ASSUME JapaneseInv, FailSentence PROVE JapaneseInv'
  OBVIOUS
<1>1. /\ jaText' = jaText /\ jaRest' = jaRest /\ jaWords' = jaWords /\ jaTokens' = jaTokens
      /\ readings' = << >> /\ jaStage' = "failed"
  BY DEF FailSentence
<1>2. Told' = << >> /\ Reached' = Reached
  BY <1>1, FlattenEmpty DEF Told, Reached
<1>3. TextInv'
  BY <1>1 DEF JapaneseInv, TextInv
<1>4. PlaceInv'
  BY <1>1, <1>2 DEF JapaneseInv, PlaceInv
<1>5. TokenInv'
  BY <1>1, <1>2 DEF JapaneseInv, TokenInv
<1>6. ToldInv'
  BY <1>1, <1>2 DEF ToldInv, SpacesOnly
<1>7. TurnInv'
  BY <1>1 DEF TurnInv
<1>8. QED
  BY <1>3, <1>4, <1>5, <1>6, <1>7 DEF JapaneseInv

(* The end, and steps of others: only the stage changes, if anything.      *)
LEMMA EndKeeps == JapaneseInv /\ (FinishText \/ UNCHANGED jaVars) => JapaneseInv'
<1> SUFFICES ASSUME JapaneseInv, FinishText \/ UNCHANGED jaVars PROVE JapaneseInv'
  OBVIOUS
<1>1. /\ jaText' = jaText /\ jaRest' = jaRest /\ jaWords' = jaWords /\ jaTokens' = jaTokens
      /\ readings' = readings
      /\ \/ jaStage' = jaStage
         \/ jaStage = "split" /\ jaStage' = "done" /\ jaRest = << >>
  BY DEF FinishText, jaVars
<1>2. Reached' = Reached /\ Told' = Told
  BY <1>1 DEF Reached, Told
<1>3. TextInv'
  BY <1>1 DEF JapaneseInv, TextInv
<1>4. PlaceInv'
  BY <1>1, <1>2 DEF JapaneseInv, PlaceInv
<1>5. TokenInv'
  BY <1>1, <1>2 DEF JapaneseInv, TokenInv
<1>6. ToldInv'
  BY <1>1, <1>2 DEF JapaneseInv, ToldInv
<1>7. TurnInv'
  <2> SUFFICES ASSUME jaStage' # "failed", NEW n \in 1..Len(jaText)
               PROVE  Spread(HeardOf(n), Told') \o Pending(n)' = Due(n)'
    <3>1. Len(jaText') = Len(jaText)
      BY <1>1
    <3>2. \A n \in 1..Len(jaText) : Spread(HeardOf(n), Told)' = Spread(HeardOf(n), Told')
      OBVIOUS
    <3>3. QED
      BY <3>1, Zenon DEF TurnInv
  <2>1. Spread(HeardOf(n), Told) \o Pending(n) = Due(n)
    BY <1>1 DEF JapaneseInv, TurnInv
  <2>2. Pending(n)' = Pending(n)
    BY <1>1 DEF Pending
  <2>3. Waits(n)' <=> Waits(n)
    BY <1>1 DEF Waits
  <2>4. Due(n)' = Due(n)
    BY <1>1, <1>2, <2>3, Zenon DEF Due
  <2>5. QED
    BY <1>2, <2>1, <2>2, <2>4, Zenon
<1>8. QED
  BY <1>3, <1>4, <1>5, <1>6, <1>7 DEF JapaneseInv

(* In every state the words that had their turn are told, once and in      *)
(* their order, and those that wait are not.                               *)
THEOREM JapaneseInvariant == JapaneseSpec => []JapaneseInv
<1>1. JapaneseInit => JapaneseInv
  BY JapaneseBegins
<1>2. JapaneseInv /\ [JapaneseNext]_jaVars => JapaneseInv'
  BY SplitKeeps, ReadKeeps, FailKeeps, PushKeepsInv, FinishKeeps, EndKeeps, Zenon DEF JapaneseNext
<1>3. QED
  BY <1>1, <1>2, PTL DEF JapaneseSpec

LEMMA HeardMorasIs ==
  ASSUME ToldInv, NEW n PROVE HeardMoras(n) = Spread(HeardOf(n), Told)
<1> DEFINE f == [i \in DOMAIN Told |->
                  IF Told[i].of = n /\ is_tail(Told[i].symbol) THEN <<Told[i].symbol>> ELSE << >>]
           g == [i \in 1..Len(Told) |-> HeardOf(n)[Told[i]]]
<1>1. Told \in Seq(Phoneme)
  BY FlattenType DEF Told, ToldInv
<1>2. DOMAIN Told = 1..Len(Told) /\ \A i \in 1..Len(Told) : Told[i] \in Phoneme
  BY <1>1
<1>3. \A i \in 1..Len(Told) :
        HeardOf(n)[Told[i]] =
          IF Told[i].of = n /\ is_tail(Told[i].symbol) THEN <<Told[i].symbol>> ELSE << >>
  BY <1>2, Zenon DEF HeardOf
<1>4. f = g
  BY <1>2, <1>3, Zenon
<1>5. HeardMoras(n) = FlattenSeq(f)
  BY Zenon DEF HeardMoras, Told
<1>6. QED
  BY <1>4, <1>5, Zenon DEF Spread

LEMMA ReadThrough == JapaneseInv => JapaneseIsReadThrough
<1> SUFFICES ASSUME JapaneseInv PROVE JapaneseIsReadThrough
  OBVIOUS
<1>1. jaText \in Seq(NumberedWord) /\ Len(jaText) \in Nat /\ DOMAIN jaText = 1..Len(jaText)
  BY DEF JapaneseInv, TextInv
<1>2. /\ readings \in Seq(Seq(Phoneme)) /\ SpacesOnly(Told)
      /\ \A i \in 1..Len(readings) : Fine(jaText, readings[i])
      /\ \A i, j \in 1..Len(Told) :
           (i < j /\ Told[i].of # 0 /\ Told[j].of # 0) => Told[i].of <= Told[j].of
  BY DEF JapaneseInv, ToldInv
<1>3. Told \in Seq(Phoneme) /\ DOMAIN Told = 1..Len(Told)
  <2>1. Told \in Seq(Phoneme)
    BY <1>2, FlattenType DEF Told
  <2>2. QED
    BY <2>1
<1>4. ASSUME jaStage = "done", NEW n \in 1..Len(jaText)
      PROVE  HeardMoras(n) = MorasOf(jaText[n].kana)
  <2>1. Spread(HeardOf(n), Told) \o Pending(n) = Due(n)
    BY <1>4 DEF JapaneseInv, TurnInv
  <2>2. Pending(n) = << >>
    BY <1>4 DEF Pending
  <2>3. Spread(HeardOf(n), Told) \in Seq(Symbol)
    BY <1>3, SpreadType, HeardIsExpansion, Zenon
  <2>4. Spread(HeardOf(n), Told) \o << >> = Spread(HeardOf(n), Told)
    BY <2>3, JoinNothing
  <2>5. jaRest = << >> /\ jaWords = << >>
    BY <1>4 DEF JapaneseInv, PlaceInv
  <2>6. n <= Reached /\ ~Waits(n)
    BY <1>1, <2>5 DEF Reached, Waits
  <2>7. Due(n) = MorasOf(jaText[n].kana)
    BY <2>6, Zenon DEF Due
  <2>8. HeardMoras(n) = Spread(HeardOf(n), Told)
    BY HeardMorasIs, Zenon DEF JapaneseInv
  <2>9. QED
    BY <2>1, <2>2, <2>4, <2>7, <2>8, Zenon
<1>5. \A i, j \in DOMAIN Told :
        (i < j /\ Told[i] # Space /\ Told[j] # Space) => Told[i].of <= Told[j].of
  BY <1>2, <1>3, Zenon DEF SpacesOnly
<1>6. MorasAreAllRead
  <2>1. \A i, j \in DOMAIN Told :
          i < j /\ Told[i] # Space /\ Told[j] # Space => Told[i].of <= Told[j].of
    BY <1>5, Zenon
  <2>2. QED
    BY <1>1, <1>4, <2>1, Zenon DEF MorasAreAllRead, Told
<1>7. ASSUME NEW r \in Range(readings)
      PROVE  /\ r[1] # Space /\ Last(r) # Space
             /\ \A i \in DOMAIN r : r[i].symbol \notin {"g", "K'"}
             /\ \A i \in 1..(Len(r) - 1) :
                  /\ r[i] = Space => r[i + 1] # Space
                  /\ (IsVoiced(r[i]) /\ IsVoiced(r[i + 1]) /\ r[i].of # r[i + 1].of)
                       => MayFollow(jaText[r[i + 1].of])
  <2>1. Fine(jaText, r)
    BY <1>2 DEF Range
  <2>2. /\ r \in Seq(Phoneme) /\ r # << >> /\ r[1].of # 0 /\ r[Len(r)].of # 0
        /\ Apart(jaText, r) /\ SpacesOnly(r)
        /\ \A i \in 1..Len(r) : r[i].symbol \notin {"g", "K'"} /\ r[i].of <= Len(jaText)
    BY <2>1, Zenon DEF Fine
  <2>3. Len(r) \in Nat /\ DOMAIN r = 1..Len(r) /\ \A i \in 1..Len(r) : r[i] \in Phoneme
    BY <2>2
  <2>4. \A p : p = Space => p.of = 0
    BY SpaceIs
  <2>5. r[1] # Space /\ Last(r) # Space
    BY <2>2, <2>4, Zenon DEF Last
  <2>6. \A i \in 1..Len(r) : IsVoiced(r[i]) => HasMoras(jaText, r[i].of)
    <3> SUFFICES ASSUME NEW i \in 1..Len(r), IsVoiced(r[i]) PROVE HasMoras(jaText, r[i].of)
      OBVIOUS
    <3>1. r[i] # Space /\ pron_to_moras(jaText[r[i].of].kana) # << >>
      BY Zenon DEF IsVoiced
    <3>2. r[i].of # 0
      BY <2>2, <3>1, Zenon DEF SpacesOnly
    <3>3. r[i].of \in Nat
      BY <2>3, PhonemeParts, Zenon
    <3>4. r[i].of \in 1..Len(jaText)
      BY <1>1, <2>2, <3>2, <3>3
    <3>5. QED
      BY <3>1, <3>4, Zenon DEF HasMoras
  <2>7. ASSUME NEW i \in 1..(Len(r) - 1)
        PROVE  /\ r[i] = Space => r[i + 1] # Space
               /\ (IsVoiced(r[i]) /\ IsVoiced(r[i + 1]) /\ r[i].of # r[i + 1].of)
                    => MayFollow(jaText[r[i + 1].of])
    <3>1. i \in 1..Len(r) /\ i + 1 \in 1..Len(r)
      BY <2>3
    <3>2. Follows(jaText, r[i].of, r[i + 1].of)
      BY <2>2, <3>1, Zenon DEF Apart
    <3>3. QED
      BY <2>4, <2>6, <3>1, <3>2, Zenon DEF Follows
  <2>8. QED
    BY <2>2, <2>3, <2>5, <2>7, Zenon
<1>8. WordsStandApart
  BY <1>7, Zenon DEF WordsStandApart
<1>9. QED
  BY <1>6, <1>8 DEF JapaneseIsReadThrough

(* The Kokoro voice reads a Japanese text through (phonemize in ja.rs): at *)
(* the end every mora of every word with kana has been told, once and in   *)
(* the order of the text, and in each sentence words run together only     *)
(* where the second is chained or begins with a nasal.                     *)
THEOREM JapaneseTextIsReadThrough == JapaneseSpec => []JapaneseIsReadThrough
  BY JapaneseInvariant, ReadThrough, PTL

-----------------------------------------------------------------------------
(* VoiceModel.                                                             *)

(* Each kind of voice is loaded by its own steps, and behind the step that *)
(* creates an engine it is there if the voice wants it.                    *)
LoadInv ==
  /\ file.voices \in Seq(Seq(STRING))
  /\ modelStage \in {"piper", "sessions", "tashkeel", "hebrew", "pinyin"} => ~Melo /\ ~Kokoro
  /\ modelStage \in {"melotts", "backend", "inner"} => Melo
  /\ modelStage \in {"kokoro", "vocab", "styles", "japanese"} => Kokoro
  /\ modelStage \in {"hebrew", "pinyin"} /\ should_diacritize => "tashkeel" \in engines
  /\ modelStage = "pinyin" /\ "hebrew" \in build /\ file.phonemes = "hebrew" => "hebrew" \in engines
  /\ modelStage = "inner" =>
       file.phonemes = "espeak" \/ (file.phonemes = "pinyin" /\ "pinyin" \in engines)
  /\ modelStage = "japanese" => file.voices # << >>
VoiceInv == LoadInv /\ LoadedVoiceHasItsEngines

LEMMA JapaneseVoiceIs ==
  ASSUME file.voices \in Seq(Seq(STRING)), file.voices # << >>, spoken_language = "ja"
  PROVE  \E v \in Range(file.voices) : v[1] = "j"
<1> DEFINE v == file.voices[1]
<1>1. v \in Range(file.voices)
  BY DEF Range
<1>2. espeak_language_for_voice(v) = "ja"
  BY DEF spoken_language
<1> HIDE DEF v
<1>3. v[1] \in DOMAIN PRESET_LANGUAGES /\ PRESET_LANGUAGES[v[1]] = "ja"
  BY <1>2 DEF espeak_language_for_voice
<1>4. v[1] = "j"
  BY <1>3 DEF PRESET_LANGUAGES
<1>5. QED
  BY <1>1, <1>4

(* Loading goes on: only the stage changes, and the engines may.           *)
LEMMA LoadingStays ==
  ASSUME VoiceInv, UNCHANGED case
  PROVE  /\ build' = build /\ file' = file /\ Melo' = Melo /\ Kokoro' = Kokoro
         /\ should_diacritize' = should_diacritize /\ spoken_language' = spoken_language
  BY DEF build, file, Melo, Kokoro, should_diacritize, spoken_language

LEMMA VoiceBegins == VoiceInit => VoiceInv
<1> SUFFICES ASSUME VoiceInit PROVE VoiceInv
  OBVIOUS
<1>1. file.voices \in Seq(Seq(STRING))
  BY VoiceAssumption DEF VoiceInit, VoiceStarts, file
<1>2. modelStage = "start"
  BY DEF VoiceInit, VoiceStarts
<1>3. QED
  BY <1>1, <1>2 DEF VoiceInv, LoadInv, LoadedVoiceHasItsEngines

LEMMA ModelTypeKeeps == VoiceInv /\ read_model_type => VoiceInv'
<1> SUFFICES ASSUME VoiceInv, read_model_type PROVE VoiceInv'
  OBVIOUS
<1>1. UNCHANGED case
  BY DEF read_model_type
<1>2. /\ build' = build /\ file' = file /\ Melo' = Melo /\ Kokoro' = Kokoro
      /\ should_diacritize' = should_diacritize /\ spoken_language' = spoken_language
  BY <1>1, LoadingStays
<1>3. \/ modelStage' = "failed"
      \/ modelStage' = "piper" /\ file.type \in {"none", "piper", "vits"}
      \/ modelStage' = "kokoro" /\ file.type = "kokoro"
      \/ modelStage' = "melotts" /\ file.type = "melotts"
  BY DEF read_model_type, Loads, Reach, Fail
<1>4. QED
  BY <1>2, <1>3 DEF VoiceInv, LoadInv, LoadedVoiceHasItsEngines, Melo, Kokoro

LEMMA PiperKeeps == VoiceInv /\ LoadPiper => VoiceInv'
<1> SUFFICES ASSUME VoiceInv, LoadPiper PROVE VoiceInv'
  OBVIOUS
<1>1. UNCHANGED case
  BY DEF LoadPiper, load_model_config, create_inference_session, create_tashkeel_engine,
         create_hebrew_engine, create_pinyin_engine, CreateEngine
<1>2. /\ build' = build /\ file' = file /\ Melo' = Melo /\ Kokoro' = Kokoro
      /\ should_diacritize' = should_diacritize /\ spoken_language' = spoken_language
  BY <1>1, LoadingStays
<1>3. CASE load_model_config \/ create_inference_session
  <2>1. \/ modelStage' = "failed"
        \/ modelStage \in {"piper", "sessions"} /\ modelStage' \in {"sessions", "tashkeel"}
    BY <1>3 DEF load_model_config, create_inference_session, Loads, Reach, Fail
  <2>2. QED
    BY <1>2, <2>1 DEF VoiceInv, LoadInv, LoadedVoiceHasItsEngines
<1>4. ASSUME NEW engine, NEW next, CreateEngine(engine, next)
      PROVE  \/ modelStage' = "failed"
             \/ /\ modelStage = engine /\ modelStage' = next
                /\ engines \subseteq engines' /\ (Wants(engine) => engine \in engines')
  BY <1>4 DEF CreateEngine, Loads, Reach, Fail
<1>5. CASE create_tashkeel_engine
  <2>1. \/ modelStage' = "failed"
        \/ /\ modelStage = "tashkeel" /\ modelStage' = "hebrew"
           /\ should_diacritize => "tashkeel" \in engines'
    BY <1>4, <1>5 DEF create_tashkeel_engine, Wants
  <2>2. QED
    BY <1>2, <2>1 DEF VoiceInv, LoadInv, LoadedVoiceHasItsEngines
<1>6. CASE create_hebrew_engine
  <2>1. \/ modelStage' = "failed"
        \/ /\ modelStage = "hebrew" /\ modelStage' = "pinyin" /\ engines \subseteq engines'
           /\ "hebrew" \in build /\ file.phonemes = "hebrew" => "hebrew" \in engines'
    BY <1>4, <1>6 DEF create_hebrew_engine, Wants
  <2>2. QED
    BY <1>2, <2>1 DEF VoiceInv, LoadInv, LoadedVoiceHasItsEngines
<1>7. CASE create_pinyin_engine
  <2>1. \/ modelStage' = "failed"
        \/ /\ modelStage = "pinyin" /\ modelStage' = "loaded" /\ engines \subseteq engines'
           /\ "pinyin" \in build /\ file.phonemes = "pinyin" => "pinyin" \in engines'
    BY <1>4, <1>7 DEF create_pinyin_engine, Wants
  <2>2. QED
    BY <1>2, <2>1 DEF VoiceInv, LoadInv, LoadedVoiceHasItsEngines, should_diacritize
<1>8. QED
  BY <1>3, <1>5, <1>6, <1>7 DEF LoadPiper

LEMMA MeloKeeps == VoiceInv /\ LoadMelo => VoiceInv'
<1> SUFFICES ASSUME VoiceInv, LoadMelo PROVE VoiceInv'
  OBVIOUS
<1>1. UNCHANGED case
  BY DEF LoadMelo, load_config, create_backend, InnerModel
<1>2. /\ build' = build /\ file' = file /\ Melo' = Melo /\ Kokoro' = Kokoro
      /\ should_diacritize' = should_diacritize /\ spoken_language' = spoken_language
  BY <1>1, LoadingStays
<1>3. CASE load_config
  <2>1. modelStage' = "failed" \/ (modelStage = "melotts" /\ modelStage' = "backend")
    BY <1>3 DEF load_config, Loads, Reach, Fail
  <2>2. QED
    BY <1>2, <2>1 DEF VoiceInv, LoadInv, LoadedVoiceHasItsEngines
<1>4. CASE create_backend
  <2>1. \/ modelStage' = "failed"
        \/ /\ modelStage = "backend" /\ modelStage' = "inner"
           /\ file.phonemes = "espeak" \/ (file.phonemes = "pinyin" /\ "pinyin" \in engines')
    BY <1>4 DEF create_backend, Loads, Reach, Fail
  <2>2. QED
    BY <1>2, <2>1 DEF VoiceInv, LoadInv, LoadedVoiceHasItsEngines
<1>5. CASE InnerModel
  <2>1. \/ modelStage' = "failed"
        \/ modelStage = "inner" /\ modelStage' = "loaded" /\ engines' = engines
    BY <1>5 DEF InnerModel, Loads, Reach, Fail
  <2>2. modelStage = "inner" => ~Kokoro
    BY DEF VoiceInv, LoadInv, Melo, Kokoro
  <2>3. QED
    BY <1>2, <2>1, <2>2 DEF VoiceInv, LoadInv, LoadedVoiceHasItsEngines
<1>6. QED
  BY <1>3, <1>4, <1>5 DEF LoadMelo

LEMMA KokoroKeeps == VoiceInv /\ LoadKokoro => VoiceInv'
<1> SUFFICES ASSUME VoiceInv, LoadKokoro PROVE VoiceInv'
  OBVIOUS
<1>1. UNCHANGED case
  BY DEF LoadKokoro, load_kokoro_config, Vocab_load, VoiceStyles_load, create_japanese_dictionary
<1>2. /\ build' = build /\ file' = file /\ Melo' = Melo /\ Kokoro' = Kokoro
      /\ should_diacritize' = should_diacritize /\ spoken_language' = spoken_language
  BY <1>1, LoadingStays
<1>3. CASE load_kokoro_config \/ Vocab_load
  <2>1. \/ modelStage' = "failed"
        \/ modelStage \in {"kokoro", "vocab"} /\ modelStage' \in {"vocab", "styles"}
    BY <1>3 DEF load_kokoro_config, Vocab_load, Loads, Reach, Fail
  <2>2. QED
    BY <1>2, <2>1 DEF VoiceInv, LoadInv, LoadedVoiceHasItsEngines
<1>4. CASE VoiceStyles_load
  <2>1. \/ modelStage' = "failed"
        \/ modelStage = "styles" /\ modelStage' = "japanese" /\ file.voices # << >>
    BY <1>4 DEF VoiceStyles_load, Loads, Reach, Fail
  <2>2. QED
    BY <1>2, <2>1 DEF VoiceInv, LoadInv, LoadedVoiceHasItsEngines
<1>5. CASE create_japanese_dictionary
  <2>1. \/ modelStage' = "failed"
        \/ /\ modelStage = "japanese" /\ modelStage' = "loaded"
           /\ Wants("japanese") => engines' \cap {"japanese", "no dictionary"} # {}
    BY <1>5 DEF create_japanese_dictionary, Loads, Reach, Fail
  <2>2. /\ file.voices \in Seq(Seq(STRING))
        /\ modelStage = "japanese" => Kokoro /\ file.voices # << >>
    BY DEF VoiceInv, LoadInv
  <2>3. modelStage = "japanese" /\ "japanese" \in build /\ spoken_language = "ja" => Wants("japanese")
    BY <2>2, JapaneseVoiceIs DEF Wants
  <2>4. QED
    BY <1>2, <2>1, <2>2, <2>3 DEF VoiceInv, LoadInv, LoadedVoiceHasItsEngines
<1>6. QED
  BY <1>3, <1>4, <1>5 DEF LoadKokoro

(* A loaded voice keeps its engines, whatever it is asked to say.          *)
LEMMA SpeakingKeeps ==
  ASSUME VoiceInv,
         \/ phonemize_text \/ BeginSentence
         \/ infer_with_values \/ synthesize_phone_tone_pairs \/ synthesize_token_chunk
         \/ infer_encoder \/ infer_decoder \/ UNCHANGED modelVars
  PROVE  VoiceInv'
<1>1. UNCHANGED <<case, engines>>
  BY DEF phonemize_text, BeginSentence, infer_with_values, synthesize_phone_tone_pairs,
         synthesize_token_chunk, Infer, infer_encoder, infer_decoder, modelVars, loadedVars
<1>2. /\ build' = build /\ file' = file /\ Melo' = Melo /\ Kokoro' = Kokoro
      /\ should_diacritize' = should_diacritize /\ spoken_language' = spoken_language
  BY <1>1, LoadingStays
<1>3. \/ modelStage' = modelStage \/ modelStage' = "failed"
      \/ /\ modelStage \in {"loaded", "speaking", "asked", "encoded"}
         /\ modelStage' \in {"speaking", "asked", "encoded"}
  <2>1. CASE phonemize_text
    BY <2>1 DEF phonemize_text, Reach
  <2>2. CASE BeginSentence
    BY <2>2 DEF BeginSentence, AsksMelo, AsksKokoro, AsksPiper, Asks, Reach
  <2>3. CASE infer_with_values \/ synthesize_phone_tone_pairs \/ synthesize_token_chunk
    BY <2>3 DEF infer_with_values, synthesize_phone_tone_pairs, synthesize_token_chunk,
                Infer, Return, Reach
  <2>4. CASE infer_encoder
    BY <2>4 DEF infer_encoder, from_values, Reach
  <2>5. CASE infer_decoder
    BY <2>5 DEF infer_decoder, Return, Reach
  <2>6. CASE UNCHANGED modelVars
    BY <2>6 DEF modelVars
  <2>7. QED
    BY <2>1, <2>2, <2>3, <2>4, <2>5, <2>6
<1>4. QED
  BY <1>1, <1>2, <1>3 DEF VoiceInv, LoadInv, LoadedVoiceHasItsEngines

THEOREM VoiceInvariant == VoiceSpec => []VoiceInv
<1>1. VoiceInit => VoiceInv
  BY VoiceBegins
<1>2. VoiceInv /\ [VoiceNext]_modelVars => VoiceInv'
  BY ModelTypeKeeps, PiperKeeps, MeloKeeps, KokoroKeeps, SpeakingKeeps, Zenon DEF VoiceNext
<1>3. QED
  BY <1>1, <1>2, PTL DEF VoiceSpec

(* A voice that was loaded has every engine its build has and its texts    *)
(* need (from_config_path of the three kinds of voice), however it speaks. *)
THEOREM LoadedVoiceIsEquipped == VoiceSpec => []LoadedVoiceHasItsEngines
<1>1. VoiceInv => LoadedVoiceHasItsEngines
  BY DEF VoiceInv
<1>2. QED
  BY <1>1, VoiceInvariant, PTL
=============================================================================
