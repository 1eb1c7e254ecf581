----------------------------- MODULE AudioBuffer -----------------------------
(***************************************************************************)
(* A buffer of samples (AudioSamples, crates/audio/ops) under any sequence *)
(* of its calls: shape_output trims and fades a sentence, AudioOutputConfig*)
(* takes, merges and appends, the Piper streamer crossfades its chunks,    *)
(* and the rest of the calls are there for users of the crate.             *)
(*                                                                         *)
(* A sample knows its place in the sound it comes from.  Its level is in   *)
(* thousandths of full scale; it may also be infinite or not a number,     *)
(* which a network can return.  A quarter of a sine, or half a Hann window,*)
(* is a straight line here: what matters is where a gain is none, where it *)
(* is full, and that it lies between elsewhere.                            *)
(***************************************************************************)
EXTENDS Integers, FiniteSetsExt, SequencesExt

CONSTANTS
  BufferSounds,           (* the levels of the sounds a buffer may begin with    *)
  SecondSounds,     (* those of the buffer it is merged with               *)
  Peaks,            (* the peaks asked of normalize                        *)
  SilenceThreshold, (* TRAILING_SILENCE_THRESHOLD, in thousandths          *)
  MaxBufferCalls    (* bound: calls made                                   *)

ASSUME BufferAssumption ==
  /\ BufferSounds \subseteq Seq(Int) /\ SecondSounds \subseteq Seq(Int)
  /\ Peaks \subseteq Nat /\ SilenceThreshold \in Nat

VARIABLES
  held,      (* the samples of the buffer                                  *)
  second,    (* the samples of the other buffer                            *)
  channels,  (* the channels they are interleaved for                      *)
  handed,    (* samples a call has returned                                *)
  dropped,   (* samples a call has removed, and why                        *)
  bufferCalls

bufferVars == <<held, second, channels, handed, dropped, bufferCalls>>

(* The levels that are not numbers. *)
Infinite == 1000000
NotANumber == 2000000

IsNumber(s) == s.level < Infinite
Size(s) == IF s.level < 0 THEN -s.level ELSE s.level
Audible(s) == IsNumber(s) /\ Size(s) > SilenceThreshold
PlacedSamples(levels, first) ==
  [i \in DOMAIN levels |-> [place |-> first + i, level |-> levels[i]]]

BufferStarts(sounds, seconds) ==
  /\ \E a \in sounds : held = PlacedSamples(a, 0)
  /\ \E b \in seconds : second = PlacedSamples(b, Len(held))
  /\ channels \in {1, 2}
  /\ handed = {} /\ dropped = {}
  /\ bufferCalls = 0
BufferInit == BufferStarts(BufferSounds, SecondSounds)

-----------------------------------------------------------------------------
(* What the calls are made of.                                             *)

Toward0(a, b) == IF a < 0 THEN -((-a) \div b) ELSE a \div b

(* A sample times the gain i / n. *)
Gained(s, i, n) ==
  [s EXCEPT !.level = IF IsNumber(s) THEN Toward0(s.level * i, n)
                      ELSE IF i = 0 THEN NotANumber ELSE s.level]

(* Two samples mixed: the first with the gain that is left. *)
Mixed(mine, theirs, i, n) ==
  LET a == Gained(mine, n - i, n).level
      b == Gained(theirs, i, n).level
  IN [mine EXCEPT !.level = IF a < Infinite /\ b < Infinite THEN a + b
                            ELSE Max({a, b})]

Cleared(s) == [s EXCEPT !.level = 0]
AtMost(a, b) == IF a < b THEN a ELSE b
Because(samples, why) == {[sample |-> s, why |-> why] : s \in ToSet(samples)}

(* A call changes the levels only. *)
Changes(samples) == held' = samples /\ UNCHANGED <<second, channels, handed, dropped>>

-----------------------------------------------------------------------------
(* The calls.                                                              *)

TakeAll ==
  /\ held' = << >> /\ handed' = handed \cup ToSet(held)
  /\ UNCHANGED <<second, channels, dropped>>

TakeRange(start, end) ==
  LET last == AtMost(end, Len(held))
      first == AtMost(start, last)
  IN /\ handed' = handed \cup ToSet(SubSeq(held, first + 1, last))
     /\ held' = SubSeq(held, 1, first) \o SubSeq(held, last + 1, Len(held))
     /\ UNCHANGED <<second, channels, dropped>>

Merge ==
  /\ held' = held \o second /\ second' = << >>
  /\ UNCHANGED <<channels, handed, dropped>>

(* A silent buffer normalized to a peak of nothing divides by nothing. *)
Normalize(peak) ==
  LET loudest == Max({0} \cup {Size(s) : s \in {t \in ToSet(held) : IsNumber(t)}})
      divisor == Max({loudest, peak})
  IN Changes([i \in DOMAIN held |->
       IF ~IsNumber(held[i]) THEN Cleared(held[i])
       ELSE IF divisor = 0 THEN [held[i] EXCEPT !.level = NotANumber]
       ELSE Gained(held[i], peak, divisor)])

(* get_hann_window: from nothing at both edges to the middle.  There is    *)
(* none of one sample, and the call is refused.                            *)
HannGain(s, i, n) == Gained(s, 2 * AtMost(i - 1, n - i), n - 1)
ApplyHanningWindow ==
  IF Len(held) = 1 THEN Changes(held)
  ELSE Changes([i \in DOMAIN held |-> HannGain(held[i], i, Len(held))])

OverlapWith(overlap) ==
  LET n == AtMost(overlap, AtMost(Len(held), Len(second)))
      start == Len(held) - n
      mix(k) == IF n = 1 THEN Mixed(held[start + 1], second[1], 1, 2)
                ELSE Mixed(held[start + k], second[k], k - 1, n - 1)
  IN /\ held' = SubSeq(held, 1, start) \o [k \in 1..n |-> mix(k)]
                  \o SubSeq(second, n + 1, Len(second))
     /\ second' = << >>
     /\ dropped' = dropped \cup Because(SubSeq(second, 1, n), "mixed")
     /\ UNCHANGED <<channels, handed>>

FadeIn(fade) ==
  LET span == AtMost(fade, Len(held))
  IN Changes([i \in DOMAIN held |->
                IF i <= span THEN Gained(held[i], i - 1, span) ELSE held[i]])

FadedOut(samples, fade) ==
  LET n == Len(samples)
      span == AtMost(fade, n)
  IN [i \in DOMAIN samples |->
        IF n - i < span THEN Gained(samples[i], n - i, span) ELSE samples[i]]
FadeOut(fade) == Changes(FadedOut(held, fade))

CrossfadeSpan(fade) == AtMost(fade, Len(held) \div 2)
Crossfade(fade) ==
  LET span == CrossfadeSpan(fade)
      rise(s, i) == IF i < span THEN Gained(s, i, span - 1) ELSE s
  IN IF span < 2 THEN Changes(held)
     ELSE Changes([i \in DOMAIN held |->
                     rise(rise(held[i], i - 1), Len(held) - i)])

(* zero_samples_above and zero_samples_below. *)
ZeroSamples(start, end, keeps) ==
  Changes([i \in DOMAIN held |->
    IF i > start /\ i <= end /\ i \notin keeps THEN Cleared(held[i]) ELSE held[i]])
ZeroSamplesAbove(start, end) ==
  ZeroSamples(start, end, {i \in DOMAIN held : held[i].level < SilenceThreshold})
ZeroSamplesBelow(start, end) ==
  ZeroSamples(start, end, {i \in DOMAIN held : held[i].level > SilenceThreshold
                                               /\ held[i].level # NotANumber})

Loud(s) == Size(s) > SilenceThreshold /\ s.level # NotANumber
OnlyLoud(samples) ==
  FlattenSeq([i \in DOMAIN samples |-> IF Loud(samples[i]) THEN <<samples[i]>> ELSE << >>])

StripSilence(start, end) ==
  LET last == AtMost(end, Len(held))
      first == AtMost(start, last)
      within == SubSeq(held, first + 1, last)
  IN /\ held' = SubSeq(held, 1, first) \o OnlyLoud(within) \o SubSeq(held, last + 1, Len(held))
     /\ dropped' = dropped \cup {d \in Because(within, "silence") : ~Loud(d.sample)}
     /\ UNCHANGED <<second, channels, handed>>

(* Frames are whole: samples after the last whole one go with the silence. *)
ActiveFrames ==
  {f \in 1..(Len(held) \div channels) :
     \E i \in DOMAIN held : (i - 1) \div channels = f - 1 /\ Audible(held[i])}

(* Variant for the mutation runs: the last active frame is trimmed too. *)
FrameBeforeLastActive == Max({0} \cup {f - 1 : f \in ActiveFrames})

LastActiveFrame == Max({0} \cup ActiveFrames)

KeptByTrimming == LastActiveFrame * channels
Trimming ==
  LET whole == Len(held) - (Len(held) % channels)
  IN Because(SubSeq(held, KeptByTrimming + 1, whole), "silence")
       \cup Because(SubSeq(held, whole + 1, Len(held)), "no frame")

TrimTrailingSilence ==
  /\ held' = SubSeq(held, 1, KeptByTrimming)
  /\ dropped' = dropped \cup Trimming
  /\ UNCHANGED <<second, channels, handed>>

(* shape_output, up to its AudioOutputConfig: trimmed, then faded out. *)
ShapeOutput(fade) ==
  /\ held' = FadedOut(SubSeq(held, 1, KeptByTrimming), fade)
  /\ dropped' = dropped \cup Trimming
  /\ UNCHANGED <<second, channels, handed>>

(* to_i16_vec: a fixed gain of 5/4, clamped; what is no number is silent.  *)
Pcm(s) ==
  IF ~IsNumber(s) THEN 0
  ELSE Max({-32768, AtMost(32767, Toward0(5 * s.level * 32767, 4000))})

-----------------------------------------------------------------------------
BufferNext ==
  /\ bufferCalls < MaxBufferCalls /\ bufferCalls' = bufferCalls + 1
  /\ \/ TakeAll \/ Merge \/ ApplyHanningWindow \/ TrimTrailingSilence
     \/ \E peak \in Peaks : Normalize(peak)
     \/ \E n \in 0..(Len(held) + 1) :
          OverlapWith(n) \/ FadeIn(n) \/ FadeOut(n) \/ Crossfade(n) \/ ShapeOutput(n)
     \/ \E start, end \in 0..(Len(held) + 1) :
          TakeRange(start, end) \/ StripSilence(start, end)
            \/ ZeroSamplesAbove(start, end) \/ ZeroSamplesBelow(start, end)

BufferSpec == BufferInit /\ [][BufferNext]_bufferVars

-----------------------------------------------------------------------------
(* Properties.                                                             *)

(* Whatever the calls, a sound is heard in its order. *)
SoundIsInOrder ==
  \A i, j \in DOMAIN held : i < j => held[i].place < held[j].place

(* No sample is lost or doubled: it is in the buffer, in the other, was    *)
(* handed out, or was removed.                                             *)
SamplesAddUp ==
  LET of(samples) == {s.place : s \in samples}
      parts == <<of(ToSet(held)), of(ToSet(second)), of(handed), of({d.sample : d \in dropped})>>
      all == UNION ToSet(parts)
  IN /\ all = 1..Cardinality(all)
     /\ \A i, j \in DOMAIN parts : i # j => parts[i] \cap parts[j] = {}

(* What trimming and stripping remove as silence is not audible. *)
NothingAudibleIsTrimmed ==
  \A d \in dropped : d.why = "silence" => ~Audible(d.sample)

(* In the wave file louder samples stay louder and silence stays silence;  *)
(* nothing wraps around.                                                   *)
WaveKeepsTheShape ==
  \A s, t \in ToSet(held) :
    IsNumber(s) /\ IsNumber(t) /\ s.level <= t.level =>
      /\ Pcm(s) <= Pcm(t)
      /\ s.level = 0 => Pcm(s) = 0

(* A sound keeps its samples, its order and its audible parts through      *)
(* every sequence of calls and the conversion to the wave file.            *)
SoundSurvivesShaping ==
  SoundIsInOrder /\ SamplesAddUp /\ NothingAudibleIsTrimmed /\ WaveKeepsTheShape
=============================================================================
