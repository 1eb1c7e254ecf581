----------------------------- MODULE MelChunker -----------------------------
(***************************************************************************)
(* How the streaming Piper model cuts one sentence into decoder windows    *)
(* and what audio of each window is kept (SpeechStreamer and               *)
(* AdaptiveMelChunker), with the chunk size that the realtime stream       *)
(* passes for the n-th sentence.  Time is counted in mel frames: an audio  *)
(* index is a frame index times the hop length, which every slice shares.  *)
(* Cancellation and failing decoder runs are RealtimeStream's subject.     *)
(***************************************************************************)
EXTENDS Integers

CONSTANTS
  MIN_CHUNK_SIZE,         (* 44 frames in the code                         *)
  MAX_CHUNK_SIZE,         (* 1024 frames                                   *)
  MAX_STREAM_CHUNK_SIZE,  (* 1 000 000                                     *)
  FrameCounts,            (* encoder outputs: frames of a sentence         *)
  ChunkSizes,             (* chunk_size as given by the caller             *)
  Paddings,               (* chunk_padding as given by the caller          *)
  SentenceIndices         (* position of the sentence in the request       *)

ASSUME LimitsAssumption ==
  /\ MIN_CHUNK_SIZE \in Nat
  /\ MAX_CHUNK_SIZE \in Nat \ {0}
  /\ MAX_STREAM_CHUNK_SIZE \in Nat
ASSUME InputsAssumption ==
  /\ FrameCounts \subseteq Nat
  /\ ChunkSizes \subseteq Nat
  /\ Paddings \subseteq Nat
  /\ SentenceIndices \subseteq Nat

VARIABLES
  frames, base, size, padding,  (* num_frames, the caller's chunk_size,    *)
                                (* the size used for this sentence,        *)
                                (* chunk_padding                           *)
  live, cursor,   (* cursor: Option<isize>, live iff it is Some            *)
  emitted,        (* chunks_emitted                                        *)
  window,         (* length of the window decoded last                     *)
  fresh,          (* frames of audio kept from it                          *)
  heard           (* frames from the start of the sentence that were       *)
                  (* delivered in order, each once                         *)

vars == <<frames, base, size, padding, live, cursor, emitted, window, fresh, heard>>
input == <<frames, base, size, padding>>

Lesser(a, b) == IF a <= b THEN a ELSE b
Greater(a, b) == IF a >= b THEN a ELSE b

(* RealtimeSpeechStream::next_chunk_size.  The saturation of usize is      *)
(* above the cap and cannot be seen.                                       *)
next_chunk_size(base_chunk_size, sentences_seen) ==
  Lesser(base_chunk_size + base_chunk_size * Lesser(sentences_seen, 4),
         MAX_STREAM_CHUNK_SIZE)

current_chunk_width ==
  Lesser(Greater(size, 1) * (emitted + 1), MAX_CHUNK_SIZE)

one_shot == frames <= size * 2 + padding * 2

Init ==
  /\ frames \in FrameCounts
  /\ base \in ChunkSizes
  /\ \E n \in SentenceIndices : size = next_chunk_size(base, n)
  /\ padding \in Paddings
  /\ live = TRUE
  /\ cursor = 0
  /\ emitted = 0
  /\ window = 0
  /\ fresh = 0
  /\ heard = 0

(* A slice bound as ndarray reads it: negative counts from the end. *)
Bound(index, length) == IF index < 0 THEN length + index ELSE index

(* What is delivered: the audio [from, to) of the sentence. *)
Hear(from, to) ==
  /\ fresh' = Greater(to - from, 0)
  /\ heard' = IF from = heard /\ to > from THEN to ELSE heard

(* The whole sentence in one decoder run. *)
DecodeWhole ==
  /\ live
  /\ one_shot
  /\ live' = FALSE
  /\ cursor' = cursor
  /\ emitted' = emitted + 1
  /\ window' = frames
  /\ Hear(0, frames)
  /\ UNCHANGED input

mel_start == IF cursor = 0 THEN 0 ELSE cursor - padding * 2
lead_trim == IF cursor = 0 THEN 0 ELSE padding
padded_end == cursor + current_chunk_width + padding

(* Variant: only an exhausted sentence ends the loop. *)
is_final_late == frames <= padded_end

is_final == frames - padded_end <= MIN_CHUNK_SIZE

(* The window [start, end) of the encoder output, and the part of its      *)
(* audio that the trims leave.                                             *)
Decode(start, end, keepEnd) ==
  LET length == Greater(end - start, 0) IN
  /\ window' = length
  /\ Hear(start + lead_trim, start + Bound(keepEnd, length))

DecodeWindow ==
  /\ live
  /\ ~one_shot
  /\ ~is_final
  /\ cursor' = padded_end
  /\ emitted' = emitted + 1
  /\ Decode(Bound(mel_start, frames), padded_end, -padding)
  /\ UNCHANGED <<input, live>>

(* Both slices of the last window are open-ended. *)
DecodeLast ==
  /\ live
  /\ ~one_shot
  /\ is_final
  /\ live' = FALSE
  /\ cursor' = cursor
  /\ emitted' = emitted + 1
  /\ LET start == Bound(mel_start, frames)
     IN  Decode(start, frames, Greater(frames - start, 0))
  /\ UNCHANGED input

Next == DecodeWhole \/ DecodeWindow \/ DecodeLast

Spec == Init /\ [][Next]_vars

-----------------------------------------------------------------------------
(* Properties.                                                             *)

TypeOK ==
  /\ frames \in Nat /\ base \in Nat /\ size \in Nat /\ padding \in Nat
  /\ live \in BOOLEAN
  /\ cursor \in Nat
  /\ emitted \in Nat
  /\ window \in Nat
  /\ fresh \in Nat
  /\ heard \in 0..frames

(* The context the trims remove must exist: there is padding, and the      *)
(* first window is at least as wide as it.  Every frontend's default obeys *)
(* this (72/3, 55/3, 45/3).                                                *)
PaddingFits == padding \in 1..Lesser(size, MAX_CHUNK_SIZE)

(* The windows overlap by exactly the context that is trimmed: when the    *)
(* stream ends every frame of the sentence was heard, in order and once.   *)
AudioIsComplete == PaddingFits /\ ~live => heard = frames

(* Decoder runs stay bounded, however long the sentence: what the cap on   *)
(* the growing width is for.                                               *)
WindowIsBounded ==
  ~one_shot /\ PaddingFits =>
    window <= MAX_CHUNK_SIZE + 3 * padding + MIN_CHUNK_SIZE

(* No stub of a window at the end: a last window after others brings more  *)
(* than MIN_CHUNK_SIZE frames.                                             *)
NoRuntAtTheEnd ==
  PaddingFits /\ ~live /\ emitted > 1 => fresh > MIN_CHUNK_SIZE

(* The windows bring the whole sentence, and no decoder run is too long    *)
(* or, after others, too short.                                            *)
WindowsFitTheDecoder == AudioIsComplete /\ WindowIsBounded /\ NoRuntAtTheEnd

(* Every window but the last moves on, also with chunk_size and            *)
(* chunk_padding zero: the loop over a finite sentence ends.               *)
EveryWindowAdvances == [][~live' \/ cursor' > cursor]_vars

(* streaming.adoc:27: windows are decoded with "chunk_padding extra frames *)
(* of context trimmed from each window's edges"; no padding, no trimming.  *)
UnpaddedAudioIsComplete == padding = 0 /\ ~live => heard = frames
=============================================================================
