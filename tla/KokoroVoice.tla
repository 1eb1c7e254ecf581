----------------------------- MODULE KokoroVoice -----------------------------
(***************************************************************************)
(* One sentence spoken by a Kokoro voice.  Its text is phonemized for the  *)
(* language of the speaker selected at that time; the tokens are cut into  *)
(* pieces the model can take, and every piece is spoken with the speaker   *)
(* selected when the piece is its turn, so that a change made meanwhile    *)
(* shows in the middle of the sentence.  A streamed sentence is spoken as  *)
(* a whole before its first chunk is handed out; a chunk is pulled at a    *)
(* time, and a cancelled stream hands out no more of them.                 *)
(* A token is one sample of audio; each is known by its position.          *)
(***************************************************************************)
EXTENDS Naturals, FiniteSets, SequencesExt

CONSTANTS
  Preset,                    (* the voices of the configuration, in order  *)
  LanguageOf,                (* the language of each; "none" if unknown    *)
  MAX_TOKEN_LEN,             (* tokens of one inference                    *)
  KOKORO_CHUNK_SIZE_SCALE,   (* samples per unit of chunk_size             *)
  USIZE_MAX,                 (* the largest number of a machine word       *)
  MaxTokens,                 (* bound: tokens of the sentence              *)
  StreamChunkSizes,                (* chunk sizes the caller asks for            *)
  MaxChanges                 (* bound: changes of the speaker              *)

ASSUME KokoroAssumption ==
  /\ Preset \in Seq(STRING) /\ Preset # << >> /\ LanguageOf \in [Range(Preset) -> STRING]
  /\ MAX_TOKEN_LEN \in Nat \ {0} /\ KOKORO_CHUNK_SIZE_SCALE \in Nat \ {0}
  /\ USIZE_MAX \in Nat \ {0} /\ StreamChunkSizes \subseteq 0..USIZE_MAX
(* A vector of four-byte samples. *)
ASSUME MemoryAssumption == MaxTokens \in Nat /\ 4 * MaxTokens <= USIZE_MAX

VARIABLES
  selected,   (* the speaker set by a call, or 0 for none                  *)
  changes,    (* how often it was set                                      *)
  where,      (* where the sentence is                                     *)
  language,   (* the language it was phonemized for                        *)
  tokens,     (* its tokens: whether each is the space                     *)
  pieces,     (* pieces still to be spoken                                 *)
  sound,      (* samples spoken: token and speaker                         *)
  chunkSize,  (* samples of a chunk; 0 for a sentence not streamed         *)
  handedOut,     (* samples handed out                                        *)
  stopped,    (* the caller's cancellation token                           *)
  current     (* history: speakers selected since the sentence began       *)

sentenceVars == <<language, tokens, pieces, sound>>
kokoroVars == <<selected, changes, where, sentenceVars, chunkSize, handedOut, stopped, current>>

(* resolve_voice_name: the selected speaker, or the first one.             *)
Resolve(speaker) == Preset[IF speaker = 0 THEN 1 ELSE speaker]

KokoroInit ==
  /\ selected \in 0..Len(Preset)
  /\ changes = 0
  /\ where = "text"
  /\ language = "none"
  /\ tokens = << >> /\ pieces = << >> /\ sound = << >>
  /\ chunkSize \in {0} \cup StreamChunkSizes
  /\ handedOut = 0
  /\ stopped = FALSE
  /\ current = {Resolve(selected)}

(* set_fallback_synthesis_config of a speaker that exists, or of none; any *)
(* other is refused and changes nothing.                                   *)
SelectSpeaker ==
  /\ changes < MaxChanges /\ where \notin {"ended", "failed"}
  /\ changes' = changes + 1
  /\ selected' \in 0..Len(Preset)
  /\ current' = current \cup {Resolve(selected')}
  /\ UNCHANGED <<where, sentenceVars, chunkSize, handedOut, stopped>>

Stop ==
  /\ ~stopped /\ where \notin {"ended", "failed"}
  /\ stopped' = TRUE
  /\ UNCHANGED <<selected, changes, where, sentenceVars, chunkSize, handedOut, current>>

Goes(place) ==
  /\ where' = place
  /\ UNCHANGED <<selected, changes, chunkSize, stopped, current>>

(* phonemize_text: a speaker without a known language is an error.         *)
Phonemize ==
  /\ where = "text"
  /\ language' = LanguageOf[Resolve(selected)]
  /\ Goes(IF language' = "none" THEN "failed" ELSE "phonemes")
  /\ UNCHANGED <<tokens, pieces, sound, handedOut>>

-----------------------------------------------------------------------------
(* Variant for the mutation runs: a window is cut at its end.              *)
CutAtEnd(ts, from) == MAX_TOKEN_LEN

(* Where the window that starts at a token is cut: after its last space,   *)
(* or at its end if it has none (a vocabulary may have no space at all).   *)
Cut(ts, from) ==
  LET spaces == {k \in 1..MAX_TOKEN_LEN : ts[from + k - 1]}
  IN  IF spaces = {} THEN MAX_TOKEN_LEN ELSE Max(spaces)

(* split_tokens, as the positions of the tokens of every piece.            *)
SplitTokens(ts) ==
  LET Tokens(from, n) == [i \in 1..n |-> from + i - 1]
      split[from \in 1..Len(ts) + 1] ==
        IF Len(ts) - from + 1 <= MAX_TOKEN_LEN THEN <<Tokens(from, Len(ts) - from + 1)>>
        ELSE <<Tokens(from, Cut(ts, from))>> \o split[from + Cut(ts, from)]
  IN  split[1]

(* speak_one_sentence and stream_synthesis.  A chunk size of 0 is refused; *)
(* a stream that is cancelled already is empty.  Here chunkSize 0 also     *)
(* stands for a sentence that is not streamed, which is handed out whole.  *)
RefuseChunkSize ==
  /\ where = "phonemes" /\ chunkSize = 0
  /\ Goes("failed")
  /\ UNCHANGED <<sentenceVars, handedOut>>

StartCancelled ==
  /\ where = "phonemes" /\ chunkSize > 0 /\ stopped
  /\ Goes("ended")
  /\ UNCHANGED <<sentenceVars, handedOut>>

Tokenize ==
  /\ where = "phonemes"
  /\ chunkSize > 0 => ~stopped
  /\ \E n \in 0..MaxTokens : tokens' \in [1..n -> BOOLEAN]
  /\ pieces' = SplitTokens(tokens')
  /\ Goes("speaking")
  /\ UNCHANGED <<language, sound, handedOut>>

(* synthesize_token_chunk: the speaker is looked up for every piece. *)
SpeakPiece ==
  /\ where = "speaking" /\ pieces # << >>
  /\ sound' = sound \o [i \in 1..Len(Head(pieces)) |->
                          [token |-> Head(pieces)[i], speaker |-> Resolve(selected)]]
  /\ pieces' = Tail(pieces)
  /\ Goes("speaking")
  /\ UNCHANGED <<language, tokens, handedOut>>

(* An inference fails, and with it the sentence. *)
SpeakFails ==
  /\ where = "speaking" /\ pieces # << >>
  /\ Goes("failed")
  /\ UNCHANGED <<sentenceVars, handedOut>>

(* saturating_mul. *)
ScaledChunkSize == Min({chunkSize * KOKORO_CHUNK_SIZE_SCALE, USIZE_MAX})

Spoken ==
  /\ where = "speaking" /\ pieces = << >>
  /\ IF chunkSize = 0 THEN Goes("ended") /\ handedOut' = Len(sound)
                      ELSE Goes("streaming") /\ UNCHANGED handedOut
  /\ UNCHANGED sentenceVars

(* KokoroAudioStreamer::next. *)
PullChunk ==
  /\ where = "streaming"
  /\ IF stopped \/ handedOut >= Len(sound) THEN Goes("ended") /\ UNCHANGED handedOut
     ELSE /\ handedOut' = Min({(handedOut + ScaledChunkSize) % (USIZE_MAX + 1), Len(sound)})
          /\ Goes("streaming")
  /\ UNCHANGED sentenceVars

KokoroNext ==
  \/ SelectSpeaker \/ Stop \/ Phonemize \/ RefuseChunkSize \/ StartCancelled
  \/ Tokenize \/ SpeakPiece \/ SpeakFails \/ Spoken \/ PullChunk

KokoroSpec == KokoroInit /\ [][KokoroNext]_kokoroVars

-----------------------------------------------------------------------------
(* Properties.                                                             *)

(* Splitting loses, repeats and reorders no token, no piece is longer than *)
(* the model takes, and a word is cut only where it fills a whole piece:   *)
(* a piece that does not end the sentence ends with a space, or is full    *)
(* and has none.                                                           *)
SplitIsSound ==
  LET done == [i \in 1..Len(sound) |-> sound[i].token] IN
  /\ done \o FlattenSeq(pieces) = [i \in 1..Len(tokens) |-> i]
  /\ \A p \in 1..Len(pieces) :
       /\ Len(pieces[p]) <= MAX_TOKEN_LEN
       /\ p < Len(pieces) =>
            \/ tokens[Last(pieces[p])]
            \/ /\ Len(pieces[p]) = MAX_TOKEN_LEN
               /\ \A i \in Range(pieces[p]) : ~tokens[i]

(* The pieces make up the sentence at any time, what a caller of a stream  *)
(* has got is its beginning, and all of it when the stream ended without   *)
(* being cancelled.                                                        *)
SentenceIsSpokenWhole ==
  /\ where = "speaking" => SplitIsSound
  /\ handedOut <= Len(sound)
  /\ where = "ended" /\ ~stopped => handedOut = Len(tokens) /\ Len(sound) = Len(tokens)

(* A sentence is phonemized for, and every token spoken by, a speaker that *)
(* was selected at some time since the sentence began; without a change in *)
(* between it is one speaker, speaking the language of the sentence.       *)
SpeakersWereSelected ==
  \A i \in 1..Len(sound) :
    /\ sound[i].speaker \in current
    /\ Cardinality(current) = 1 => LanguageOf[sound[i].speaker] = language

(* A sentence is spoken whole, and by speakers that were asked for.        *)
SentenceIsSpokenAsAsked == SentenceIsSpokenWhole /\ SpeakersWereSelected
=============================================================================
