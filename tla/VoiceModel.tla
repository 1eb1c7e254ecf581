----------------------------- MODULE VoiceModel -----------------------------
(***************************************************************************)
(* A Piper, MeloTTS or Kokoro voice from its configuration to its samples: *)
(* the kind of voice is detected, the file is read, the networks and the   *)
(* engines its language needs are created, a text is phonemized, each      *)
(* sentence becomes ids, and the networks turn them into audio.            *)
(* Phonemes are sequences of characters; a phone id map gives a string of  *)
(* characters its ids.                                                     *)
(***************************************************************************)
EXTENDS Integers, SequencesExt

CONSTANT StyleRows   (* MAX_TOKEN_LEN: rows of a Kokoro voice's style      *)
(* What may be started: [build |-> features compiled in, file |-> the      *)
(* voice's configuration file, text |-> the sentences a phonemizer finds]. *)
CONSTANT VoiceCases
ASSUME VoiceAssumption == \A c \in VoiceCases : c.file.voices \in Seq(Seq(STRING))

VARIABLES
  case,       (* the voice and text that were started with                 *)
  modelStage, (* where loading and speaking are                            *)
  engines,    (* the engines the voice holds                               *)
  phonemized, (* the phonemized sentences                                  *)
  network,    (* what the network was given last                           *)
  encoded,    (* what a streaming voice's encoder returned                 *)
  returnedAudio (* the sentences whose samples were returned, in order    *)

modelVars == <<case, modelStage, engines, phonemized, network, encoded, returnedAudio>>
loadedVars == <<case, engines>>

build == case.build
file == case.file

NoInput == [ids |-> << >>, tones |-> << >>, speaker |-> FALSE, style |-> 0]
NoArrays == [z |-> 0, y_mask |-> 0, g |-> 0]

VoiceStarts(cases) ==
  /\ case \in cases
  /\ modelStage = "start" /\ engines = {} /\ phonemized = << >>
  /\ network = NoInput /\ encoded = NoArrays /\ returnedAudio = << >>
VoiceInit == VoiceStarts(VoiceCases)

Reach(s) == modelStage' = s
Fail == modelStage' = "failed" /\ UNCHANGED <<engines, phonemized, network, encoded, returnedAudio>>
Loads(s) == Reach(s) /\ UNCHANGED <<phonemized, network, encoded, returnedAudio>>

-----------------------------------------------------------------------------
(* detect_model_type and ModelType::from_str: no type is a Piper voice, an *)
(* unknown one is refused.                                                 *)

read_model_type ==
  /\ modelStage = "start"
  /\ UNCHANGED case
  /\ IF file.state \in {"missing", "garbled"} THEN Fail
     ELSE /\ UNCHANGED engines
          /\ CASE file.type \in {"none", "piper", "vits"} -> Loads("piper")
               [] file.type \in {"kokoro", "melotts"} -> Loads(file.type)
               [] OTHER -> Loads("failed")

-----------------------------------------------------------------------------
(* A Piper voice is loaded.                                                *)

load_model_config ==
  /\ modelStage = "piper"
  /\ UNCHANGED case
  /\ IF file.state = "whole" THEN UNCHANGED engines /\ Loads("sessions") ELSE Fail

create_inference_session ==
  /\ modelStage = "sessions"
  /\ UNCHANGED case
  /\ (UNCHANGED engines /\ Loads("tashkeel")) \/ Fail

(* should_diacritize, and the phoneme types that have an engine.  Without  *)
(* its feature an engine is not missed before a text needs it.             *)
should_diacritize == "tashkeel" \in build /\ file.arabic
Wants(engine) ==
  CASE engine = "tashkeel" -> should_diacritize
    [] engine = "japanese" -> engine \in build /\ \E v \in Range(file.voices) : v[1] = "j"
    [] OTHER               -> engine \in build /\ file.phonemes = engine
Configured(engine) == engine = "tashkeel" \/ file.engine

CreateEngine(engine, next) ==
  /\ modelStage = engine
  /\ UNCHANGED case
  /\ \/ ~Wants(engine) /\ UNCHANGED engines /\ Loads(next)
     \/ Wants(engine) /\ Configured(engine) /\ engines' = engines \cup {engine} /\ Loads(next)
     \/ Wants(engine) /\ Fail
create_tashkeel_engine == CreateEngine("tashkeel", "hebrew")
create_hebrew_engine == CreateEngine("hebrew", "pinyin")
create_pinyin_engine == CreateEngine("pinyin", "loaded")

(* A MeloTTS voice is loaded: its model lies in its own directory.         *)
load_config ==
  /\ modelStage = "melotts"
  /\ UNCHANGED case
  /\ IF file.state = "whole" /\ file.inside
     THEN UNCHANGED engines /\ Loads("backend") ELSE Fail

create_backend ==
  /\ modelStage = "backend"
  /\ UNCHANGED case
  /\ \/ file.phonemes = "espeak" /\ UNCHANGED engines /\ Loads("inner")
     \/ file.phonemes = "pinyin" /\ "pinyin" \in build
        /\ engines' = engines \cup {"pinyin"} /\ Loads("inner")
     \/ file.phonemes = "pinyin" /\ Fail

InnerModel ==
  /\ modelStage = "inner"
  /\ UNCHANGED case
  /\ (UNCHANGED engines /\ Loads("loaded")) \/ Fail

(* A Kokoro voice is loaded: its files lie in its own directory, its       *)
(* vocabulary has the token "$", every voice has a style table, whose name *)
(* is a plain file name, and there is a voice.                             *)
load_kokoro_config ==
  /\ modelStage = "kokoro"
  /\ UNCHANGED case
  /\ IF file.state = "whole" /\ file.inside
     THEN UNCHANGED engines /\ Loads("vocab") ELSE Fail

Vocab_load ==
  /\ modelStage = "vocab"
  /\ UNCHANGED case
  /\ \/ <<"$">> \in DOMAIN file.ids /\ UNCHANGED engines /\ Loads("styles")
     \/ Fail   (* or there is no session, or no such file *)

is_plain_file_stem(name) ==
  /\ name \notin {<< >>, <<".">>, <<".", ".">>}
  /\ "/" \notin Range(name)

VoiceStyles_load ==
  /\ modelStage = "styles"
  /\ UNCHANGED case
  /\ \/ /\ file.voices # << >>
        /\ \A v \in Range(file.voices) : is_plain_file_stem(v)
        /\ UNCHANGED engines /\ Loads("japanese")
     \/ Fail   (* or a table is missing, or has another size *)

(* JapaneseDictionary::from_env: without the variable that names its       *)
(* directory the voice is loaded and refuses Japanese later.               *)
create_japanese_dictionary ==
  /\ modelStage = "japanese"
  /\ UNCHANGED case
  /\ \/ ~Wants("japanese") /\ UNCHANGED engines /\ Loads("loaded")
     \/ Wants("japanese") /\ ~file.engine
          /\ engines' = engines \cup {"no dictionary"} /\ Loads("loaded")
     \/ Wants("japanese") /\ file.engine
          /\ engines' = engines \cup {"japanese"} /\ Loads("loaded")
     \/ Wants("japanese") /\ file.engine /\ Fail

-----------------------------------------------------------------------------
(* phonemize_text                                                          *)

Melo == file.type = "melotts"
Kokoro == file.type = "kokoro"

(* phonemize_dispatch: what it can say of a text.  A phonemizer may fail.  *)
HandledBy(engine) ==
  IF engine \in build /\ engine \in engines THEN {case.text} ELSE {}
PiperPhonemes ==
  CASE file.phonemes = "text" -> {<<FlattenSeq(case.text)>>}
    [] file.phonemes \in {"hebrew", "pinyin"} -> HandledBy(file.phonemes)
    [] OTHER -> IF "espeak" \in build /\ (should_diacritize => "tashkeel" \in engines)
                THEN {case.text} ELSE {}

(* A syllable is its initial, if it has one, and its finale, both in its   *)
(* tone; anything else passes through without a tone.                      *)
Pairs(token) ==
  (IF token.initial = << >> THEN << >> ELSE <<[phone |-> token.initial, tone |-> token.tone]>>)
    \o <<[phone |-> token.finale, tone |-> token.tone]>>
phone_tone_pairs(sentence) ==
  IF file.phonemes = "espeak" THEN <<[phone |-> sentence, tone |-> <<"_">>]>>
  ELSE FlattenSeq([i \in 1..Len(sentence) |-> Pairs(sentence[i])])

(* One line for each pair.                                                 *)
ToneLine(pairs) ==
  FlattenSeq([i \in 1..Len(pairs) |->
    (IF i = 1 THEN << >> ELSE <<"newline">>) \o pairs[i].phone \o <<":">> \o pairs[i].tone])
MeloPhonemes ==
  IF file.phonemes \in (IF file.phonemes = "espeak" THEN build ELSE engines)
  THEN {[i \in 1..Len(case.text) |-> ToneLine(phone_tone_pairs(case.text[i]))]} ELSE {}

(* Every replacement goes over the whole string before the next one does.  *)
SUBSTITUTIONS ==
  << <<<<"a", "i">>, <<"I">>>>, <<<<"a", "u">>, <<"W">>>>, <<<<"d", "zh">>, <<"dzh">>>>,
     <<<<"e", "i">>, <<"A">>>>, <<<<"t", "sh">>, <<"tsh">>>>, <<<<"oh", "i">>, <<"Y">>>>,
     <<<<"o", "u">>, <<"O">>>>, <<<<"er">>, <<"schwa", "turned r">>>>,
     <<<<"r">>, <<"turned r">>>>, <<<<"x">>, <<"k">>>>, <<<<"cedilla">>, <<"k">>>>,
     <<<<"turned a">>, <<"schwa">>>>, <<<<"belted l">>, <<"l">>>>, <<<<"glottal">>, <<"t">>>>,
     <<<<"n", "syllabic">>, <<"high schwa", "n">>>>, <<<<"palatal">>, << >>>>,
     <<<<"long">>, << >>>> >>
Stands(k, string, i) ==
  LET source == SUBSTITUTIONS[k][1]
  IN i + Len(source) - 1 <= Len(string) /\ SubSeq(string, i, i + Len(source) - 1) = source
(* The string with the given substitutions made in one pass over it.       *)
Substituted(ks, string) ==
  LET from[i \in 1..Len(string) + 1] ==
        IF i > Len(string) THEN << >>
        ELSE IF \E k \in ks : Stands(k, string, i)
        THEN LET k == CHOOSE k \in ks : Stands(k, string, i)
             IN SUBSTITUTIONS[k][2] \o from[i + Len(SUBSTITUTIONS[k][1])]
        ELSE <<string[i]>> \o from[i + 1]
  IN from[1]
espeak_ipa_to_kokoro(sounds) ==
  FoldLeft(LAMBDA string, k : Substituted({k}, string), sounds,
           [k \in 1..Len(SUBSTITUTIONS) |-> k])

PRESET_LANGUAGES == [a |-> "en-US", b |-> "en-GB-x-rp", j |-> "ja", z |-> "cmn", e |-> "es",
                     f |-> "fr", h |-> "hi", i |-> "it", p |-> "pt-BR"]
espeak_language_for_voice(v) ==
  IF Len(v) >= 2 /\ v[1] \in DOMAIN PRESET_LANGUAGES THEN PRESET_LANGUAGES[v[1]] ELSE "none"

(* The first voice is the default.  JapaneseText says how its dictionary   *)
(* reads a text; a build without it leaves Japanese to eSpeak.             *)
spoken_language == espeak_language_for_voice(file.voices[1])
Japanese == spoken_language = "ja" /\ "japanese" \in engines
KokoroPhonemes ==
  CASE spoken_language = "none" -> {}
    [] Japanese -> {case.text}
    [] spoken_language = "ja" /\ "no dictionary" \in engines -> {}
    [] OTHER    -> IF "espeak" \in build
                   THEN {[i \in 1..Len(case.text) |-> espeak_ipa_to_kokoro(case.text[i])]}
                   ELSE {}

PhonemesOfText ==
  CASE Melo -> MeloPhonemes [] Kokoro -> KokoroPhonemes [] OTHER -> PiperPhonemes

phonemize_text ==
  /\ modelStage = "loaded"
  /\ UNCHANGED loadedVars
  /\ \/ \E phonemes \in PhonemesOfText :
          /\ phonemized' = phonemes
          /\ Reach("speaking")
          /\ UNCHANGED <<network, encoded, returnedAudio>>
     \/ /\ file.phonemes # "text"
        /\ Reach("failed")
        /\ UNCHANGED <<phonemized, network, encoded, returnedAudio>>

-----------------------------------------------------------------------------
(* The ids of a sentence                                                   *)

IdMap == file.ids
Usable == {key \in DOMAIN IdMap : key # << >> /\ IdMap[key] # << >>}
first_id(token, default) == IF token \in Usable THEN IdMap[token][1] ELSE default
PAD == <<"_">>
BOS == <<"^">>
EOS == <<"$">>

(* Variant for the mutation runs: a character is read at a time. *)
OneCharacter(c) == 1

(* The longest key there is: of those that begin like this in a Piper      *)
(* voice, of all in the others.                                            *)
longest_entry(c) ==
  Max({Len(key) : key \in {k \in DOMAIN IdMap : k # << >> /\ (Melo \/ Kokoro \/ k[1] = c)}}
        \cup {0})

(* The keys the phonemes are read as: at every place the longest that has  *)
(* an id; where there is none a character is skipped.                      *)
Widths(string, start) ==
  {w \in 1..Min({longest_entry(string[start]), Len(string) - start + 1}) :
     SubSeq(string, start, start + w - 1) \in Usable}
KeysRead(string) ==
  LET from[start \in 1..Len(string) + 1] ==
        IF start > Len(string) THEN << >>
        ELSE LET widths == Widths(string, start)
             IN IF widths = {} THEN from[start + 1]
                ELSE <<SubSeq(string, start, start + Max(widths) - 1)>>
                       \o from[start + Max(widths)]
  IN from[1]

(* get_meta_ids and map_phonemes_to_ids                                    *)
MetaIdsExist == {PAD, BOS, EOS} \subseteq Usable
map_phonemes_to_ids(phonemes) ==
  LET keys == KeysRead(phonemes)
  IN <<first_id(BOS, 0)>>
       \o FlattenSeq([i \in 1..Len(keys) |-> <<IdMap[keys[i]][1], first_id(PAD, 0)>>])
       \o <<first_id(EOS, 0)>>

(* speak_one_sentence of a MeloTTS voice takes the line apart again.       *)
LineTokens(line) ==
  LET cuts == SetToSortSeq({0, Len(line) + 1} \cup {i \in 1..Len(line) : line[i] = "newline"},
                           <)
      parts == [i \in 1..Len(cuts) - 1 |-> SubSeq(line, cuts[i] + 1, cuts[i + 1] - 1)]
  IN SelectSeq(parts, LAMBDA piece : piece # << >>)
PairOf(token) ==
  LET colons == {i \in 1..Len(token) : token[i] = ":"}
  IN IF colons = {} THEN [phone |-> token, tone |-> <<"_">>]
     ELSE [phone |-> SubSeq(token, 1, Max(colons) - 1),
           tone |-> SubSeq(token, Max(colons) + 1, Len(token))]
PairsOf(line) == [i \in 1..Len(LineTokens(line)) |-> PairOf(LineTokens(line)[i])]

ToneId(tone) ==
  IF tone \in DOMAIN file.tones THEN file.tones[tone]
  ELSE IF <<"_">> \in DOMAIN file.tones THEN file.tones[<<"_">>] ELSE 0

map_phone_tone_pairs_to_ids(pairs) ==
  LET blank_tone == ToneId(<<"_">>)
      Phones(pair) ==
        LET keys == KeysRead(pair.phone)
        IN FlattenSeq([i \in 1..Len(keys) |-> <<IdMap[keys[i]][1], first_id(PAD, 0)>>])
      Tones(pair) == FlattenSeq([i \in 1..Len(KeysRead(pair.phone)) |->
                                   <<ToneId(pair.tone), blank_tone>>])
  IN [ids |-> <<first_id(BOS, 0)>>
                \o FlattenSeq([i \in 1..Len(pairs) |-> Phones(pairs[i])])
                \o <<first_id(EOS, 0)>>,
      tones |-> <<blank_tone>>
                  \o FlattenSeq([i \in 1..Len(pairs) |-> Tones(pairs[i])]) \o <<blank_tone>>]

(* synthesize_token_chunk of a sentence that is one piece (KokoroVoice has *)
(* the others): "$" begins and ends it; style_for the number of tokens.    *)
tokenize(string) ==
  LET keys == KeysRead(string) IN [i \in 1..Len(keys) |-> IdMap[keys[i]][1]]
token_ids(phonemes) == <<first_id(EOS, 0)>> \o tokenize(phonemes) \o <<first_id(EOS, 0)>>
style_for(token_len) == Min({token_len - 1, StyleRows - 1})

-----------------------------------------------------------------------------
(* speak_batch: one sentence after the other, the first failure ends it.   *)

Sentence == phonemized[Len(returnedAudio) + 1]
Asks(given) == network' = given /\ Reach("asked")

AsksMelo ==
  LET mapped == map_phone_tone_pairs_to_ids(PairsOf(Sentence))
  IN Asks([NoInput EXCEPT !.ids = mapped.ids, !.tones = mapped.tones, !.speaker = TRUE])

AsksKokoro ==
  Asks([NoInput EXCEPT !.ids = token_ids(Sentence),
                       !.style = style_for(Len(token_ids(Sentence)))])

phonemes_to_input_ids ==
  [NoInput EXCEPT !.ids = map_phonemes_to_ids(Sentence), !.speaker = file.speakers > 1]
AsksPiper == Asks(phonemes_to_input_ids)

BeginSentence ==
  /\ modelStage = "speaking"
  /\ Len(returnedAudio) < Len(phonemized)
  /\ UNCHANGED loadedVars
  /\ \/ Melo /\ AsksMelo
     \/ Kokoro /\ AsksKokoro
     \/ ~Melo /\ ~Kokoro /\ MetaIdsExist /\ AsksPiper
     \/ ~Melo /\ ~Kokoro /\ ~MetaIdsExist /\ Reach("failed") /\ UNCHANGED network
  /\ UNCHANGED <<phonemized, encoded, returnedAudio>>

Return(samples) ==
  IF samples THEN returnedAudio' = Append(returnedAudio, Sentence) /\ Reach("speaking")
  ELSE UNCHANGED returnedAudio /\ Reach("failed")

(* The network fails, or has no such output, or its output is no tensor of *)
(* floats; otherwise the sentence has its samples.                         *)
Infer(voice) ==
  /\ modelStage = "asked" /\ voice
  /\ \E samples \in BOOLEAN : Return(samples)
  /\ UNCHANGED <<case, engines, phonemized, network, encoded>>

infer_with_values == Infer(~Melo /\ ~Kokoro /\ ~file.streaming)
synthesize_phone_tone_pairs == Infer(Melo)
synthesize_token_chunk == Infer(Kokoro)

(* EncoderOutputs::from_values.  An array is known by its dimensions: 0 is *)
(* missing, and a `g` that is missing is empty.                            *)
from_values(z, y_mask, g) ==
  IF z >= 3 /\ y_mask >= 3
  THEN encoded' = [z |-> z, y_mask |-> y_mask, g |-> g] /\ Reach("encoded")
  ELSE UNCHANGED encoded /\ Reach("failed")

infer_encoder ==
  /\ modelStage = "asked"
  /\ ~Melo /\ ~Kokoro /\ file.streaming
  /\ \/ \E z, y_mask \in {0, 2, 3}, g \in {0, 1} : from_values(z, y_mask, g)
     \/ UNCHANGED encoded /\ Reach("failed")
  /\ UNCHANGED <<case, engines, phonemized, network, returnedAudio>>

infer_decoder ==
  /\ modelStage = "encoded"
  /\ \E samples \in BOOLEAN : Return(samples)
  /\ encoded' = NoArrays
  /\ UNCHANGED <<case, engines, phonemized, network>>

(* from_config_path of the three kinds of voice. *)
LoadPiper ==
  \/ load_model_config \/ create_inference_session
  \/ create_tashkeel_engine \/ create_hebrew_engine \/ create_pinyin_engine
LoadMelo == load_config \/ create_backend \/ InnerModel
LoadKokoro == load_kokoro_config \/ Vocab_load \/ VoiceStyles_load \/ create_japanese_dictionary

VoiceNext ==
  \/ read_model_type \/ LoadPiper \/ LoadMelo \/ LoadKokoro
  \/ phonemize_text \/ BeginSentence
  \/ infer_with_values \/ synthesize_phone_tone_pairs \/ synthesize_token_chunk
  \/ infer_encoder \/ infer_decoder

VoiceSpec == VoiceInit /\ [][VoiceNext]_modelVars

-----------------------------------------------------------------------------
(* What a sentence's phonemes are read as, said of the whole: places taken *)
(* by keys that have an id, which do not overlap, none of which could be   *)
(* longer, and with no such key beginning anywhere else.                   *)
KeyPlaces(string) ==
  {p \in (1..Len(string)) \X (1..Len(string)) :
     /\ p[1] + p[2] <= Len(string) + 1
     /\ SubSeq(string, p[1], p[1] + p[2] - 1) \in Usable}
Under(p) == p[1]..(p[1] + p[2] - 1)
IsReading(reading, string) ==
  /\ \A p, q \in reading : p = q \/ Under(p) \cap Under(q) = {}
  /\ \A p \in KeyPlaces(string) :
       \E q \in reading : p[1] \in Under(q) /\ (p[1] = q[1] => p[2] <= q[2])
Reading(string) ==
  LET reading == CHOOSE r \in SUBSET KeyPlaces(string) : IsReading(r, string)
      sorted == SetToSortSeq(reading, LAMBDA p, q : p[1] < q[1])
  IN [i \in 1..Len(sorted) |-> SubSeq(string, sorted[i][1], sorted[i][1] + sorted[i][2] - 1)]

(* What eSpeak says in a Kokoro voice's own phonemes: all substitutions    *)
(* are made where they stand, and none in what another has put there.      *)
Exchanged(sounds) == Substituted(1..Len(SUBSTITUTIONS), sounds)

(* The keys of the sentence as the phonemizer gave them, with their tones. *)
Keys ==
  LET n == Len(returnedAudio) + 1
      Toned(pair) == LET keys == Reading(pair.phone)
                     IN [i \in 1..Len(keys) |-> [key |-> keys[i], tone |-> ToneId(pair.tone)]]
  IN IF Melo
     THEN LET pairs == phone_tone_pairs(case.text[n])
          IN FlattenSeq([i \in 1..Len(pairs) |-> Toned(pairs[i])])
     ELSE Toned([phone |-> IF Kokoro /\ ~Japanese THEN Exchanged(case.text[n])
                           ELSE IF file.phonemes = "text" THEN FlattenSeq(case.text)
                           ELSE case.text[n],
                 tone |-> <<"_">>])

(* The network is given the text: between the begin and the end stand the  *)
(* ids of the longest keys that cover the sentence, in order, and in Piper *)
(* and MeloTTS voices a pad after each; a MeloTTS voice's tones stand at   *)
(* the same places as the phones they belong to; a Kokoro voice's style is *)
(* the one for so many tokens; a speaker is named when there are several.  *)
(* (map_phonemes_to_ids, map_phone_tone_pairs_to_ids, tokenize, and what   *)
(* a phonemizer's output goes through before.)                             *)
NetworkReadsTheText ==
  modelStage \in {"asked", "encoded"} =>
    LET n == Len(Keys)
        stride == IF Kokoro THEN 1 ELSE 2
        length == stride * n + 2
    IN
    /\ Len(network.ids) = length
    /\ network.ids[1] = first_id(IF Kokoro THEN EOS ELSE BOS, 0)
    /\ network.ids[length] = first_id(EOS, 0)
    /\ \A i \in 1..n :
         /\ network.ids[stride * (i - 1) + 2] = IdMap[Keys[i].key][1]
         /\ ~Kokoro => network.ids[2 * i + 1] = first_id(PAD, 0)
    /\ CASE Melo ->
              /\ Len(network.tones) = length
              /\ \A i \in 1..length :
                   network.tones[i] = IF i % 2 = 0 /\ i <= 2 * n THEN Keys[i \div 2].tone
                                      ELSE ToneId(<<"_">>)
         [] Kokoro -> network.style = IF n + 1 < StyleRows THEN n + 1 ELSE StyleRows - 1
         [] OTHER  -> network.speaker <=> file.speakers > 1

(* A voice that was loaded lacks no engine its build has: no text is       *)
(* refused because an engine was not created, and text is only diacritized *)
(* by a build that can.  (phonemize_dispatch, diacritize_text, and the     *)
(* constructors that create the engines.)                                  *)
LoadedVoiceHasItsEngines ==
  modelStage \in {"loaded", "speaking", "asked", "encoded"} =>
    /\ ~Kokoro /\ file.phonemes \in build \cap {"hebrew", "pinyin"}
         => file.phonemes \in engines
    /\ file.arabic /\ "tashkeel" \in build /\ ~Melo /\ ~Kokoro => "tashkeel" \in engines
    /\ Kokoro /\ "japanese" \in build /\ spoken_language = "ja"
         => engines \cap {"japanese", "no dictionary"} # {}

(* A voice that loads can say what it is given, and says nothing else.     *)
VoiceReadsTheText == NetworkReadsTheText /\ LoadedVoiceHasItsEngines
=============================================================================
