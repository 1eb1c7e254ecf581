------------------------------ MODULE MCModels ------------------------------
(***************************************************************************)
(* One model for the parts on the way from a text to a voice's samples:    *)
(* the phonemizers, a voice's loading, settings and ids, a Kokoro sentence,*)
(* the windows of a Piper sentence and the buffers of its samples.  They   *)
(* share no state, so a behaviour runs one of them, chosen at the start,   *)
(* and the others rest in an initial state.                                *)
(***************************************************************************)
EXTENDS MelChunker, VoiceSettings, KokoroVoice, EspeakPhonemizer, NumberWords, HebrewWord,
        PinyinSentence, MCVoiceModel, JapaneseText, AudioBuffer

(* Three Kokoro voices, the last of a language it does not know. *)
MCPreset == <<"a", "b", "x">>
MCLanguageOf == [a |-> "en", b |-> "ja", x |-> "none"]

(* Lines of one sentence and of two, and one that is refused. *)
LOCAL Long == [nul |-> FALSE, ends |-> <<"clause", "sentence", "clause">>]
LOCAL Short == [nul |-> FALSE, ends |-> <<"sentence">>]
LOCAL Refused == [nul |-> TRUE, ends |-> <<"clause">>]
MCSpokenTexts == {<< >>, <<Long>>, <<Long, Short>>, <<Short, Long>>, <<Short, Refused>>}

(* Short sentences of all marks; numbers of all lengths with zeros in      *)
(* every place; years; fractions with and without a unit.                  *)
LOCAL Sentences3 == UNION {[1..n -> {"0", "1", "5", "-", ".", "%", "celsius", "nian", " "}] :
                             n \in 0..3}
LOCAL Numbers == UNION {[1..n -> {"0", "1", "5"}] : n \in 4..6}
                   \cup UNION {[1..n -> {"0", "3"}] : n \in 7..9}
LOCAL Years == {Append(y, "nian") : y \in [1..4 -> {"0", "2"}] \cup [1..3 -> {"0", "2"}]}
LOCAL Fractions == {w \o <<".">> \o f \o <<u>> : w \in [1..2 -> {"0", "5"}],
                      f \in [1..2 -> {"0", "1"}], u \in {"%", "celsius", ".", "nian"}}
MCTexts == Sentences3 \cup Numbers \cup Years \cup Fractions

(* All Japanese texts of up to three words, of every kind of mark and of   *)
(* words with a glide, a nasal, a length or an accent mark.                *)
LOCAL JapaneseWords ==
  [surface : {"word"}, chain : BOOLEAN,
   kana : {<<"ki", "ya", "a">>, <<"n", "ga">>, <<"long", "ki">>, <<"mark", "ya", "tsu">>}]
  \cup [surface : {"word", "wide stop", "wide comma", "corner open", "dash", "space",
                   "middle dot", "line break", "!"}, chain : {FALSE}, kana : {<< >>}]
MCJapaneseTexts == UNION {[1..n -> JapaneseWords] : n \in 0..3}

(* Sounds of silence, of samples below and above the threshold, louder     *)
(* than full scale, and of what is no number.                              *)
LOCAL Levels == {0, 12, 400, -1500, Infinite, NotANumber}
MCBufferSounds == UNION {[1..n -> Levels] : n \in 0..2}
                    \cup {<<400, 12, a, b>> : a, b \in Levels} \cup {<<400, -1500, 12, 400, 0>>}
MCSecondSounds == {<< >>, <<400>>, <<-1500, 12, 400>>}

(* Hebrew words of up to two letters of every kind, and longer pointed     *)
(* ones of the glyphs whose consonants move: shevas that are heard or      *)
(* silent, mute letters, and letters that are read together.               *)
LOCAL HebrewGlyph(letter, dagesh, vowel) == [letter |-> letter, dagesh |-> dagesh, vowel |-> vowel]
LOCAL MovingGlyphs ==
  {HebrewGlyph("bet", FALSE, vowel) : vowel \in {"none", "sheva", "patah", "hiriq"}}
    \cup {HebrewGlyph("bet", TRUE, "sheva"), HebrewGlyph("alef", FALSE, "sheva"),
          HebrewGlyph("vav", FALSE, "holam")}
    \cup {HebrewGlyph(letter, FALSE, "none") : letter \in {"yod", "he", "gimel", "geresh"}}
MCHebrewWords == UNION {[1..n -> Glyph] : n \in 1..MaxLetters}
                   \cup {w \in UNION {[1..n -> MovingGlyphs] : n \in 3..4} : Pointed(w)}

VARIABLE part   (* the part that runs *)

ChunkerRests ==
  /\ frames = CHOOSE n \in FrameCounts : TRUE
  /\ base = 0 /\ size = 0 /\ padding = 0
KokoroRests == selected = 0 /\ chunkSize = 0

MCInit ==
  /\ part \in {"settings", "kokoro", "chunker", "espeak", "numbers", "hebrew", "pinyin", "voice",
              "japanese", "buffer"}
  /\ Init /\ (part = "chunker" \/ ChunkerRests)
  /\ KokoroInit /\ (part = "kokoro" \/ KokoroRests)
  /\ SettingsInit
  /\ IF part = "espeak" THEN EspeakInit
     ELSE EspeakStarts({[language |-> UnknownLanguage, lines |-> << >>]})
  /\ IF part = "numbers" THEN NumberInit ELSE NumberStarts({<<"1">>})
  /\ IF part = "hebrew" THEN HebrewStarts(MCHebrewWords) ELSE HebrewStarts({<<CHOOSE g \in Glyph : TRUE>>})
  /\ IF part = "pinyin" THEN PinyinInit ELSE PinyinStarts({<<"stop">>})
  /\ IF part = "voice" THEN VoiceInit ELSE VoiceStarts(MCQuietVoice)
  /\ IF part = "japanese" THEN JapaneseInit ELSE JapaneseStarts({<< >>})
  /\ IF part = "buffer" THEN BufferInit ELSE BufferStarts({<< >>}, {<< >>}) /\ channels = 1

MCNext ==
  /\ UNCHANGED part
  /\ \/ /\ part = "chunker" /\ Next
        /\ UNCHANGED <<kokoroVars, settingsVars, espeakVars, numberVars, hebrewVars,
                       pinyinVars, modelVars, jaVars, bufferVars>>
     \/ /\ part = "kokoro" /\ KokoroNext
        /\ UNCHANGED <<vars, settingsVars, espeakVars, numberVars, hebrewVars,
                       pinyinVars, modelVars, jaVars, bufferVars>>
     \/ /\ part = "settings" /\ SettingsNext
        /\ UNCHANGED <<vars, kokoroVars, espeakVars, numberVars, hebrewVars,
                       pinyinVars, modelVars, jaVars, bufferVars>>
     \/ /\ part = "espeak" /\ EspeakNext
        /\ UNCHANGED <<vars, kokoroVars, settingsVars, numberVars, hebrewVars,
                       pinyinVars, modelVars, jaVars, bufferVars>>
     \/ /\ part = "numbers" /\ NumberNext
        /\ UNCHANGED <<vars, kokoroVars, settingsVars, espeakVars, hebrewVars,
                       pinyinVars, modelVars, jaVars, bufferVars>>
     \/ /\ part = "hebrew" /\ HebrewNext
        /\ UNCHANGED <<vars, kokoroVars, settingsVars, espeakVars, numberVars,
                       pinyinVars, modelVars, jaVars, bufferVars>>
     \/ /\ part = "pinyin" /\ PinyinNext
        /\ UNCHANGED <<vars, kokoroVars, settingsVars, espeakVars, numberVars,
                       hebrewVars, modelVars, jaVars, bufferVars>>
     \/ /\ part = "voice" /\ VoiceNext
        /\ UNCHANGED <<vars, kokoroVars, settingsVars, espeakVars, numberVars,
                       hebrewVars, pinyinVars, jaVars, bufferVars>>
     \/ /\ part = "japanese" /\ JapaneseNext
        /\ UNCHANGED <<vars, kokoroVars, settingsVars, espeakVars, numberVars,
                       hebrewVars, pinyinVars, modelVars, bufferVars>>
     \/ /\ part = "buffer" /\ BufferNext
        /\ UNCHANGED <<vars, kokoroVars, settingsVars, espeakVars, numberVars,
                       hebrewVars, pinyinVars, modelVars, jaVars>>

MCVars == <<part, vars, kokoroVars, settingsVars, espeakVars, numberVars, hebrewVars, pinyinVars,
            modelVars, jaVars, bufferVars>>
MCSpec == MCInit /\ [][MCNext]_MCVars
=============================================================================
