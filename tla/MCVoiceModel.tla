---------------------------- MODULE MCVoiceModel ----------------------------
(***************************************************************************)
(* Voices and texts for VoiceModel: builds with all features, with none    *)
(* and with each one missing; configurations of every kind of voice and    *)
(* with every part missing; id maps in which keys overlap, have no id or   *)
(* are missing, with all short strings over them.                          *)
(***************************************************************************)
EXTENDS VoiceModel

LOCAL Features == {"espeak", "tashkeel", "hebrew", "pinyin", "japanese"}
LOCAL Builds == {Features, {}} \cup {Features \ {f} : f \in Features}
LOCAL States == {"missing", "garbled", "partial", "whole"}

LOCAL Meta == {<<"_">>, <<"^">>, <<"$">>}
LOCAL Overlapping == {<<"a">>, <<"b">>, <<"a", "b">>, <<"b", "a">>}
LOCAL KeyOrder == <<<<"a">>, <<"b">>, <<"a", "b">>, <<"b", "a">>, <<":">>, <<"_">>, <<"^">>,
                    <<"$">>>>
LOCAL AllKeys == Range(KeyOrder)
LOCAL IdMapOf(known, listed) ==
  [k \in known |-> IF k \in listed THEN <<CHOOSE i \in DOMAIN KeyOrder : KeyOrder[i] = k>>
                   ELSE << >>]

LOCAL Whole ==
  [type |-> "none", state |-> "whole", phonemes |-> "espeak", arabic |-> FALSE,
   engine |-> TRUE, inside |-> TRUE, voices |-> << >>, streaming |-> FALSE, speakers |-> 1,
   ids |-> IdMapOf(AllKeys, AllKeys), tones |-> [t \in {} |-> 0]]
LOCAL TwoSentences == <<<<"a">>, <<"b">>>>
LOCAL Cases(builds, texts, files) == [build : builds, text : texts, file : files]

LOCAL PiperCases ==
  Cases({Features}, {TwoSentences},
        {[Whole EXCEPT !.type = t, !.state = s] : t \in {"piper", "vits", "other", "none"},
                                                  s \in States})
  \cup Cases(Builds, {TwoSentences},
        {[Whole EXCEPT !.phonemes = p, !.arabic = a, !.engine = e, !.streaming = st,
                       !.speakers = n] :
           p \in {"none", "espeak", "text", "hebrew", "pinyin"}, a \in BOOLEAN,
           e \in BOOLEAN, st \in BOOLEAN, n \in 1..2})
  \cup Cases({{"espeak"}}, {TwoSentences},
             {[Whole EXCEPT !.ids = IdMapOf(AllKeys, AllKeys \ {k})] : k \in Meta})
LOCAL MappedCases ==
  Cases({{"espeak"}}, {<<s>> : s \in UNION {[1..i -> {"a", "b"}] : i \in 0..4}},
        {[Whole EXCEPT !.ids = IdMapOf(Meta \cup known, Meta \cup listed)] :
           known \in SUBSET Overlapping, listed \in SUBSET Overlapping})

LOCAL Syllable == [initial : {<< >>, <<"a">>},
                   finale : {<<"b">>, <<"b", "a">>, <<":">>, <<"a", ":">>},
                   tone : {<<"1">>, <<"_">>, <<"9">>}]
LOCAL MeloVoice == [Whole EXCEPT !.type = "melotts", !.phonemes = "pinyin"]
LOCAL MeloTones == {[t \in {} |-> 0],
                    [t \in {<<"1">>, <<"_">>} |-> IF t = <<"1">> THEN 1 ELSE 6]}
LOCAL MeloCases ==
  Cases(Builds, {<<<<[initial |-> <<"a">>, finale |-> <<"b">>, tone |-> <<"1">>]>>, << >>>>},
        {[MeloVoice EXCEPT !.state = s, !.inside = i] : s \in States, i \in BOOLEAN})
  \cup Cases(Builds, {TwoSentences}, {[MeloVoice EXCEPT !.phonemes = "espeak"]})
  \cup Cases({{"pinyin"}}, {<<t>> : t \in UNION {[1..n -> Syllable] : n \in 1..2}},
        {[MeloVoice EXCEPT !.ids = m, !.tones = t] :
           m \in {Whole.ids, IdMapOf(AllKeys \ Meta, {<<"a">>, <<"a", "b">>})},
           t \in MeloTones})

LOCAL Sounds == {"a", "i", "t", "sh", "glottal", "long", "n", "syllabic", "er", "r"}
LOCAL Tokens == <<"$", "a", "i", "t", "sh", "glottal", "n", "er", "I", "tsh", "schwa",
                  "turned r", "high schwa">>
LOCAL Vocabulary == [k \in {<<t>> : t \in Range(Tokens)} |->
                       <<CHOOSE i \in DOMAIN Tokens : <<Tokens[i]>> = k>>]
LOCAL KokoroOf == [Whole EXCEPT !.type = "kokoro", !.ids = Vocabulary,
                                !.voices = <<<<"a", "f">>>>]
LOCAL VoiceNames == {<<"a", "f">>, <<"j", "f">>, <<"j">>, <<"x", "f">>, <<".", ".">>,
                     <<"a", "/", "f">>}
LOCAL KokoroCases ==
  Cases(Builds, {<<<<"a", "i", "er">>, <<"n">>>>},
        {[KokoroOf EXCEPT !.voices = v, !.engine = e] :
           v \in {<< >>} \cup {<<n>> : n \in VoiceNames}
                 \cup {<<<<"a", "f">>, n>> : n \in VoiceNames},
           e \in BOOLEAN})
  \cup Cases({Features}, {TwoSentences},
        {[KokoroOf EXCEPT !.state = s, !.inside = i, !.ids = m] :
           s \in States, i \in BOOLEAN,
           m \in {Vocabulary, Whole.ids, IdMapOf({<<"a">>}, {<<"a">>})}})
  \cup Cases({{"espeak"}}, {<<t>> : t \in UNION {[1..n -> Sounds] : n \in 0..3}}, {KokoroOf})

MCVoiceCases == PiperCases \cup MappedCases \cup MeloCases \cup KokoroCases
(* One voice that rests while another part of the system runs. *)
MCQuietVoice == {[build |-> {}, file |-> Whole, text |-> << >>]}
=============================================================================
