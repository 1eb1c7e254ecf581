---------------------------- MODULE JapaneseText ----------------------------
(***************************************************************************)
(* How the Kokoro voice reads Japanese (ja.rs, ja_map.rs): the text is     *)
(* split into sentences, the dictionary's engine turns each into words     *)
(* with their pronunciation in kana, and the words are put together as     *)
(* phonemes with the spaces the network was trained on.                    *)
(*                                                                         *)
(* The engine is external: a text is given as the words it finds.  A word  *)
(* is a mark or has kana, one kana for each kind the code tells apart; its *)
(* number in the text goes with its phonemes.                              *)
(***************************************************************************)
EXTENDS Integers, Sequences, FiniteSets, SequencesExt

CONSTANTS
  JapaneseTexts   (* sequences of words: [surface, kana, chain]            *)

(* A blank is not pronounced: the engine has no kana for it. *)
Blank == {"space", "line break"}
Word == [surface : STRING, kana : Seq(STRING), chain : BOOLEAN]
ASSUME JapaneseAssumption ==
  \A t \in JapaneseTexts :
    t \in Seq(Word) /\ \A i \in DOMAIN t : t[i].surface \in Blank => t[i].kana = << >>

VARIABLES
  jaText,     (* the words of the text, numbered                           *)
  jaRest,     (* words that are in no sentence yet                         *)
  jaWords,    (* words of the sentence that is read                        *)
  jaTokens,   (* Token: what is pushed for it so far                       *)
  readings,   (* the sentences read                                        *)
  jaStage     (* "split", "read", "push", "done" or "failed"               *)

jaVars == <<jaText, jaRest, jaWords, jaTokens, readings, jaStage>>

Numbered(words) ==
  [i \in DOMAIN words |-> [surface |-> words[i].surface, kana |-> words[i].kana,
                           chain |-> words[i].chain, number |-> i]]

JapaneseStarts(texts) ==
  /\ \E t \in texts : jaText = Numbered(t)
  /\ jaRest = jaText
  /\ jaWords = << >> /\ jaTokens = << >> /\ readings = << >>
  /\ jaStage = "split"
JapaneseInit == JapaneseStarts(JapaneseTexts)

-----------------------------------------------------------------------------
(* ja_map.rs.                                                              *)

(* A mora and its phonemes: a vowel, a syllable, a syllable with a glide,  *)
(* the small kana alone, and the three that have no vowel.                 *)
mora_phonemes(m) ==
  CASE m = <<"a">>        -> <<"a">>
    [] m = <<"ga">>       -> <<"g", "a">>
    [] m = <<"ki">>       -> <<"k", "i">>
    [] m = <<"ki", "ya">> -> <<"K'", "a">>
    [] m = <<"ya">>       -> <<"j", "a">>
    [] m = <<"tsu">>      -> <<"?'">>
    [] m = <<"n">>        -> <<"N">>
    [] m = <<"long">>     -> <<":'">>
MoraTable ==
  [m \in {<<"a">>, <<"ga">>, <<"ki">>, <<"ki", "ya">>, <<"ya">>, <<"tsu">>, <<"n">>, <<"long">>} |->
     mora_phonemes(m)]

(* The kana in the table; others (accent marks) are not read. *)
Known(kana) ==
  FlattenSeq([i \in DOMAIN kana |->
    IF <<kana[i]>> \in DOMAIN MoraTable THEN <<kana[i]>> ELSE << >>])

(* Variant for the mutation runs: every kana is a mora. *)
kana_to_moras(kana) == [i \in DOMAIN Known(kana) |-> <<Known(kana)[i]>>]

(* A kana joins the one before if the two are a mora.  No mora has three   *)
(* kana, and none that joins can be joined: pairs do not overlap.          *)
Joins(known, i) == i \in 2..Len(known) /\ <<known[i - 1], known[i]>> \in DOMAIN MoraTable
pron_to_moras(kana) ==
  LET known == Known(kana)
  IN FlattenSeq([i \in DOMAIN known |->
       IF Joins(known, i + 1) THEN << >>
       ELSE IF Joins(known, i) THEN <<<<known[i - 1], known[i]>>>> ELSE <<<<known[i]>>>>])

moras_to_phonemes(moras) == FlattenSeq([i \in DOMAIN moras |-> MoraTable[moras[i]]])

is_tail(symbol) == symbol \in {"a", "i", "?'", "N", ":'"}

(* Symbols the vocabulary lacks are written with those it has. *)
Fitted(symbol) ==
  CASE symbol = "g"  -> <<"G">>
    [] symbol = "K'" -> <<"k", "j'">>
    [] OTHER         -> <<symbol>>
fit_to_vocab(phonemes) ==
  FlattenSeq([i \in DOMAIN phonemes |->
    [j \in DOMAIN Fitted(phonemes[i].symbol) |->
       [symbol |-> Fitted(phonemes[i].symbol)[j], of |-> phonemes[i].of]]])

-----------------------------------------------------------------------------
(* ja.rs.                                                                  *)

(* The wide marks and the mark each is read as. *)
map_punct(surface) ==
  CASE surface = "wide stop"    -> "."
    [] surface = "wide comma"   -> ","
    [] surface = "corner open"  -> "open quote"
    [] surface = "corner close" -> "close quote"
    [] OTHER                    -> surface
PUNCT_STARTS == {"(", "open quote"}
PUNCT_STOPS == {".", ",", ")", "!", "close quote"}
PUNCT_VALUES == PUNCT_STARTS \cup PUNCT_STOPS \cup {"dash"}

set_last_whitespace(ts, space) ==
  IF ts = << >> THEN ts ELSE [ts EXCEPT ![Len(ts)].space = space]

push_punct(ts, mark, number) ==
  LET before == IF mark \in PUNCT_STOPS THEN set_last_whitespace(ts, FALSE)
                ELSE IF mark \in PUNCT_STARTS THEN set_last_whitespace(ts, TRUE)
                ELSE ts
  IN Append(before, [phonemes |-> <<mark>>, space |-> mark \in PUNCT_STOPS, number |-> number,
                     voiced |-> FALSE, chained |-> FALSE, nasal |-> FALSE])

push_word(ts, w) ==
  LET mark == map_punct(w.surface)
      moras == pron_to_moras(w.kana)
      voiced == moras # << >>
  IN IF ~voiced /\ mark \in PUNCT_VALUES THEN push_punct(ts, mark, w.number)
     ELSE IF mark \in Blank \/ (~voiced /\ mark = "middle dot")
     THEN set_last_whitespace(ts, TRUE)
     ELSE Append(ts, [phonemes |-> moras_to_phonemes(moras), space |-> FALSE,
                      number |-> w.number, voiced |-> voiced,
                      chained |-> /\ voiced /\ ts # << >> /\ Last(ts).voiced
                                  /\ w.chain \/ moras[1] = <<"long">>,
                      nasal |-> voiced /\ moras[1] = <<"n">>])

Space == [symbol |-> " ", of |-> 0]

needs_separator(token, out) ==
  /\ token.voiced /\ ~token.chained /\ ~token.nasal
  /\ out # << >> /\ is_tail(Last(out).symbol)

(* A word without kana leaves nothing, not even its space. *)
JoinedToken(out, token) ==
  LET uttered == [i \in DOMAIN token.phonemes |->
                   [symbol |-> token.phonemes[i], of |-> token.number]]
  IN IF uttered = << >> THEN out
     ELSE out \o (IF needs_separator(token, out) THEN <<Space>> ELSE << >>) \o uttered
              \o (IF token.space THEN <<Space>> ELSE << >>)

(* At most one space can stand at the end. *)
TrimmedEnd(out) == IF out # << >> /\ Last(out) = Space THEN Front(out) ELSE out
assemble ==
  LET joined[n \in 0..Len(jaTokens)] ==
        IF n = 0 THEN << >> ELSE JoinedToken(joined[n - 1], jaTokens[n])
  IN TrimmedEnd(joined[Len(jaTokens)])

-----------------------------------------------------------------------------
(* split_sentences: a sentence goes up to its end mark. *)
EndsSentence(w) == w.surface \in {"wide stop", "!", "line break"}
FirstSentence ==
  LET ends == {i \in DOMAIN jaRest : EndsSentence(jaRest[i])}
  IN IF ends = {} THEN Len(jaRest) ELSE CHOOSE i \in ends : \A j \in ends : i <= j

(* The blanks around it are trimmed. *)
TrimmedWords(words) ==
  LET solid == {i \in DOMAIN words : words[i].surface \notin Blank}
  IN IF solid = {} THEN << >>
     ELSE SubSeq(words, CHOOSE i \in solid : \A j \in solid : i <= j,
                        CHOOSE i \in solid : \A j \in solid : i >= j)

SplitSentence ==
  /\ jaStage = "split" /\ jaRest # << >>
  /\ jaWords' = TrimmedWords(SubSeq(jaRest, 1, FirstSentence))
  /\ jaRest' = SubSeq(jaRest, FirstSentence + 1, Len(jaRest))
  /\ jaTokens' = << >>
  /\ jaStage' = IF jaWords' = << >> THEN "split" ELSE "read"
  /\ UNCHANGED <<jaText, readings>>

ReadSentence ==
  /\ jaStage = "read"
  /\ jaStage' = "push"
  /\ UNCHANGED <<jaText, jaRest, jaWords, jaTokens, readings>>

(* The engine refuses the sentence or panics, which catch_phonemization    *)
(* turns into an error: the text has no reading.                           *)
FailSentence ==
  /\ jaStage = "read"
  /\ jaStage' = "failed" /\ readings' = << >>
  /\ UNCHANGED <<jaText, jaRest, jaWords, jaTokens>>

PushWord ==
  /\ jaStage = "push" /\ jaWords # << >>
  /\ jaTokens' = push_word(jaTokens, Head(jaWords))
  /\ jaWords' = Tail(jaWords)
  /\ UNCHANGED <<jaText, jaRest, readings, jaStage>>

(* A sentence that says nothing is left out. *)
FinishSentence ==
  /\ jaStage = "push" /\ jaWords = << >>
  /\ readings' = IF assemble = << >> THEN readings
                 ELSE Append(readings, fit_to_vocab(assemble))
  /\ jaStage' = "split"
  /\ UNCHANGED <<jaText, jaRest, jaWords, jaTokens>>

FinishText ==
  /\ jaStage = "split" /\ jaRest = << >>
  /\ jaStage' = "done"
  /\ UNCHANGED <<jaText, jaRest, jaWords, jaTokens, readings>>

JapaneseNext ==
  SplitSentence \/ ReadSentence \/ FailSentence \/ PushWord \/ FinishSentence \/ FinishText

JapaneseSpec == JapaneseInit /\ [][JapaneseNext]_jaVars

-----------------------------------------------------------------------------
(* Properties.                                                             *)

(* The vowels, glottal stops, nasals and lengths of a word: its morae.     *)
MorasOf(kana) ==
  LET known == Known(kana)
      Glide(i) == i \in 2..Len(known) /\ known[i] = "ya" /\ known[i - 1] = "ki"
  IN FlattenSeq([i \in DOMAIN known |->
       IF Glide(i + 1) THEN << >> ELSE <<Last(MoraTable[<<known[i]>>])>>])

HeardMoras(number) ==
  LET told == FlattenSeq(readings)
  IN FlattenSeq([i \in DOMAIN told |->
       IF told[i].of = number /\ is_tail(told[i].symbol) THEN <<told[i].symbol>> ELSE << >>])

(* Every mora of a word that has kana is read, once and in its order, and  *)
(* the words are in the order of the text.                                 *)
MorasAreAllRead ==
  /\ jaStage = "done" => \A i \in DOMAIN jaText : HeardMoras(i) = MorasOf(jaText[i].kana)
  /\ LET told == FlattenSeq(readings)
     IN \A i, j \in DOMAIN told :
          i < j /\ told[i] # Space /\ told[j] # Space => told[i].of <= told[j].of

(* Two words run together only if the second is chained to the first or    *)
(* begins with a nasal; there are no two spaces in a row and none at       *)
(* either end, and the tokenizer knows every symbol.                       *)
IsVoiced(p) == p # Space /\ pron_to_moras(jaText[p.of].kana) # << >>
MayFollow(w) == w.chain \/ Head(pron_to_moras(w.kana)) \in {<<"long">>, <<"n">>}
WordsStandApart ==
  \A r \in Range(readings) :
    /\ r[1] # Space /\ Last(r) # Space
    /\ \A i \in DOMAIN r : r[i].symbol \notin {"g", "K'"}
    /\ \A i \in 1..(Len(r) - 1) :
         /\ r[i] = Space => r[i + 1] # Space
         /\ (IsVoiced(r[i]) /\ IsVoiced(r[i + 1]) /\ r[i].of # r[i + 1].of)
              => MayFollow(jaText[r[i + 1].of])

(* A Japanese text is read through: no mora is lost, doubled or moved, and *)
(* words do not melt into one another.                                     *)
JapaneseIsReadThrough == MorasAreAllRead /\ WordsStandApart
=============================================================================
