--------------------------- MODULE PinyinSentence ---------------------------
(***************************************************************************)
(* text_to_pinyin_tokens: a text loses its quotation marks, is cut into    *)
(* sentences, and every character gets its syllable.  A polyphonic one is  *)
(* shown to the g2pW network in a window of the sentence, which is cut     *)
(* into tokens, which are cut to the length the network takes.             *)
(* Characters are known by their kind: "poly" and "mono" are in the        *)
(* dictionaries, "latin" are letters and digits that run together to       *)
(* words, "wide" is a letter that has two characters in lower case (as the *)
(* Turkish dotted I), "stop" ends a sentence.  Numbers were read before    *)
(* (NumberWords).                                                          *)
(***************************************************************************)
EXTENDS Integers, SequencesExt

CONSTANTS
  CharacterKinds,
  MaxText,      (* longest text                                            *)
  window_size,  (* characters around a polyphone                           *)
  max_len       (* tokens the network takes, [CLS] and [SEP] included      *)

ASSUME WindowAssumption == MaxText \in Nat /\ window_size \in Nat /\ max_len \in Nat

VARIABLES
  pinyin,       (* "splitting", "reading", "done" or "failed"              *)
  remaining,    (* text that is not read yet                                *)
  chars,        (* the sentence that is read                               *)
  charIndex,    (* its next character                                      *)
  syllables,    (* what was made of it                                     *)
  asked         (* what the network was last shown                         *)

pinyinVars == <<pinyin, remaining, chars, charIndex, syllables, asked>>

Nothing == [ids |-> << >>, position |-> 0, of |-> 0]

PinyinStarts(texts) ==
  /\ remaining \in texts
  /\ pinyin = "splitting"
  /\ chars = << >> /\ charIndex = 1 /\ syllables = << >> /\ asked = Nothing
PinyinInit == PinyinStarts(UNION {[1..n -> CharacterKinds] : n \in 1..MaxText})

-----------------------------------------------------------------------------
(* strip_quotation_marks and split_into_sentences.                         *)

Stripped(t) ==
  FlattenSeq([i \in DOMAIN t |-> IF t[i] = "quote" THEN << >> ELSE <<t[i]>>])

(* A sentence goes up to its end mark. *)
SentenceEnd ==
  LET stops == {i \in DOMAIN remaining : remaining[i] = "stop"}
  IN IF stops = {} THEN Len(remaining) ELSE Min(stops)

Split ==
  /\ pinyin = "splitting"
  /\ pinyin' = "reading"
  /\ remaining' = Stripped(remaining)
  /\ UNCHANGED <<chars, charIndex, syllables, asked>>

NextSentence ==
  /\ pinyin = "reading"
  /\ charIndex > Len(chars)
  /\ IF remaining = << >>
     THEN pinyin' = "done" /\ UNCHANGED <<remaining, chars, charIndex, syllables, asked>>
     ELSE /\ chars' = SubSeq(remaining, 1, SentenceEnd)
          /\ remaining' = SubSeq(remaining, SentenceEnd + 1, Len(remaining))
          /\ charIndex' = 1
          /\ syllables' = << >>
          /\ asked' = Nothing
          /\ UNCHANGED pinyin

-----------------------------------------------------------------------------
(* resolve_char: dictionaries, punctuation, and what is left out.          *)

Reads(kinds) == pinyin = "reading" /\ charIndex <= Len(chars) /\ chars[charIndex] \in kinds
Gives(kind) == /\ syllables' = Append(syllables, [kind |-> kind, of |-> charIndex])
               /\ charIndex' = charIndex + 1
               /\ UNCHANGED <<pinyin, remaining, chars>>

(* A bopomofo without pinyin, or a pinyin that is no syllable, is passed   *)
(* through.                                                                *)
ReadFromDictionary ==
  /\ Reads({"mono"})
  /\ \E kind \in {"syllable", "passthrough"} : Gives(kind)
  /\ UNCHANGED asked

PassPunctuation ==
  /\ Reads({"stop", "space"})
  /\ Gives("passthrough")
  /\ UNCHANGED asked

LeaveOut ==
  /\ Reads({"latin", "wide"})
  /\ charIndex' = charIndex + 1
  /\ UNCHANGED <<pinyin, remaining, chars, syllables, asked>>

-----------------------------------------------------------------------------
(* resolve_polyphonic.  Positions in sequences count from 1 here and from  *)
(* 0 in the code; start, query and token_position are the code's.          *)

Least(a, b) == IF a < b THEN a ELSE b
Most(a, b) == IF a < b THEN b ELSE a

half == window_size \div 2
win_start == Most(charIndex - 1 - half, 0)
win_end == Least(charIndex - 1 + half, Len(chars))

(* The window in lower case; every character remembers whose it is. *)
Lowered ==
  LET Lower(i) ==
        IF chars[i] = "wide" THEN <<[kind |-> "latin", of |-> i], [kind |-> "other", of |-> i]>>
        ELSE <<[kind |-> chars[i], of |-> i]>>
  IN FlattenSeq([k \in 1..(win_end - win_start) |-> Lower(win_start + k)])

(* wordize: a run of latin is a word, a space none, all else a word each. *)
Latin(t, i) == i \in DOMAIN t /\ t[i].kind = "latin"
WordEnd(t, i) == IF Latin(t, i) THEN Max({j \in i..Len(t) : \A k \in i..j : Latin(t, k)}) ELSE i
Words(t) ==
  FlattenSeq([i \in DOMAIN t |->
    IF t[i].kind = "space" \/ (Latin(t, i) /\ Latin(t, i - 1)) THEN << >>
    ELSE <<<<i, WordEnd(t, i)>>>>])

(* The tokenizer cuts words into pieces of some longest size; 0 is an      *)
(* unknown word, which stays one token.                                    *)
Pieces(w, longest) ==
  IF longest = 0 THEN <<w>>
  ELSE [n \in 1..((w[2] - w[1]) \div longest + 1) |->
          <<w[1] + (n - 1) * longest, Least(w[1] + n * longest - 1, w[2])>>]
TokensOf(t, longest) ==
  LET words == Words(t) IN FlattenSeq([n \in DOMAIN words |-> Pieces(words[n], longest)])

Covers(token, i) == i \in token[1]..token[2]

(* truncate_tokens_around_position. *)
keep == max_len - 2
token_start(count, position) ==
  IF count <= keep THEN 0 ELSE Least(Most(position - keep \div 2, 0), count - keep)
token_end(count, position) == Least(token_start(count, position) + keep, count)

(* Variant: the position is not moved with the tokens. *)
position_unmoved(count, position) == position + 1
position_id(count, position) == position - token_start(count, position) + 1

(* The label is looked up in bopomofo_to_pinyin like the dictionaries'. *)
AskNetwork(longest) ==
  Reads({"poly"}) /\
  LET shown == Lowered
      cut == TokensOf(shown, longest)
      query == charIndex - win_start
      covering == {n \in DOMAIN cut : Covers(cut[n], query)}
      position == (CHOOSE n \in covering : TRUE) - 1
      kept == SubSeq(cut, token_start(Len(cut), position) + 1,
                             token_end(Len(cut), position))
      Seen(token) == {shown[i].of : i \in token[1]..token[2]}
  IN /\ covering # {} /\ keep > 0
     /\ asked' = [ids |-> <<{}>> \o [n \in DOMAIN kept |-> Seen(kept[n])] \o <<{}>>,
                  position |-> position_id(Len(cut), position) + 1,
                  of |-> charIndex]
     /\ \E kind \in {"syllable", "passthrough"} : Gives(kind)

(* No token at the query, no room for one, or the inference fails: the     *)
(* text has no phonemes.                                                   *)
AskFails ==
  /\ Reads({"poly"})
  /\ pinyin' = "failed"
  /\ UNCHANGED <<remaining, chars, charIndex, syllables, asked>>

PinyinNext ==
  \/ Split \/ NextSentence
  \/ ReadFromDictionary \/ PassPunctuation \/ LeaveOut
  \/ (\E longest \in 0..2 : AskNetwork(longest)) \/ AskFails
PinyinSpec == PinyinInit /\ [][PinyinNext]_pinyinVars

-----------------------------------------------------------------------------
(* A letter that grows in lower case moves what comes after it in the      *)
(* window, and the position of the query does not follow.                  *)
Shifted == \E i \in DOMAIN chars : chars[i] = "wide"

(* Wherever in the sentence a polyphone is, and however the window, the    *)
(* words and pieces around it and the limit of the network cut the         *)
(* sentence, the network is asked at the position of a token of that very  *)
(* character, and never shown more than it takes (truncate_window,         *)
(* tokenize_and_map, truncate_tokens_around_position).                     *)
PolyphoneIsAskedAbout ==
  asked # Nothing /\ ~Shifted =>
    /\ asked.position \in DOMAIN asked.ids
    /\ asked.of \in asked.ids[asked.position]
    /\ Len(asked.ids) <= max_len
=============================================================================
