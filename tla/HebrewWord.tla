----------------------------- MODULE HebrewWord -----------------------------
(***************************************************************************)
(* text_to_hebrew_phonemes of the Hebrew phonemizer, for one word: points  *)
(* are taken as written or put in by the Nakdimon network, the glyphs are  *)
(* read into segments (consonants around a vowel), every sheva is decided  *)
(* to be heard or silent, and the segments are joined.  A glyph is a       *)
(* letter with its points: whether it has a dagesh, and one of the vowel   *)
(* points, "patah" for all that sound for themselves.  Letters that are    *)
(* treated alike are one: "bet" is any ordinary consonant, "alef" also     *)
(* ayin.                                                                   *)
(***************************************************************************)
EXTENDS Naturals, SequencesExt

CONSTANTS
  Letters,      (* {"bet", "alef", "he", "vav", "yod", "gimel", "geresh"}  *)
  MaxLetters    (* longest word                                            *)

ASSUME LengthAssumption == MaxLetters \in Nat

VARIABLES
  hebrew,     (* "given", "reading", "deciding", "heard" or "failed"       *)
  word,       (* the letters as given, pointed or not                      *)
  glyphs,     (* the pointed glyphs, with their places in the word         *)
  looked,     (* the glyph, later the segment, that is looked at           *)
  onset,      (* consonants read since the last vowel                      *)
  segments,
  silenced,   (* whether the sheva before was silent                       *)
  ipa         (* the sounds of the word                                    *)

hebrewVars == <<hebrew, word, glyphs, looked, onset, segments, silenced, ipa>>

Vowel == {"none", "sheva", "patah", "hiriq", "holam"}
CanTakePoints == Letters \ {"geresh"}
CanTakeDagesh == CanTakePoints \ {"alef"}
Glyph == {g \in [letter : Letters, dagesh : BOOLEAN, vowel : Vowel] :
            /\ g.dagesh => g.letter \in CanTakeDagesh
            /\ g.vowel # "none" => g.letter \in CanTakePoints}

is_niqqud(g) == g.vowel # "none" \/ g.dagesh
Pointed(w) == \E i \in DOMAIN w : is_niqqud(w[i])

HebrewStarts(words) ==
  /\ word \in words
  /\ hebrew = "given"
  /\ glyphs = << >> /\ looked = 1 /\ onset = << >> /\ segments = << >>
  /\ silenced = FALSE /\ ipa = << >>
HebrewInit == HebrewStarts(UNION {[1..n -> Glyph] : n \in 1..MaxLetters})

-----------------------------------------------------------------------------
(* Points: as written, or one choice of the network for every letter that  *)
(* can take them; it may also answer with tensors of the wrong shape.      *)

(* apply_geresh_digraphs: gimel and geresh become one affricate that has   *)
(* the points of both.                                                     *)
Digraph(w, i) == /\ i \in 1..(Len(w) - 1)
                 /\ w[i].letter = "gimel" /\ w[i + 1].letter = "geresh"
Placed(w, i) ==
  [letter |-> IF Digraph(w, i) THEN "affricate" ELSE w[i].letter,
   dagesh |-> w[i].dagesh, vowel |-> w[i].vowel, place |-> i]
Collapsed(w) ==
  FlattenSeq([i \in DOMAIN w |-> IF Digraph(w, i - 1) THEN << >> ELSE <<Placed(w, i)>>])

Read(pointed) ==
  /\ hebrew' = "reading"
  /\ glyphs' = Collapsed(pointed)
  /\ UNCHANGED <<word, looked, onset, segments, silenced, ipa>>

TakePoints == hebrew = "given" /\ Pointed(word) /\ Read(word)

(* What the network can answer for a letter: a vowel point, or a dagesh    *)
(* from either of its two tables; its no answer and its rafe are "none".   *)
niqqud_classes == Vowel \cup {"dagesh"}
dagesh_classes == BOOLEAN

(* A letter takes of the answers what it can: alef a dagesh in the place   *)
(* of a vowel point only, geresh nothing.                                  *)
merge_diacritics(letters, niqqud, dagesh) ==
  [i \in DOMAIN letters |->
     LET point == IF letters[i].letter \in CanTakePoints THEN niqqud[i] ELSE "none"
     IN [letter |-> letters[i].letter,
         dagesh |-> \/ letters[i].letter \in CanTakeDagesh /\ dagesh[i]
                    \/ point = "dagesh",
         vowel  |-> IF point = "dagesh" THEN "none" ELSE point]]

Diacritize ==
  /\ hebrew = "given" /\ ~Pointed(word)
  /\ \E niqqud \in [DOMAIN word -> niqqud_classes], dagesh \in [DOMAIN word -> dagesh_classes] :
       Read(merge_diacritics(word, niqqud, dagesh))

DiacritizeFails ==
  /\ hebrew = "given" /\ ~Pointed(word)
  /\ hebrew' = "failed"
  /\ UNCHANGED <<word, glyphs, looked, onset, segments, silenced, ipa>>

-----------------------------------------------------------------------------
(* word_to_segments.                                                       *)

More == hebrew = "reading" /\ looked <= Len(glyphs)
Here == glyphs[looked]
IsShuruk == Here.letter = "vav" /\ Here.dagesh /\ Here.vowel = "none"
IsHolamMale == Here.letter = "vav" /\ Here.vowel = "holam" /\ ~Here.dagesh
IsHiriqYod == /\ Here.vowel = "hiriq"
              /\ looked < Len(glyphs)
              /\ glyphs[looked + 1].letter = "yod" /\ glyphs[looked + 1].vowel = "none"

(* The sound of the glyph's letter: none of geresh, nor of a final he      *)
(* without a dagesh.                                                       *)
Consonant ==
  IF Here.letter = "geresh" \/ (Here.letter = "he" /\ looked = Len(glyphs) /\ ~Here.dagesh)
  THEN << >> ELSE <<[sound |-> Here.letter, place |-> Here.place]>>
Voiced == IF Here.letter = "alef" THEN << >> ELSE Consonant

Segment(before, vowel, dagesh) ==
  [onset |-> before, nucleus |-> vowel, coda |-> << >>, dagesh |-> dagesh]

Push(before, vowel, dagesh, read) ==
  /\ segments' = Append(segments, Segment(before, vowel, dagesh))
  /\ onset' = << >>
  /\ looked' = looked + read
  /\ UNCHANGED <<hebrew, word, glyphs, silenced, ipa>>

ReadVav ==
  /\ More
  /\ IsShuruk \/ IsHolamMale
  /\ Push(onset, IF IsShuruk THEN "u" ELSE "o", FALSE, 1)

ReadHiriqYod ==
  /\ More
  /\ IsHiriqYod
  /\ Push(onset \o Voiced, "i", FALSE, 2)

ReadVowel ==
  /\ More
  /\ Here.vowel \in {"patah", "hiriq"} /\ ~IsHiriqYod
  /\ Push(onset \o Voiced, IF Here.vowel = "patah" THEN "a" ELSE "i", FALSE, 1)

ReadSheva ==
  /\ More
  /\ Here.vowel = "sheva"
  /\ Push(onset \o Voiced, "schwa", Here.dagesh, 1)

(* No vowel of its own; a holam counts only on vav.  Alef leaves a glottal *)
(* stop.                                                                   *)
ReadConsonant ==
  /\ More
  /\ Here.vowel \in {"none", "holam"} /\ ~IsShuruk /\ ~IsHolamMale
  /\ onset' = onset \o Consonant
  /\ looked' = looked + 1
  /\ UNCHANGED <<hebrew, word, glyphs, segments, silenced, ipa>>

(* What follows the last vowel becomes the coda of the last segment.       *)
EndOfWord ==
  /\ hebrew = "reading" /\ looked > Len(glyphs)
  /\ hebrew' = "deciding"
  /\ segments' = IF segments = << >> THEN << >>
                 ELSE [segments EXCEPT ![Len(segments)].coda = @ \o onset]
  /\ onset' = << >>
  /\ looked' = 1
  /\ UNCHANGED <<word, glyphs, silenced, ipa>>

-----------------------------------------------------------------------------
(* resolve_sheva_and_qamats, syllabify_to_ipa and the glottal stops.       *)

Decides == hebrew = "deciding" /\ looked <= Len(segments)
Sounds == looked = 1 \/ segments[looked].dagesh \/ silenced

SpeakSheva ==
  /\ Decides
  /\ segments[looked].nucleus = "schwa" => Sounds
  /\ segments' = IF segments[looked].nucleus = "schwa"
                 THEN [segments EXCEPT ![looked].nucleus = "e"] ELSE segments
  /\ silenced' = FALSE
  /\ looked' = looked + 1
  /\ UNCHANGED <<hebrew, word, glyphs, onset, ipa>>

(* Variant: the consonants of a silent sheva go with it. *)
MovedNowhere == segments[looked - 1].coda
Moved == segments[looked - 1].coda \o segments[looked].onset

SilenceSheva ==
  /\ Decides
  /\ segments[looked].nucleus = "schwa" /\ ~Sounds
  /\ segments' = [segments EXCEPT ![looked - 1].coda = Moved,
                                  ![looked].onset = << >>, ![looked].nucleus = "silent"]
  /\ silenced' = TRUE
  /\ looked' = looked + 1
  /\ UNCHANGED <<hebrew, word, glyphs, onset, ipa>>

(* A silent segment gives its onset to the one before, which is not        *)
(* silent: the first never is, and no two follow each other.               *)
Silent(i) == i \in DOMAIN segments /\ segments[i].nucleus = "silent"
Merged ==
  FlattenSeq([i \in DOMAIN segments |->
    IF Silent(i) THEN << >>
    ELSE IF Silent(i + 1) THEN <<[segments[i] EXCEPT !.coda = @ \o segments[i + 1].onset]>>
    ELSE <<segments[i]>>])

Stressed(segs) == IF Len(segs) = 2 /\ segs[2].coda # << >> THEN 1 ELSE Len(segs)
Sound(s) == <<[sound |-> s, place |-> 0]>>
Joined(segs) ==
  FlattenSeq([i \in DOMAIN segs |->
    segs[i].onset \o (IF i = Stressed(segs) THEN Sound("stress") ELSE << >>)
      \o Sound(segs[i].nucleus) \o segs[i].coda])

(* A glottal stop is heard before a vowel only. *)
BeforeVowel(sounds, i) ==
  LET after == IF i < Len(sounds) /\ sounds[i + 1].sound = "stress" THEN i + 2 ELSE i + 1
  IN after <= Len(sounds) /\ sounds[after].sound \in {"a", "e", "i", "o", "u"}
Realized(sounds) ==
  FlattenSeq([i \in DOMAIN sounds |->
    IF sounds[i].sound = "alef" /\ ~BeforeVowel(sounds, i) THEN << >> ELSE <<sounds[i]>>])

Pronounce ==
  /\ hebrew = "deciding" /\ looked > Len(segments)
  /\ hebrew' = "heard"
  /\ ipa' = Realized(Joined(Merged))
  /\ UNCHANGED <<word, glyphs, looked, onset, segments, silenced>>

HebrewNext ==
  \/ TakePoints \/ Diacritize \/ DiacritizeFails
  \/ ReadVav \/ ReadHiriqYod \/ ReadVowel \/ ReadSheva \/ ReadConsonant \/ EndOfWord
  \/ SpeakSheva \/ SilenceSheva \/ Pronounce
HebrewSpec == HebrewInit /\ [][HebrewNext]_hebrewVars

-----------------------------------------------------------------------------
(* Properties.                                                             *)

Ordinary(s) == s \in {"bet", "affricate"}
OrdinaryPlaces(gs) ==
  FlattenSeq([i \in DOMAIN gs |-> IF Ordinary(gs[i].letter) THEN <<gs[i].place>> ELSE << >>])
HeardPlaces ==
  FlattenSeq([i \in DOMAIN ipa |-> IF Ordinary(ipa[i].sound) THEN <<ipa[i].place>> ELSE << >>])

(* Glyphs that make a segment, the last of them, and what is up to it.     *)
Voweled(i) == \/ glyphs[i].vowel \in {"sheva", "patah", "hiriq"}
              \/ glyphs[i].letter = "vav" /\ glyphs[i].vowel = "holam" /\ ~glyphs[i].dagesh
              \/ glyphs[i].letter = "vav" /\ glyphs[i].vowel = "none" /\ glyphs[i].dagesh
HasVowel == \E i \in DOMAIN glyphs : Voweled(i)
LastVoweled == CHOOSE i \in DOMAIN glyphs :
                 Voweled(i) /\ \A k \in DOMAIN glyphs : Voweled(k) => k <= i

(* However onsets, codas and silent shevas move consonants between         *)
(* segments, a word with a vowel keeps its ordinary consonants, each once  *)
(* and in order; only behind a last vowel that is a sheva some may be lost *)
(* (word_to_segments, resolve_sheva_and_qamats).                           *)
ConsonantsAreHeardInOrder ==
  hebrew = "heard" /\ HasVowel =>
    /\ IsPrefix(HeardPlaces, OrdinaryPlaces(glyphs))
    /\ IsPrefix(OrdinaryPlaces(SubSeq(glyphs, 1, LastVoweled)), HeardPlaces)
    /\ glyphs[LastVoweled].vowel # "sheva" => HeardPlaces = OrdinaryPlaces(glyphs)

(* ipa.rs:681, "trailing consonant becomes a coda": the last consonant of  *)
(* a word with a vowel is heard.                                           *)
TrailingConsonantIsHeard ==
  hebrew = "heard" /\ HasVowel /\ Ordinary(Last(glyphs).letter) =>
    Last(glyphs).place \in ToSet(HeardPlaces)
=============================================================================
