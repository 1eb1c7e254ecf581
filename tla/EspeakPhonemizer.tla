-------------------------- MODULE EspeakPhonemizer --------------------------
(***************************************************************************)
(* text_to_phonemes of the eSpeak phonemizer, called by several threads.   *)
(* eSpeak-ng is one C library with one selected voice and one buffer; a    *)
(* call enters it for each line of its text, under ESPEAK_LOCK, and leaves *)
(* it between two lines, so that lines of texts in different languages mix.*)
(* The lock of a thread that panicked is taken over like any other.        *)
(***************************************************************************)
EXTENDS Naturals, SequencesExt

CONSTANTS
  TextCaller,          (* calls, each on a thread of its own                  *)
  KnownLanguages,   (* languages eSpeak-ng has a voice for                 *)
  UnknownLanguage,
  SpokenTexts       (* the texts: of each line how eSpeak ends its clauses,*)
                    (* and whether it holds a NUL byte                     *)

ASSUME EspeakAssumption ==
  /\ UnknownLanguage \notin KnownLanguages
  /\ \A t \in SpokenTexts : t \in Seq([nul : BOOLEAN, ends : Seq({"clause", "sentence"})])

VARIABLES
  library,        (* ESPEAKNG_INIT: "cold", "ready" or "broken", for ever  *)
  inside,         (* the call, at most one, that holds ESPEAK_LOCK         *)
  selectedVoice,  (* the voice eSpeak speaks with                          *)
  request,        (* text and language of each call                        *)
  callAt,         (* where each call is                                    *)
  textLine,       (* the line each call is at                              *)
  clause,         (* the next clause of its line                           *)
  pending,        (* clauses of a sentence that has not ended              *)
  sentencesOut    (* sentences of each call, of clauses and their voices   *)

espeakVars == <<library, inside, selectedVoice, request, callAt, textLine, clause, pending,
                sentencesOut>>

Requests == [language : KnownLanguages \cup {UnknownLanguage}, lines : SpokenTexts]

EspeakStarts(requests) ==
  /\ library = "cold"
  /\ inside = {}
  /\ selectedVoice = UnknownLanguage
  /\ request \in [TextCaller -> requests]
  /\ callAt = [c \in TextCaller |-> "outside"]
  /\ textLine = [c \in TextCaller |-> 1]
  /\ clause = [c \in TextCaller |-> 1]
  /\ pending = [c \in TextCaller |-> << >>]
  /\ sentencesOut = [c \in TextCaller |-> << >>]
EspeakInit == EspeakStarts(Requests)

Moves(c, place) == callAt' = [callAt EXCEPT ![c] = place]
UNCHANGED_text == UNCHANGED <<request, textLine, clause, pending, sentencesOut>>
Line(c) == request[c].lines[textLine[c]]

(* The lock is let go with the error, and so is what other lines gave.     *)
Fails(c) ==
  /\ inside' = {}
  /\ Moves(c, "failed")
  /\ UNCHANGED_text

TextEnds(c) ==
  /\ callAt[c] = "outside" /\ textLine[c] > Len(request[c].lines)
  /\ Moves(c, "done")
  /\ UNCHANGED <<library, inside, selectedVoice>> /\ UNCHANGED_text

EnterEspeak(c) ==
  /\ callAt[c] = "outside" /\ textLine[c] <= Len(request[c].lines)
  /\ inside = {}
  /\ inside' = {c}
  /\ Moves(c, "entered")
  /\ UNCHANGED <<library, selectedVoice>> /\ UNCHANGED_text

(* The first call initializes the library; what came of it stays.          *)
InitEspeak(c) ==
  /\ callAt[c] = "entered" /\ library = "cold"
  /\ library' \in {"ready", "broken"}
  /\ UNCHANGED <<inside, selectedVoice, callAt>> /\ UNCHANGED_text

FindBroken(c) ==
  /\ callAt[c] = "entered" /\ library = "broken"
  /\ Fails(c)
  /\ UNCHANGED <<library, selectedVoice>>

(* Variant for the mutation runs: selected for the first line only.        *)
SelectVoiceOnce(c) ==
  /\ callAt[c] = "entered" /\ library = "ready"
  /\ \/ textLine[c] = 1 /\ request[c].language = UnknownLanguage
        /\ Fails(c) /\ UNCHANGED selectedVoice
     \/ /\ textLine[c] > 1 \/ request[c].language # UnknownLanguage
        /\ selectedVoice' = IF textLine[c] = 1 THEN request[c].language ELSE selectedVoice
        /\ Moves(c, "selected")
        /\ UNCHANGED inside /\ UNCHANGED_text
  /\ UNCHANGED library

(* A voice eSpeak does not have leaves the one it had.                     *)
SelectVoice(c) ==
  /\ callAt[c] = "entered" /\ library = "ready"
  /\ IF request[c].language = UnknownLanguage
     THEN Fails(c) /\ UNCHANGED selectedVoice
     ELSE /\ selectedVoice' = request[c].language
          /\ Moves(c, "selected")
          /\ UNCHANGED inside /\ UNCHANGED_text
  /\ UNCHANGED library

RejectNul(c) ==
  /\ callAt[c] = "selected" /\ Line(c).nul
  /\ Fails(c)
  /\ UNCHANGED <<library, selectedVoice>>

(* read_clauses: what eSpeak says of one clause is copied out of its buffer*)
(* before the next; a sentence ends where eSpeak says so.                  *)
ReadClause(c) ==
  /\ callAt[c] = "selected" /\ ~Line(c).nul
  /\ clause[c] <= Len(Line(c).ends)
  /\ LET said == Append(pending[c], [line |-> textLine[c], clause |-> clause[c],
                                     voice |-> selectedVoice])
     IN IF Line(c).ends[clause[c]] = "sentence"
        THEN /\ sentencesOut' = [sentencesOut EXCEPT ![c] = Append(@, said)]
             /\ pending' = [pending EXCEPT ![c] = << >>]
        ELSE pending' = [pending EXCEPT ![c] = said] /\ UNCHANGED sentencesOut
  /\ clause' = [clause EXCEPT ![c] = @ + 1]
  /\ UNCHANGED <<library, inside, selectedVoice, request, callAt, textLine>>

(* The rest of a line is a sentence; the lock is let go.                   *)
LeaveEspeak(c) ==
  /\ callAt[c] = "selected" /\ ~Line(c).nul
  /\ clause[c] > Len(Line(c).ends)
  /\ inside' = {}
  /\ Moves(c, "outside")
  /\ sentencesOut' = IF pending[c] = << >> THEN sentencesOut
                     ELSE [sentencesOut EXCEPT ![c] = Append(@, pending[c])]
  /\ pending' = [pending EXCEPT ![c] = << >>]
  /\ textLine' = [textLine EXCEPT ![c] = @ + 1]
  /\ clause' = [clause EXCEPT ![c] = 1]
  /\ UNCHANGED <<library, selectedVoice, request>>

EspeakNext == \E c \in TextCaller :
  \/ TextEnds(c) \/ EnterEspeak(c) \/ InitEspeak(c) \/ FindBroken(c) \/ SelectVoice(c)
  \/ RejectNul(c) \/ ReadClause(c) \/ LeaveEspeak(c)
EspeakSpec == EspeakInit /\ [][EspeakNext]_espeakVars

-----------------------------------------------------------------------------
(* Properties.                                                             *)

(* The clauses of a text, in order, in the voice of its language.          *)
AllClauses(r) ==
  FlattenSeq([l \in DOMAIN r.lines |->
    [n \in DOMAIN r.lines[l].ends |-> [line |-> l, clause |-> n, voice |-> r.language]]])

(* However the lines of texts in several languages interleave, a call that *)
(* succeeds has all clauses of its text, each once, in order and in the    *)
(* voice it asked for; a sentence ends where eSpeak ended it or with its   *)
(* line, and nowhere else (phonemize_line, read_clauses).                  *)
TextsKeepTheirVoices ==
  \A c \in TextCaller : callAt[c] = "done" =>
    LET sentences == sentencesOut[c]
        EndsAt(s) == LET l == Last(s).line IN
          \/ request[c].lines[l].ends[Last(s).clause] = "sentence"
          \/ Last(s).clause = Len(request[c].lines[l].ends)
    IN /\ FlattenSeq(sentences) = AllClauses(request[c])
       /\ \A s \in DOMAIN sentences :
            /\ EndsAt(sentences[s])
            /\ \A k \in 1..(Len(sentences[s]) - 1) :
                 /\ sentences[s][k].line = Last(sentences[s]).line
                 /\ request[c].lines[sentences[s][k].line].ends[sentences[s][k].clause] = "clause"
=============================================================================
