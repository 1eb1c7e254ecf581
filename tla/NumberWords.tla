----------------------------- MODULE NumberWords -----------------------------
(***************************************************************************)
(* normalize_numbers of the pinyin phonemizer: three passes over a         *)
(* sentence turn temperatures, percentages and all other digits into the   *)
(* words of spoken Chinese.  A text is a sequence of marks: the digits "0" *)
(* to "9", "-", ".", "%", " ", "celsius" (one mark for the two ways to     *)
(* write it), "nian" (the sign for year) and any others, which stay.       *)
(***************************************************************************)
EXTENDS Integers, SequencesExt

CONSTANTS
  Texts,                 (* the sentences to read                          *)
  MAX_CARDINAL_DIGITS,   (* longer numbers are read digit by digit         *)
  YEAR_DIGITS            (* and so are years of so many digits             *)

VARIABLES
  written,   (* the sentence as it was written                             *)
  text,      (* what the present pass reads                                *)
  pass,      (* "temperatures", "percentages", "digits", then "read"       *)
  at,        (* where in the text                                          *)
  spoken     (* what the pass has put out                                  *)

numberVars == <<written, text, pass, at, spoken>>

Digit == {"0", "1", "2", "3", "4", "5", "6", "7", "8", "9"}
DigitWord == [d \in Digit |->
  CASE d = "0" -> "ling" [] d = "1" -> "yi"  [] d = "2" -> "er"
    [] d = "3" -> "san"  [] d = "4" -> "si"  [] d = "5" -> "wu"
    [] d = "6" -> "liu"  [] d = "7" -> "qi"  [] d = "8" -> "ba" [] OTHER -> "jiu"]
digit_to_word(n) == DigitWord[ToString(n)]

NumberStarts(texts) ==
  /\ written \in texts
  /\ text = written
  /\ pass = "temperatures"
  /\ at = 1
  /\ spoken = << >>
NumberInit == NumberStarts(Texts)

-----------------------------------------------------------------------------
(* The words of one number.                                                *)

read_digit_by_digit(ds) == [i \in DOMAIN ds |-> DigitWord[ds[i]]]

Places(n) == << <<n \div 1000, <<"qian">> >>, <<(n \div 100) % 10, <<"bai">> >>,
                <<(n \div 10) % 10, <<"shi">> >>, <<n % 10, << >> >> >>

(* The four digits of a section; one "ling" for the zeros between two. *)
format_section(n) ==
  LET Place(said, p) ==
        IF p[1] = 0 THEN [said EXCEPT !.zero = said.words # << >>]
        ELSE [words |-> said.words \o (IF said.zero THEN <<"ling">> ELSE << >>)
                          \o <<digit_to_word(p[1])>> \o p[2],
              zero |-> FALSE]
  IN FoldLeft(Place, [words |-> << >>, zero |-> FALSE], Places(n)).words

(* Variant: the gap between ten thousands and a short rest goes unsaid. *)
format_cardinal_gapless(n) ==
  IF n = 0 THEN <<"ling">>
  ELSE (IF n \div 10000 > 0 THEN format_section(n \div 10000) \o <<"wan">> ELSE << >>)
       \o format_section(n % 10000)

format_cardinal(n) ==
  LET high == n \div 10000
      low == n % 10000
      words == (IF high = 0 THEN << >>
                ELSE format_section(high) \o <<"wan">>
                       \o (IF low \in 1..999 THEN <<"ling">> ELSE << >>))
               \o format_section(low)
  IN CASE words = << >> -> <<"ling">>
       [] IsPrefix(<<"yi", "shi">>, words) -> Tail(words)
       [] OTHER -> words

Amount(ds) ==
  FoldLeft(LAMBDA n, d : 10 * n + (CHOOSE k \in 0..9 : ToString(k) = d), 0, ds)

format_integer(ds) ==
  IF (Len(ds) > 1 /\ ds[1] = "0") \/ Len(ds) > MAX_CARDINAL_DIGITS
  THEN read_digit_by_digit(ds)
  ELSE format_cardinal(Amount(ds))

-----------------------------------------------------------------------------
(* The passes.                                                             *)

Mark(i) == IF i \in DOMAIN text THEN text[i] ELSE "end"
EndOf(marks, i) == CHOOSE j \in i..(Len(text) + 1) :
                     Mark(j) \notin marks /\ \A k \in i..(j - 1) : Mark(k) \in marks

Negative == Mark(at) = "-"
digit_start == IF Negative THEN at + 1 ELSE at
integer_end == EndOf(Digit, digit_start)
fraction_end == IF Mark(integer_end) = "." THEN EndOf(Digit, integer_end + 1) ELSE integer_end
value_end == IF fraction_end > integer_end + 1 THEN fraction_end ELSE integer_end

ValueWords ==
  format_integer(SubSeq(text, digit_start, integer_end - 1))
    \o (IF value_end = integer_end THEN << >>
        ELSE <<"dian">> \o read_digit_by_digit(SubSeq(text, integer_end + 1, value_end - 1)))

Say(words, next) ==
  /\ spoken' = spoken \o words
  /\ at' = next
  /\ UNCHANGED <<written, text, pass>>

Temperature ==
  /\ pass = "temperatures"
  /\ at <= Len(text)
  /\ LET unit == EndOf({" "}, value_end) IN
     IF integer_end = digit_start THEN Say(<<Mark(at)>>, at + 1)
     ELSE IF Mark(unit) = "celsius"
     THEN Say((IF Negative THEN <<"lingxia">> ELSE << >>) \o ValueWords \o <<"du">>, unit + 1)
     ELSE Say(SubSeq(text, at, value_end - 1), value_end)

Percentage ==
  /\ pass = "percentages"
  /\ at <= Len(text)
  /\ IF integer_end > digit_start /\ Mark(value_end) = "%"
     THEN Say((IF Negative THEN <<"fu">> ELSE << >>) \o <<"baifenzhi">> \o ValueWords,
              value_end + 1)
     ELSE Say(<<Mark(at)>>, at + 1)

IsFraction == at > 2 /\ Mark(at - 1) = "." /\ Mark(at - 2) \in Digit

PlainDigits ==
  /\ pass = "digits"
  /\ at <= Len(text)
  /\ LET end == EndOf(Digit, at)
         run == SubSeq(text, at, end - 1)
     IN IF run = << >> THEN Say(<<Mark(at)>>, at + 1)
        ELSE IF IsFraction
        THEN /\ spoken' = Front(spoken) \o <<"dian">> \o read_digit_by_digit(run)
             /\ at' = end
             /\ UNCHANGED <<written, text, pass>>
        ELSE IF Len(run) = YEAR_DIGITS /\ Mark(end) = "nian"
        THEN Say(read_digit_by_digit(run), end)
        ELSE Say(format_integer(run), end)

NextPass ==
  /\ at > Len(text)
  /\ pass # "read"
  /\ pass' = CASE pass = "temperatures" -> "percentages"
               [] pass = "percentages" -> "digits" [] OTHER -> "read"
  /\ text' = spoken
  /\ at' = 1
  /\ spoken' = << >>
  /\ UNCHANGED written

NumberNext == Temperature \/ Percentage \/ PlainDigits \/ NextPass
NumberSpec == NumberInit /\ [][NumberNext]_numberVars

-----------------------------------------------------------------------------
(* Properties.  A listener writes down the numbers that were said.         *)

Unit == [shi |-> 10, bai |-> 100, qian |-> 1000, wan |-> 10000]
Numeral == {DigitWord[d] : d \in Digit} \cup DOMAIN Unit
DigitFor(w) == CHOOSE d \in Digit : DigitWord[d] = w

(* Maximal runs of some marks, with the mark before each. *)
Runs(marks, t) ==
  LET In(i) == i \in DOMAIN t /\ t[i] \in marks
      starts == SetToSortSeq({i \in DOMAIN t : In(i) /\ ~In(i - 1)}, <)
      EndAt(i) == CHOOSE j \in i..Len(t) : ~In(j + 1) /\ \A k \in i..j : In(k)
  IN [n \in DOMAIN starts |->
        [before |-> IF starts[n] = 1 THEN "start" ELSE t[starts[n] - 1],
         run |-> SubSeq(t, starts[n], EndAt(starts[n]))]]

(* What a cardinal means.  A last digit right after a unit counts a tenth  *)
(* of it (yi bai wu is 150) unless "ling" is said in between.              *)
Meant(words) ==
  LET Take(m, w) ==
        CASE w = "ling" -> [m EXCEPT !.digit = 0, !.unit = 10]
          [] w = "wan"  -> [total |-> 10000 * (m.total + m.digit), digit |-> 0, unit |-> 10000]
          [] w \in DOMAIN Unit ->
               [total |-> m.total + Unit[w] * (IF m.digit = 0 THEN 1 ELSE m.digit),
                digit |-> 0, unit |-> Unit[w]]
          [] OTHER -> [m EXCEPT !.digit = CHOOSE k \in 0..9 : ToString(k) = DigitFor(w)]
      sum == FoldLeft(Take, [total |-> 0, digit |-> 0, unit |-> 10], words)
  IN sum.total + sum.digit * (sum.unit \div 10)

RECURSIVE Decimal(_)
Decimal(n) == (IF n < 10 THEN << >> ELSE Decimal(n \div 10)) \o <<ToString(n % 10)>>

WrittenDown(said) ==
  IF said.before = "dian" \/ \A i \in DOMAIN said.run : said.run[i] \notin DOMAIN Unit
  THEN [i \in DOMAIN said.run |->
          IF said.run[i] \in DOMAIN Unit THEN "?" ELSE DigitFor(said.run[i])]
  ELSE Decimal(Meant(said.run))

(* Nothing is said for a percent sign behind its number, so a digit right  *)
(* after the sign runs into it.                                            *)
Touching == \E i \in 2..Len(written) : written[i - 1] = "%" /\ written[i] \in Digit

(* Whatever pass reads a number, and however the passes before cut the     *)
(* text up, a listener writes down exactly the numbers of the sentence, in *)
(* their order and with their leading zeros: format_cardinal with its      *)
(* zeros and ten thousands, the digit by digit reading, years, fractions.  *)
NumbersAreReadBack ==
  pass = "read" /\ ~Touching =>
    LET said == Runs(Numeral, text)
        meant == Runs(Digit, written)
    IN /\ [n \in DOMAIN said |-> WrittenDown(said[n])] = [n \in DOMAIN meant |-> meant[n].run]
       /\ \A i \in DOMAIN text : text[i] \notin Digit
=============================================================================
