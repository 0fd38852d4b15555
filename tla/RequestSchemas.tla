--------------------------- MODULE RequestSchemas ---------------------------
(***************************************************************************)
(* STKPushInitiateRequest.normalise_phone: how the spellings of a phone    *)
(* number are read.  A character is itself where the code looks for it;    *)
(* "-" stands for every separator, "9" for every digit not named and "x"   *)
(* for everything else.                                                    *)
(***************************************************************************)
EXTENDS SequencesExt, Naturals

CONSTANTS
  LocalDigits,   \* digits after the 7 or 1 of a mobile number, 8 in the code
  Texts          \* what clients may send as a phone number

ASSUME SchemaAssumption == LocalDigits \in Nat \ {0}

Digit     == {"0", "1", "2", "4", "5", "7", "9"}
Character == Digit \cup {"+", "-", "x"}
Country   == <<"2", "5", "4">>
Rejected  == <<>>

\* Separators are removed, and then one leading plus sign.  What a text spells is
\* defined by the same operator: that these signs mean nothing is taken from the code.
Bare(v) ==
  LET raw == SelectSeq(v, LAMBDA char : char # "-")
  IN  IF IsPrefix(<<"+">>, raw) THEN Tail(raw) ELSE raw

\* A text is a sequence of characters, and so is what is left of it
ASSUME TextsAssumption ==
  \A v \in Texts : v \in Seq(Character) /\ Bare(v) \in Seq(Character)

\* The pattern that the normalised number must match
IsMobile(number) ==
  /\ Len(number) = 4 + LocalDigits
  /\ IsPrefix(Country, number)
  /\ number[4] \in {"7", "1"}
  /\ \A i \in 5 .. Len(number) : number[i] \in Digit

\* (mistake: a number without its country code is recognised by its length
\* alone, with or without the leading 0)
NormaliseByLength(v) ==
  LET raw == Bare(v)
      number ==
        IF IsPrefix(Country, raw) THEN raw
        ELSE IF Len(raw) = LocalDigits + 2 THEN Country \o Tail(raw)
        ELSE IF Len(raw) = LocalDigits + 1 THEN Country \o raw
        ELSE Rejected
  IN  IF IsMobile(number) THEN number ELSE Rejected

NormalisePhone(v) ==
  LET raw == Bare(v)
      number ==
        IF IsPrefix(Country, raw) THEN raw
        ELSE IF IsPrefix(<<"0">>, raw) /\ Len(raw) = LocalDigits + 2
               THEN Country \o Tail(raw)
        ELSE IF Len(raw) = LocalDigits + 1 THEN Country \o raw
        ELSE Rejected
  IN  IF IsMobile(number) THEN number ELSE Rejected

-----------------------------------------------------------------------------
\* Mobile numbers without prefix, and the ways to write one: with the country
\* code, with a 0, or as it is
Subscriber == {s \in [1 .. LocalDigits + 1 -> Digit] : s[1] \in {"7", "1"}}
Spellings(s) == {Country \o s, <<"0">> \o s, s}

\* The texts that are not read as the number they spell, or as one though they
\* spell none
Misread ==
  {v \in Texts :
     LET meant == {s \in Subscriber : Bare(v) \in Spellings(s)} IN
     IF meant = {}
       THEN NormalisePhone(v) # Rejected
       ELSE meant # {s \in Subscriber : NormalisePhone(v) = Country \o s}}
=============================================================================
