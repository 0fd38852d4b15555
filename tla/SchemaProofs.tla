---------------------------- MODULE SchemaProofs ----------------------------
(***************************************************************************)
(* Proofs about RequestSchemas: a phone number is read as the one it       *)
(* spells, for any number of digits and any set of texts.  The three ways  *)
(* to spell a number differ in their first character, as a mobile number   *)
(* begins with 7 or 1, and the pattern at the end lets nothing else pass.  *)
(***************************************************************************)
EXTENDS RequestSchemas, SequenceTheorems, TLAPS

\* The digits of a number without its prefix
Digits == LocalDigits + 1

-----------------------------------------------------------------------------
(***************************************************************************)
(* Prefixes.                                                               *)
(***************************************************************************)

LEMMA CountryType ==
  /\ Country \in Seq(Character) /\ Len(Country) = 3
  /\ Country[1] = "2" /\ Country[2] = "5" /\ Country[3] = "4"
BY DEF Country, Character, Digit

LEMMA ZeroType == <<"0">> \in Seq(Character) /\ Len(<<"0">>) = 1 /\ <<"0">>[1] = "0"
BY DEF Character, Digit

\* What it takes to begin with the country code, or with a 0
LEMMA PrefixCountry ==
  ASSUME NEW raw \in Seq(Character)
  PROVE  IsPrefix(Country, raw) <=> Len(raw) >= 3 /\ raw[1] = "2" /\ raw[2] = "5" /\ raw[3] = "4"
<1>1. Len(raw) \in Nat
  BY LenProperties
<1>2. SubSeq(Country, 1, 3) = Country
  BY CountryType, SubSeqFull
<1>3. CASE Len(raw) >= 3
  <2>1. \A i \in 1 .. 3 : raw[i] \in Character
    BY <1>1, <1>3, ElementOfSeq
  <2>2. /\ SubSeq(raw, 1, 3) \in Seq(Character) /\ Len(SubSeq(raw, 1, 3)) = 3
        /\ \A i \in 1 .. 3 : SubSeq(raw, 1, 3)[i] = raw[i]
    <3>1. 3 - 1 + 1 = 3 /\ \A i \in 1 .. 3 : 1 + i - 1 = i
      OBVIOUS
    <3> QED
      BY <2>1, <3>1, SubSeqProperties
  <2>3. Country = SubSeq(raw, 1, 3) <=> \A i \in 1 .. 3 : Country[i] = raw[i]
    BY <2>2, CountryType, SeqEqual
  <2>4. (\A i \in 1 .. 3 : Country[i] = raw[i]) <=> raw[1] = "2" /\ raw[2] = "5" /\ raw[3] = "4"
    BY CountryType
  <2> QED
    BY <1>1, <1>2, <1>3, <2>3, <2>4, CountryType DEF IsPrefix
<1>4. CASE ~(Len(raw) >= 3)
  BY <1>1, <1>4, CountryType DEF IsPrefix
<1> QED
  BY <1>3, <1>4

LEMMA PrefixZero ==
  ASSUME NEW raw \in Seq(Character)
  PROVE  IsPrefix(<<"0">>, raw) <=> Len(raw) >= 1 /\ raw[1] = "0"
<1>1. Len(raw) \in Nat
  BY LenProperties
<1>2. SubSeq(<<"0">>, 1, 1) = <<"0">>
  BY ZeroType, SubSeqFull
<1>3. CASE Len(raw) >= 1
  <2>1. raw[1] \in Character
    BY <1>1, <1>3, ElementOfSeq
  <2>2. /\ SubSeq(raw, 1, 1) \in Seq(Character) /\ Len(SubSeq(raw, 1, 1)) = 1
        /\ SubSeq(raw, 1, 1)[1] = raw[1]
    <3>1. 1 - 1 + 1 = 1 /\ 1 + 1 - 1 = 1 /\ 1 \in 1 .. 1 /\ \A i \in 1 .. 1 : i = 1
      OBVIOUS
    <3> QED
      BY <2>1, <3>1, SubSeqProperties
  <2>3. <<"0">> = SubSeq(raw, 1, 1) <=> raw[1] = "0"
    BY <2>2, ZeroType, SeqEqual
  <2> QED
    BY <1>1, <1>2, <1>3, <2>3, ZeroType DEF IsPrefix
<1>4. CASE ~(Len(raw) >= 1)
  BY <1>1, <1>4, ZeroType DEF IsPrefix
<1> QED
  BY <1>3, <1>4

-----------------------------------------------------------------------------
(***************************************************************************)
(* Numbers and how they are spelt.                                         *)
(***************************************************************************)

\* A subscriber's number is a sequence
LEMMA SubscriberType ==
  ASSUME NEW s \in Subscriber
  PROVE  /\ s \in Seq(Character) /\ Len(s) = Digits /\ Digits \in Nat /\ Digits >= 2
         /\ s[1] \in {"7", "1"}
         /\ \A i \in 1 .. Digits : s[i] \in Digit
<1>1. Digits \in Nat /\ Digits >= 2 /\ s \in [1 .. Digits -> Digit]
  BY SchemaAssumption DEF Digits, Subscriber
<1>2. s \in Seq(Digit) /\ Len(s) = Digits
  BY <1>1
<1>3. s \in Seq(Character)
  BY <1>2, SeqMonotonic DEF Character
<1> QED
  BY <1>1, <1>2, <1>3 DEF Subscriber

\* The country code in front of a sequence, and in front of which one
LEMMA CountryConcat ==
  ASSUME NEW s \in Seq(Character)
  PROVE  /\ Country \o s \in Seq(Character) /\ Len(Country \o s) = Len(s) + 3
         /\ \A i \in 1 .. 3 : (Country \o s)[i] = Country[i]
         /\ \A i \in 1 .. Len(s) : (Country \o s)[i + 3] = s[i]
<1> DEFINE number == Country \o s
<1>1. Len(s) \in Nat
  BY LenProperties
<1>2. /\ number \in Seq(Character) /\ Len(number) = Len(Country) + Len(s)
      /\ \A i \in 1 .. Len(Country) + Len(s) :
           number[i] = IF i <= Len(Country) THEN Country[i] ELSE s[i - Len(Country)]
  BY CountryType, ConcatProperties
<1> HIDE DEF number
<1>3. \A i \in 1 .. 3 : number[i] = Country[i]
  BY <1>1, <1>2, CountryType
<1>4. \A i \in 1 .. Len(s) : number[i + 3] = s[i]
  BY <1>1, <1>2, CountryType
<1> QED
  BY <1>1, <1>2, <1>3, <1>4, CountryType DEF number

LEMMA CountryInjective ==
  ASSUME NEW s \in Seq(Character), NEW t \in Seq(Character), Country \o s = Country \o t
  PROVE  s = t
<1>1. Len(s) \in Nat /\ Len(t) \in Nat
  BY LenProperties
<1>2. Len(s) = Len(t)
  BY <1>1, CountryConcat
<1>3. \A i \in 1 .. Len(s) : s[i] = t[i]
  <2>1. SUFFICES ASSUME NEW i \in 1 .. Len(s) PROVE s[i] = t[i]
    OBVIOUS
  <2>2. (Country \o s)[i + 3] = s[i] /\ (Country \o t)[i + 3] = t[i]
    BY <1>2, CountryConcat
  <2> QED
    BY <2>2
<1> QED
  BY <1>2, <1>3, SeqEqual

\* With the country code it matches the pattern
LEMMA CountryThen ==
  ASSUME NEW s \in Subscriber
  PROVE  /\ Country \o s \in Seq(Character) /\ Len(Country \o s) = Digits + 3
         /\ \A i \in 1 .. 3 : (Country \o s)[i] = Country[i]
         /\ \A i \in 1 .. Digits : (Country \o s)[i + 3] = s[i]
         /\ IsPrefix(Country, Country \o s) /\ IsMobile(Country \o s)
<1>1. /\ s \in Seq(Character) /\ Len(s) = Digits /\ Digits \in Nat /\ Digits >= 2
      /\ s[1] \in {"7", "1"} /\ \A i \in 1 .. Digits : s[i] \in Digit
  BY SubscriberType
<1> DEFINE number == Country \o s
<1>2. /\ number \in Seq(Character) /\ Len(number) = Digits + 3
      /\ \A i \in 1 .. 3 : number[i] = Country[i]
      /\ \A i \in 1 .. Digits : number[i + 3] = s[i]
  BY <1>1, CountryConcat
<1> HIDE DEF number
<1>3. number[1] = "2" /\ number[2] = "5" /\ number[3] = "4"
  BY <1>2, CountryType
<1>4. IsPrefix(Country, number)
  BY <1>1, <1>2, <1>3, PrefixCountry
<1>5. number[4] = s[1] /\ \A i \in 5 .. Digits + 3 : number[i] \in Digit
  <2>1. 1 + 3 = 4 /\ 1 \in 1 .. Digits
    BY <1>1
  <2>2. number[4] = s[1]
    BY <1>2, <2>1
  <2>3. ASSUME NEW i \in 5 .. Digits + 3 PROVE number[i] \in Digit
    <3>1. i - 3 \in 1 .. Digits /\ (i - 3) + 3 = i
      BY <1>1
    <3>2. number[i] = s[i - 3]
      BY <1>2, <3>1
    <3> QED
      BY <1>1, <3>1, <3>2
  <2> QED
    BY <2>2, <2>3
<1>6. Digits + 3 = 4 + LocalDigits
  BY SchemaAssumption DEF Digits
<1> QED
  BY <1>1, <1>2, <1>4, <1>5, <1>6 DEF IsMobile, number

\* What matches the pattern is some subscriber's
LEMMA MobileIsSubscribers ==
  ASSUME NEW number \in Seq(Character), IsMobile(number)
  PROVE  \E s \in Subscriber : number = Country \o s
<1> DEFINE s == [i \in 1 .. Digits |-> number[i + 3]]
<1>1. Digits \in Nat /\ Digits >= 2 /\ Len(number) = Digits + 3
  BY SchemaAssumption DEF Digits, IsMobile
<1>2. number[4] \in {"7", "1"} /\ \A i \in 5 .. Digits + 3 : number[i] \in Digit
  BY <1>1 DEF IsMobile
<1>3. number[4] \in Digit
  BY <1>2 DEF Digit
<1>4. \A i \in 1 .. Digits : number[i + 3] \in Digit
  <2>1. SUFFICES ASSUME NEW i \in 1 .. Digits PROVE number[i + 3] \in Digit
    OBVIOUS
  <2>2. i + 3 = 4 \/ i + 3 \in 5 .. Digits + 3
    BY <1>1
  <2> QED
    BY <1>2, <1>3, <2>2
<1>5. s \in Subscriber
  <2>1. s \in [1 .. Digits -> Digit] /\ s[1] = number[4]
    BY <1>1, <1>4
  <2> QED
    BY <1>2, <2>1 DEF Subscriber, Digits
<1>6. \A i \in 1 .. Digits : s[i] = number[i + 3]
  OBVIOUS
<1> HIDE DEF s
<1>7. \A i \in 1 .. 3 : number[i] = Country[i]
  BY CountryType, PrefixCountry DEF IsMobile
<1>8. \A i \in 1 .. Len(number) : number[i] = (Country \o s)[i]
  <2>1. SUFFICES ASSUME NEW i \in 1 .. Digits + 3 PROVE number[i] = (Country \o s)[i]
    BY <1>1
  <2>2. CASE i \in 1 .. 3
    BY <1>5, <1>7, <2>2, CountryThen
  <2>3. CASE i - 3 \in 1 .. Digits
    <3>1. (i - 3) + 3 = i
      OBVIOUS
    <3> QED
      BY <1>5, <1>6, <2>3, <3>1, CountryThen
  <2>4. i \in 1 .. 3 \/ i - 3 \in 1 .. Digits
    BY <1>1
  <2> QED
    BY <2>2, <2>3, <2>4
<1>9. number = Country \o s
  BY <1>1, <1>5, <1>8, CountryThen, SeqEqual
<1> QED
  BY <1>5, <1>9

\* A 0 in front of a number, and how it is taken away
LEMMA ZeroThen ==
  ASSUME NEW s \in Seq(Character)
  PROVE  /\ <<"0">> \o s \in Seq(Character) /\ Len(<<"0">> \o s) = Len(s) + 1
         /\ (<<"0">> \o s)[1] = "0" /\ Tail(<<"0">> \o s) = s
<1> DEFINE raw == <<"0">> \o s
<1>1. Len(s) \in Nat
  BY LenProperties
<1>2. /\ raw \in Seq(Character) /\ Len(raw) = Len(s) + 1 /\ raw[1] = "0"
      /\ \A i \in 2 .. Len(s) + 1 : raw[i] = s[i - 1]
  BY <1>1, ZeroType, ConcatProperties
<1> HIDE DEF raw
<1>3. raw # <<>>
  BY <1>1, <1>2, EmptySeq
<1>4. /\ Tail(raw) \in Seq(Character) /\ Len(Tail(raw)) = Len(s)
      /\ \A i \in 1 .. Len(s) : Tail(raw)[i] = raw[i + 1]
  BY <1>1, <1>2, <1>3, HeadTailProperties
<1>5. \A i \in 1 .. Len(s) : Tail(raw)[i] = s[i]
  BY <1>1, <1>2, <1>4
<1>6. Tail(raw) = s
  BY <1>4, <1>5, SeqEqual
<1> QED
  BY <1>2, <1>6 DEF raw

\* What begins with a 0 is a 0 in front of the rest
LEMMA ZeroAndTail ==
  ASSUME NEW raw \in Seq(Character), Len(raw) >= 1, raw[1] = "0"
  PROVE  Tail(raw) \in Seq(Character) /\ raw = <<"0">> \o Tail(raw)
<1>1. Len(raw) \in Nat
  BY LenProperties
<1>2. raw # <<>>
  BY <1>1, EmptySeq
<1>3. /\ Tail(raw) \in Seq(Character) /\ Len(Tail(raw)) = Len(raw) - 1
      /\ \A i \in 1 .. Len(raw) - 1 : Tail(raw)[i] = raw[i + 1]
  BY <1>2, HeadTailProperties
<1>4. /\ <<"0">> \o Tail(raw) \in Seq(Character) /\ Len(<<"0">> \o Tail(raw)) = Len(raw)
      /\ (<<"0">> \o Tail(raw))[1] = "0"
      /\ \A i \in 2 .. Len(raw) : (<<"0">> \o Tail(raw))[i] = Tail(raw)[i - 1]
  BY <1>1, <1>3, ZeroType, ConcatProperties
<1>5. \A i \in 2 .. Len(raw) : Tail(raw)[i - 1] = raw[i]
  BY <1>1, <1>3
<1>6. \A i \in 1 .. Len(raw) : raw[i] = (<<"0">> \o Tail(raw))[i]
  BY <1>1, <1>4, <1>5
<1> QED
  BY <1>3, <1>4, <1>6, SeqEqual

-----------------------------------------------------------------------------
(***************************************************************************)
(* How they are read.                                                      *)
(***************************************************************************)

\* Whatever spells a number is read as that number
LEMMA SpellingIsRead ==
  ASSUME NEW v, Bare(v) \in Seq(Character), NEW s \in Subscriber, Bare(v) \in Spellings(s)
  PROVE  NormalisePhone(v) = Country \o s
<1> DEFINE raw == Bare(v)
<1>1. /\ s \in Seq(Character) /\ Len(s) = Digits /\ Digits \in Nat /\ Digits >= 2 /\ s[1] \in {"7", "1"}
      /\ IsMobile(Country \o s) /\ LocalDigits + 1 = Digits /\ LocalDigits + 2 = Digits + 1
  BY SubscriberType, CountryThen, SchemaAssumption DEF Digits
<1>2. CASE raw = Country \o s
  BY <1>1, <1>2, CountryThen DEF NormalisePhone
<1>3. CASE raw = <<"0">> \o s
  <2>1. Len(raw) = Digits + 1 /\ raw[1] = "0" /\ Tail(raw) = s
    BY <1>1, <1>3, ZeroThen
  <2>2. ~IsPrefix(Country, raw) /\ IsPrefix(<<"0">>, raw)
    BY <1>1, <2>1, PrefixCountry, PrefixZero
  <2> QED
    BY <1>1, <2>1, <2>2 DEF NormalisePhone
<1>4. CASE raw = s
  <2>1. ~IsPrefix(Country, raw) /\ ~IsPrefix(<<"0">>, raw)
    BY <1>1, <1>4, PrefixCountry, PrefixZero
  <2> QED
    BY <1>1, <1>4, <2>1 DEF NormalisePhone
<1> QED
  BY <1>2, <1>3, <1>4 DEF Spellings

\* What is not rejected spells a number
LEMMA ReadIsSpelling ==
  ASSUME NEW v, Bare(v) \in Seq(Character), NormalisePhone(v) # Rejected
  PROVE  \E s \in Subscriber : Bare(v) \in Spellings(s)
<1> DEFINE raw == Bare(v)
<1>1. \A s \in Subscriber : s \in Seq(Character)
  BY SubscriberType
<1>2. CASE IsPrefix(Country, raw)
  <2>1. IsMobile(raw)
    BY <1>2 DEF NormalisePhone
  <2> QED
    BY <2>1, MobileIsSubscribers DEF Spellings
<1>3. CASE ~IsPrefix(Country, raw) /\ IsPrefix(<<"0">>, raw) /\ Len(raw) = LocalDigits + 2
  <2>1. IsMobile(Country \o Tail(raw))
    BY <1>3 DEF NormalisePhone
  <2>2. Tail(raw) \in Seq(Character) /\ raw = <<"0">> \o Tail(raw)
    BY <1>3, PrefixZero, ZeroAndTail
  <2>3. Country \o Tail(raw) \in Seq(Character)
    BY <2>2, CountryType, ConcatProperties
  <2>4. PICK s \in Subscriber : Country \o Tail(raw) = Country \o s
    BY <2>1, <2>3, MobileIsSubscribers
  <2>5. Tail(raw) = s
    BY <1>1, <2>2, <2>4, CountryInjective
  <2> QED
    BY <2>2, <2>5 DEF Spellings
<1>4. CASE /\ ~IsPrefix(Country, raw) /\ ~(IsPrefix(<<"0">>, raw) /\ Len(raw) = LocalDigits + 2)
           /\ Len(raw) = LocalDigits + 1
  <2>1. IsMobile(Country \o raw)
    BY <1>4 DEF NormalisePhone
  <2>2. Country \o raw \in Seq(Character)
    BY CountryType, ConcatProperties
  <2>3. PICK s \in Subscriber : Country \o raw = Country \o s
    BY <2>1, <2>2, MobileIsSubscribers
  <2>4. raw = s
    BY <1>1, <2>3, CountryInjective
  <2> QED
    BY <2>4 DEF Spellings
<1>5. CASE /\ ~IsPrefix(Country, raw) /\ ~(IsPrefix(<<"0">>, raw) /\ Len(raw) = LocalDigits + 2)
           /\ Len(raw) # LocalDigits + 1
  BY <1>5 DEF NormalisePhone
<1> QED
  BY <1>2, <1>3, <1>4, <1>5

\* Every text is read as the number it spells, and rejected if it spells none,
\* for any number of digits: no text spells two numbers.
THEOREM NothingIsMisread == Misread = {}
<1> SUFFICES ASSUME NEW v \in Texts
             PROVE  LET meant == {s \in Subscriber : Bare(v) \in Spellings(s)} IN
                    IF meant = {}
                      THEN NormalisePhone(v) = Rejected
                      ELSE meant = {s \in Subscriber : NormalisePhone(v) = Country \o s}
  BY DEF Misread
<1> DEFINE meant == {s \in Subscriber : Bare(v) \in Spellings(s)}
<1>1. Bare(v) \in Seq(Character)
  BY TextsAssumption
<1>2. CASE meant = {}
  BY <1>1, <1>2, ReadIsSpelling
<1>3. CASE meant # {}
  <2>1. PICK s \in Subscriber : Bare(v) \in Spellings(s)
    BY <1>3
  <2>2. \A t \in meant : NormalisePhone(v) = Country \o t
    BY <1>1, SpellingIsRead
  <2>3. \A t \in Subscriber : NormalisePhone(v) = Country \o t => t = s
    BY <1>1, <2>1, SpellingIsRead, SubscriberType, CountryInjective
  <2>4. meant = {t \in Subscriber : NormalisePhone(v) = Country \o t}
    BY <2>1, <2>2, <2>3
  <2> QED
    BY <1>3, <2>4
<1> QED
  BY <1>2, <1>3
=============================================================================
