----------------------------- MODULE CodeProofs -----------------------------
(***************************************************************************)
(* Check digits catch slips, in codes of any length.                       *)
(***************************************************************************)
EXTENDS CodeSlips, TLAPS

LEMMA Residues == \A x \in Int : x % 10 \in Digit /\ x % 10 \in Int
BY DEF Digit

\* The weight 3 is a unit modulo 10: another digit in either sum, another digest.
LEMMA DigestSees ==
  ASSUME NEW s \in [0 .. 1 -> Digit], NEW t \in [0 .. 1 -> Digit],
         \/ s[0] = t[0] /\ s[1] # t[1]
         \/ s[0] # t[0] /\ s[1] = t[1]
  PROVE  Digest(s) # Digest(t)
BY DEF Digest, Digit

\* A swap moves the same difference into one sum and out of the other: the digests
\* agree only where twice the difference is a multiple of 10.
LEMMA SwapWeights ==
  ASSUME NEW x \in Digit, NEW y \in Digit, NEW u \in Digit, NEW v \in Digit,
         NEW b \in Digit, NEW c \in Digit, b # c,
         (u - x - (c - b)) % 10 = 0, (v - y + (c - b)) % 10 = 0,
         (0 - x * 3 - y) % 10 = (0 - u * 3 - v) % 10
  PROVE  (b - c) % 10 = 5
<1>1. ((u - x) * 3 + (v - y)) % 10 = 0
  BY DEF Digit
<1>2. (2 * (c - b)) % 10 = 0
  BY <1>1 DEF Digit
<1> QED
  BY <1>2 DEF Digit

LEMMA DigestSeesSwap ==
  ASSUME NEW s \in [0 .. 1 -> Digit], NEW t \in [0 .. 1 -> Digit],
         NEW b \in Digit, NEW c \in Digit, b # c,
         \/ (t[1] - s[1] - (c - b)) % 10 = 0 /\ (t[0] - s[0] + (c - b)) % 10 = 0
         \/ (s[1] - t[1] - (c - b)) % 10 = 0 /\ (s[0] - t[0] + (c - b)) % 10 = 0,
         Digest(s) = Digest(t)
  PROVE  (b - c) % 10 = 5
<1>1. s[0] \in Digit /\ s[1] \in Digit /\ t[0] \in Digit /\ t[1] \in Digit
  OBVIOUS
<1>2. (0 - s[1] * 3 - s[0]) % 10 = (0 - t[1] * 3 - t[0]) % 10
  BY DEF Digest
<1>3. CASE (t[1] - s[1] - (c - b)) % 10 = 0 /\ (t[0] - s[0] + (c - b)) % 10 = 0
  BY <1>1, <1>2, <1>3, SwapWeights
<1>4. CASE (s[1] - t[1] - (c - b)) % 10 = 0 /\ (s[0] - t[0] + (c - b)) % 10 = 0
  BY <1>1, <1>2, <1>4, SwapWeights
<1> QED
  BY <1>3, <1>4

\* Adding the same digit to both sums keeps their difference.
LEMMA SumsKeep == \A x, y, b \in Digit : x = y <=> (x + b) % 10 = (y + b) % 10
BY DEF Digit

LEMMA DifferenceKeeps ==
  ASSUME NEW x \in Digit, NEW y \in Digit, NEW b \in Digit, NEW d \in Int,
         (y - x - d) % 10 = 0
  PROVE  (((y + b) % 10) - ((x + b) % 10) - d) % 10 = 0
BY DEF Digit

LEMMA DifferenceOfDigits ==
  ASSUME NEW x \in Digit, NEW b \in Digit, NEW c \in Digit
  PROVE  (((x + c) % 10) - ((x + b) % 10) - (c - b)) % 10 = 0
BY DEF Digit

LEMMA ProductRange == \A t \in 1 .. 10 : \A a \in Digit : Mod1110(t, a) \in 1 .. 10
BY DEF Mod1110, Digit

LEMMA ProductSees ==
  /\ \A t, u \in 1 .. 10 : \A a \in Digit : t # u => Mod1110(t, a) # Mod1110(u, a)
  /\ \A t \in 1 .. 10 : \A a, b \in Digit : a # b => Mod1110(t, a) # Mod1110(t, b)
BY DEF Mod1110, Digit

LEMMA ProductSeesSwap ==
  \A t \in 1 .. 10 : \A a, b \in Digit :
    a # b /\ Mod1110(Mod1110(t, a), b) = Mod1110(Mod1110(t, b), a) => (a - b) % 10 \in {1, 9}
BY DEF Mod1110, Digit

LEMMA ApartWeights ==
  ASSUME NEW x \in Digit, NEW y \in Digit, NEW u \in Digit,
         NEW b \in Digit, NEW c \in Digit, b # c,
         (u - x - (c - b)) % 10 = 0,
         c = (0 - x * 3 - y) % 10, b = (0 - u * 3 - y) % 10
  PROVE  (b - c) % 10 = 5
<1>1. ((u - x) * 3 + (b - c)) % 10 = 0
  BY DEF Digit
<1>2. (2 * (c - b)) % 10 = 0
  BY <1>1 DEF Digit
<1> QED
  BY <1>2 DEF Digit

LEMMA CheckSeesSwap ==
  \A t \in 1 .. 10 : \A a, b \in Digit :
    /\ a # b
    /\ (Mod1110(t, a) + b) % 10 = 1 /\ (Mod1110(t, b) + a) % 10 = 1
    => (a - b) % 10 \in {1, 9}
BY DEF Mod1110, Digit

-----------------------------------------------------------------------------
(***************************************************************************)
(* The invariant.  While both parsers read, they are in step, and what has *)
(* been mistyped so far shows in the sums or in the product.               *)
(***************************************************************************)
Zero == [i \in 0 .. 1 |-> 0]

\* What one parser needs to stay well typed.
LabelOK ==
  /\ left \in Nat /\ isEven \in 0 .. 1 /\ oddEven \in [0 .. 1 -> Digit] /\ temp \in 1 .. 10
  /\ at = "digits" /\ parser = "bar_code" => len > GtinDigits + 4
  /\ at = "digits" => left <= Whole /\ (left = Whole => isEven = 1)
  /\ at = "number" => left > 0

TypedOK ==
  /\ left2 \in Nat /\ isEven2 \in 0 .. 1 /\ oddEven2 \in [0 .. 1 -> Digit] /\ temp2 \in 1 .. 10
  /\ at2 = "digits" /\ parser = "bar_code" => len > GtinDigits + 4
  /\ at2 = "number" => left2 > 0

SlipOK ==
  /\ slip.kind \in {"none", "digit", "half", "apart", "swap"}
  /\ slip.part \in {"none", "prefix", "digits", "suffix", "kind", "license", "letter", "number"}
  /\ slip.one \in Digit /\ slip.two \in Digit
  /\ slip.kind # "none" => slip.one # slip.two

CallOK ==
  /\ parser \in {"none", "bar_code", "sscc", "gln", "license"}
  /\ len \in Nat

Differ(k, d) == (oddEven2[k] - oddEven[k] - d) % 10 = 0
Shift        == slip.two - slip.one
Unseen       == (slip.one - slip.two) % 10 \in IF parser = "license" THEN {1, 9} ELSE {5}

\* Nothing that a check digit covers was mistyped.
Alike        == slip.kind = "none" \/ (slip.kind = "digit" /\ Unchecked)

InStep ==
  /\ at = at2 /\ left = left2 /\ isEven = isEven2
  /\ at = "digits" => parser # "license"
  /\ at = "license" => parser = "license"
  /\ at = "idle" => slip.kind = "none"
  /\ Alike => oddEven = oddEven2 /\ temp = temp2
  /\ slip.kind = "swap" /\ at \notin {"digits", "license"} => Unseen
  /\ at \notin {"digits", "license"} => Alike \/ slip.kind = "swap"

SumsShow ==
  /\ slip.kind = "digit" => \/ Unchecked
                            \/ oddEven[0] = oddEven2[0] /\ oddEven[1] # oddEven2[1]
                            \/ oddEven[0] # oddEven2[0] /\ oddEven[1] = oddEven2[1]
  /\ slip.kind = "half" => /\ left > 1
                           /\ Differ(1 - isEven, Shift)
                           /\ oddEven[isEven] = oddEven2[isEven]
  /\ slip.kind = "apart" => Differ(1, Shift) /\ oddEven[0] = oddEven2[0]
  /\ slip.kind = "swap" => \/ Differ(1, Shift) /\ Differ(0, 0 - Shift)
                           \/ Differ(1, 0 - Shift) /\ Differ(0, Shift)

ProductShows ==
  /\ slip.kind \in {"none", "digit", "half", "swap"}
  /\ slip.kind = "digit" => Unchecked \/ temp # temp2
  /\ slip.kind = "half" => \E t \in 1 .. 10 : temp = Mod1110(t, slip.one) /\ temp2 = Mod1110(t, slip.two)
  /\ slip.kind = "swap" => temp # temp2 \/ Unseen

CodeInv ==
  /\ CallOK /\ LabelOK /\ TypedOK /\ SlipOK
  /\ Both => /\ InStep
             /\ at = "digits" => SumsShow
             /\ at = "license" => ProductShows
  /\ BothPass /\ slip.kind = "digit" => Unchecked
  /\ BothPass /\ slip.kind = "swap" => Unseen

-----------------------------------------------------------------------------
(***************************************************************************)
(* What a pair of reads does.                                              *)
(***************************************************************************)
LEMMA DigitPair ==
  ASSUME NEW b \in Digit, NEW c \in Digit, at = "digits", at2 = "digits",
         left > 1, left = left2, left \in Nat, Verify(b), Typed!Verify(c)
  PROVE  /\ oddEven' = [oddEven EXCEPT ![isEven] = (@ + b) % 10]
         /\ oddEven2' = [oddEven2 EXCEPT ![isEven2] = (@ + c) % 10]
         /\ isEven' = 1 - isEven /\ isEven2' = 1 - isEven2
         /\ left' = left - 1 /\ left2' = left2 - 1
         /\ UNCHANGED <<parser, len, at, at2, temp, temp2, verdict, verdict2>>
<1>1. VerifyDigit(b)
  BY DEF Verify, VerifyCheck, LicenseDigit, LicenseCheck
<1>2. Typed!VerifyDigit(c)
  BY DEF Typed!Verify, Typed!VerifyCheck, Typed!LicenseDigit, Typed!LicenseCheck
<1> QED
  BY <1>1, <1>2 DEF VerifyDigit, Typed!VerifyDigit, Flip, Typed!Flip, Digit, Typed!Digit

LEMMA CheckPair ==
  ASSUME NEW b \in Digit, NEW c \in Digit, at = "digits", at2 = "digits",
         ~(left > 1), left = left2, left \in Nat, Verify(b), Typed!Verify(c), Both
  PROVE  /\ UNCHANGED <<parser, len>>
         /\ verdict' \in {"none", "ok"} => b = Digest(oddEven)
         /\ verdict2' \in {"none", "ok"} => c = Digest(oddEven2)
         /\ Both' => /\ at' = "suffix" /\ at2' = "suffix" /\ left' = left2'
                     /\ isEven' = 1 /\ isEven2' = 1
                     /\ oddEven' = Zero /\ oddEven2' = Zero /\ temp' = 10 /\ temp2' = 10
<1>1. VerifyCheck(b)
  BY DEF Verify, VerifyDigit, LicenseDigit, LicenseCheck
<1>2. Typed!VerifyCheck(c)
  BY DEF Typed!Verify, Typed!VerifyDigit, Typed!LicenseDigit, Typed!LicenseCheck
<1>3. Typed!Digest(oddEven2) = Digest(oddEven2) /\ Typed!Suffix = Suffix
  BY DEF Typed!Digest, Digest, Typed!Suffix, Suffix
<1> QED
  BY <1>1, <1>2, <1>3
     DEF VerifyCheck, Typed!VerifyCheck, Return, Typed!Return, GoTo, Typed!GoTo, Both, Zero

LEMMA ProductPair ==
  ASSUME NEW b \in Digit, NEW c \in Digit, at = "license", at2 = "license",
         left > 1, left = left2, left \in Nat, Verify(b), Typed!Verify(c)
  PROVE  /\ temp' = Mod1110(temp, b) /\ temp2' = Mod1110(temp2, c)
         /\ left' = left - 1 /\ left2' = left2 - 1
         /\ UNCHANGED <<parser, len, at, at2, isEven, isEven2, oddEven, oddEven2, verdict, verdict2>>
<1>1. LicenseDigit(b)
  BY DEF Verify, VerifyDigit, VerifyCheck, LicenseCheck
<1>2. Typed!LicenseDigit(c)
  BY DEF Typed!Verify, Typed!VerifyDigit, Typed!VerifyCheck, Typed!LicenseCheck
<1>3. Typed!Mod1110(temp2, c) = Mod1110(temp2, c)
  BY DEF Typed!Mod1110, Mod1110
<1> QED
  BY <1>1, <1>2, <1>3 DEF LicenseDigit, Typed!LicenseDigit, Digit, Typed!Digit

LEMMA LicensePair ==
  ASSUME NEW b \in Digit, NEW c \in Digit, at = "license", at2 = "license",
         ~(left > 1), left = left2, left \in Nat, Verify(b), Typed!Verify(c)
  PROVE  /\ UNCHANGED <<parser, len>>
         /\ verdict' # "none" /\ verdict2' # "none"
         /\ verdict' = "ok" => (temp + b) % 10 = 1
         /\ verdict2' = "ok" => (temp2 + c) % 10 = 1
<1>1. LicenseCheck(b)
  BY DEF Verify, VerifyDigit, VerifyCheck, LicenseDigit
<1>2. Typed!LicenseCheck(c)
  BY DEF Typed!Verify, Typed!VerifyDigit, Typed!VerifyCheck, Typed!LicenseDigit
<1> QED
  BY <1>1, <1>2 DEF LicenseCheck, Typed!LicenseCheck, Return, Typed!Return, Digit, Typed!Digit

-----------------------------------------------------------------------------
(***************************************************************************)
(* Types, whatever is read.                                                *)
(***************************************************************************)
LEMMA SumTyped ==
  ASSUME NEW s \in [0 .. 1 -> Digit], NEW k \in 0 .. 1, NEW b \in Digit
  PROVE  [s EXCEPT ![k] = (@ + b) % 10] \in [0 .. 1 -> Digit]
BY Residues DEF Digit

LEMMA LabelTyped ==
  ASSUME CallOK, LabelOK,
         \/ \E n \in Lengths, p \in Prefix : Parse(n, p)
         \/ \E b \in Byte : Read(b)
         \/ \E p \in Prefix : SuffixKind(p)
  PROVE  LabelOK' /\ CallOK'
<1>0. 10 \in 1 .. 10 /\ Zero \in [0 .. 1 -> Digit]
  BY DEF Zero, Digit
<1> USE DEF LabelOK, CallOK, Return, GoTo, Zero, Whole
<1>1. ASSUME NEW n \in Lengths, NEW p \in Prefix, Parse(n, p)
      PROVE  LabelOK' /\ CallOK'
  <2>1. n \in Nat
    BY WidthAssumption
  <2>2. CASE ParseBarCode(n, p)
    BY <1>0, <2>1, <2>2, WidthAssumption DEF ParseBarCode, Call
  <2>3. CASE ParseSscc(n, p)
    BY <1>0, <2>1, <2>3, WidthAssumption DEF ParseSscc, Call
  <2>4. CASE ParseGln(n, p)
    BY <1>0, <2>1, <2>4, WidthAssumption DEF ParseGln, Call
  <2>5. CASE ParseLicense(n, p)
    BY <1>0, <2>1, <2>5, WidthAssumption DEF ParseLicense, Call
  <2> QED
    BY <1>1, <2>2, <2>3, <2>4, <2>5 DEF Parse
<1>2. ASSUME NEW b \in Byte, Read(b)
      PROVE  LabelOK' /\ CallOK'
  <2>1. CASE VerifyDigit(b)
    <3>1. CASE b \in Digit
      <4>1. oddEven' \in [0 .. 1 -> Digit]
        BY <2>1, <3>1, SumTyped, 0 \in 0 .. 1 DEF VerifyDigit
      <4>2. Whole' = Whole /\ Whole \in Nat
        BY <2>1, WidthAssumption DEF VerifyDigit
      <4>3. at' = at /\ parser' = parser /\ len' = len /\ temp' = temp
            /\ left > 1 /\ left' = left - 1 /\ isEven' = 1 - isEven /\ at = "digits"
        BY <2>1, <3>1 DEF VerifyDigit, Flip
      <4> HIDE DEF Whole
      <4> QED
        BY <4>1, <4>2, <4>3
    <3>2. CASE b \notin Digit
      BY <1>0, <2>1, <3>2 DEF VerifyDigit
    <3> QED
      BY <3>1, <3>2
  <2>2. CASE VerifyCheck(b)
    BY <1>0, <2>2, WidthAssumption DEF VerifyCheck, Suffix
  <2>3. CASE SuffixByte(b)
    BY <1>0, <2>3 DEF SuffixByte
  <2>4. CASE LicenseDigit(b)
    BY <1>0, <2>4, ProductRange DEF LicenseDigit
  <2>5. CASE LicenseCheck(b)
    BY <1>0, <2>5 DEF LicenseCheck
  <2>6. CASE LicenseLetter(b)
    BY <1>0, <2>6, WidthAssumption DEF LicenseLetter
  <2>7. CASE LicenseNumber(b)
    BY <1>0, <2>7 DEF LicenseNumber
  <2> QED
    BY <1>2, <2>1, <2>2, <2>3, <2>4, <2>5, <2>6, <2>7 DEF Read, Verify
<1>3. ASSUME NEW p \in Prefix, SuffixKind(p)
      PROVE  LabelOK' /\ CallOK'
  BY <1>0, <1>3 DEF SuffixKind
<1> QED
  BY <1>1, <1>2, <1>3

LEMMA TypedTyped ==
  ASSUME CallOK, TypedOK,
         \/ \E n \in Lengths, p \in Prefix : Typed!Parse(n, p)
         \/ \E b \in Byte : Typed!Read(b)
         \/ \E p \in Prefix : Typed!SuffixKind(p)
  PROVE  TypedOK'
<1>0. 10 \in 1 .. 10 /\ Zero \in [0 .. 1 -> Digit]
  BY DEF Zero, Digit
<1> USE DEF TypedOK, CallOK, Typed!Return, Typed!GoTo, Zero
<1>1. ASSUME NEW n \in Lengths, NEW p \in Prefix, Typed!Parse(n, p)
      PROVE  TypedOK'
  <2>1. n \in Nat
    BY WidthAssumption
  <2>2. CASE Typed!ParseBarCode(n, p)
    BY <1>0, <2>1, <2>2, WidthAssumption DEF Typed!ParseBarCode, Typed!Call
  <2>3. CASE Typed!ParseSscc(n, p)
    BY <1>0, <2>1, <2>3, WidthAssumption DEF Typed!ParseSscc, Typed!Call
  <2>4. CASE Typed!ParseGln(n, p)
    BY <1>0, <2>1, <2>4, WidthAssumption DEF Typed!ParseGln, Typed!Call
  <2>5. CASE Typed!ParseLicense(n, p)
    BY <1>0, <2>1, <2>5, WidthAssumption DEF Typed!ParseLicense, Typed!Call
  <2> QED
    BY <1>1, <2>2, <2>3, <2>4, <2>5 DEF Typed!Parse
<1>2. ASSUME NEW b \in Byte, Typed!Read(b)
      PROVE  TypedOK'
  <2>1. CASE Typed!VerifyDigit(b)
    BY <1>0, <2>1, SumTyped DEF Typed!VerifyDigit, Typed!Flip, Typed!Digit, Digit
  <2>2. CASE Typed!VerifyCheck(b)
    BY <1>0, <2>2, WidthAssumption DEF Typed!VerifyCheck, Typed!Suffix
  <2>3. CASE Typed!SuffixByte(b)
    BY <1>0, <2>3 DEF Typed!SuffixByte
  <2>4. CASE Typed!LicenseDigit(b)
    BY <1>0, <2>4, ProductRange DEF Typed!LicenseDigit, Typed!Mod1110, Mod1110, Typed!Digit, Digit
  <2>5. CASE Typed!LicenseCheck(b)
    BY <1>0, <2>5 DEF Typed!LicenseCheck
  <2>6. CASE Typed!LicenseLetter(b)
    BY <1>0, <2>6, WidthAssumption DEF Typed!LicenseLetter
  <2>7. CASE Typed!LicenseNumber(b)
    BY <1>0, <2>7 DEF Typed!LicenseNumber
  <2> QED
    BY <1>2, <2>1, <2>2, <2>3, <2>4, <2>5, <2>6, <2>7 DEF Typed!Read, Typed!Verify
<1>3. ASSUME NEW p \in Prefix, Typed!SuffixKind(p)
      PROVE  TypedOK'
  BY <1>0, <1>3 DEF Typed!SuffixKind
<1> QED
  BY <1>1, <1>2, <1>3

-----------------------------------------------------------------------------
(***************************************************************************)
(* Preservation, action by action.  Rest is what is left beside the types. *)
(***************************************************************************)
Rest ==
  /\ Both => /\ InStep
             /\ at = "digits" => SumsShow
             /\ at = "license" => ProductShows
  /\ BothPass /\ slip.kind = "digit" => Unchecked
  /\ BothPass /\ slip.kind = "swap" => Unseen

LEMMA CallStep ==
  ASSUME CodeInv, Both, SameCall
  PROVE  SlipOK' /\ Rest'
<1>1. PICK n \in Lengths, p \in Prefix : Parse(n, p) /\ Typed!Parse(n, p) /\ UNCHANGED slip
  BY DEF SameCall
<1>2. at = "idle" /\ slip.kind = "none"
  BY DEF CodeInv, InStep, Both, SameCall
<1>3. SlipOK'
  BY <1>1 DEF CodeInv, SlipOK
<1>4. parser' = "bar_code" \/ parser' = "sscc" \/ parser' = "gln" => at' # "license"
  BY <1>1 DEF Parse, ParseBarCode, ParseSscc, ParseGln, ParseLicense, Call, Return, GoTo
<1>5. /\ parser' = "license" => at' # "digits"
      /\ oddEven' = Zero /\ isEven' = 1 /\ temp' = 10
      /\ parser' \in {"bar_code", "sscc", "gln", "license"}
  BY <1>1 DEF Parse, ParseBarCode, ParseSscc, ParseGln, ParseLicense, Call, Return, GoTo, Zero
<1>6. oddEven2' = Zero /\ isEven2' = 1 /\ temp2' = 10
  BY <1>1 DEF Typed!Parse, Typed!ParseBarCode, Typed!ParseSscc, Typed!ParseGln, Typed!ParseLicense,
              Typed!Call, Typed!Return, Typed!GoTo, Zero
<1>7. Both' => at' = at2' /\ left' = left2'
  <2>1. CASE ParseBarCode(n, p)
    BY <1>1, <2>1 DEF Both, ParseBarCode, Call, Return, GoTo, Typed!Parse, Typed!ParseBarCode,
       Typed!ParseSscc, Typed!ParseGln, Typed!ParseLicense, Typed!Call, Typed!Return, Typed!GoTo
  <2>2. CASE ParseSscc(n, p)
    BY <1>1, <2>2 DEF Both, ParseSscc, Call, Return, GoTo, Typed!Parse, Typed!ParseBarCode,
       Typed!ParseSscc, Typed!ParseGln, Typed!ParseLicense, Typed!Call, Typed!Return, Typed!GoTo
  <2>3. CASE ParseGln(n, p)
    BY <1>1, <2>3 DEF Both, ParseGln, Call, Return, GoTo, Typed!Parse, Typed!ParseBarCode,
       Typed!ParseSscc, Typed!ParseGln, Typed!ParseLicense, Typed!Call, Typed!Return, Typed!GoTo
  <2>4. CASE ParseLicense(n, p)
    BY <1>1, <2>4, WidthAssumption DEF Both, ParseLicense, Call, Return, GoTo, Typed!Parse, Typed!ParseBarCode,
       Typed!ParseSscc, Typed!ParseGln, Typed!ParseLicense, Typed!Call, Typed!Return, Typed!GoTo,
       ToUpper, Typed!ToUpper, LetterS, LetterC, Typed!LetterS, Typed!LetterC,
       Upper, Lower, Letter, Typed!Upper, Typed!Lower, Typed!Letter
  <2> QED
    BY <1>1, <2>1, <2>2, <2>3, <2>4 DEF Parse
<1>8. slip' = slip
  BY <1>1
<1> QED
  BY <1>2, <1>3, <1>4, <1>5, <1>6, <1>7, <1>8
     DEF Rest, Both, BothPass, InStep, SumsShow, ProductShows, Alike, Unchecked

LEMMA KindStep ==
  ASSUME CodeInv, Both, SameKind
  PROVE  SlipOK' /\ Rest'
<1>1. PICK p \in Prefix : SuffixKind(p) /\ Typed!SuffixKind(p) /\ UNCHANGED slip
  BY DEF SameKind
<1>2. verdict' # "none" /\ parser' = parser /\ slip' = slip
  BY <1>1 DEF SuffixKind, Return
<1>3. Alike \/ (slip.kind = "swap" /\ Unseen)
  BY DEF CodeInv, InStep, Both, SameKind
<1> QED
  BY <1>2, <1>3 DEF CodeInv, SlipOK, Rest, Both, BothPass, Unseen, Alike, Unchecked

\* A digit that both codes have.
LEMMA SameDigitInSums ==
  ASSUME CodeInv, Both, at = "digits", NEW b \in Digit, Verify(b), Typed!Verify(b),
         slip.kind \in {"none", "digit", "swap"} \/ (slip.kind = "apart" /\ left > 1),
         slip' = slip
  PROVE  Rest'
<1>1. /\ at2 = "digits" /\ left = left2 /\ left \in Nat /\ isEven = isEven2 /\ isEven \in 0 .. 1
      /\ oddEven \in [0 .. 1 -> Digit] /\ oddEven2 \in [0 .. 1 -> Digit]
      /\ SumsShow /\ InStep /\ SlipOK
  BY DEF CodeInv, LabelOK, TypedOK, InStep
<1>2. CASE left > 1
  <2>1. /\ oddEven' = [oddEven EXCEPT ![isEven] = (@ + b) % 10]
        /\ oddEven2' = [oddEven2 EXCEPT ![isEven2] = (@ + b) % 10]
        /\ isEven' = 1 - isEven /\ isEven2' = 1 - isEven2
        /\ left' = left - 1 /\ left2' = left2 - 1
        /\ UNCHANGED <<parser, len, at, at2, temp, temp2, verdict, verdict2>>
    BY <1>1, <1>2, DigitPair
  <2>2. \A k \in 0 .. 1 : /\ oddEven[k] \in Digit /\ oddEven2[k] \in Digit
                          /\ oddEven'[k] = IF k = isEven THEN (oddEven[k] + b) % 10 ELSE oddEven[k]
                          /\ oddEven2'[k] = IF k = isEven THEN (oddEven2[k] + b) % 10 ELSE oddEven2[k]
    BY <1>1, <2>1
  <2>3. \A k \in 0 .. 1 : oddEven[k] = oddEven2[k] <=> oddEven'[k] = oddEven2'[k]
    <3> TAKE k \in 0 .. 1
    <3>1. CASE k = isEven
      BY <2>2, <3>1, SumsKeep
    <3>2. CASE k # isEven
      BY <2>2, <3>2
    <3> QED
      BY <3>1, <3>2
  <2>4. ASSUME NEW k \in 0 .. 1, NEW d \in Int, (oddEven2[k] - oddEven[k] - d) % 10 = 0
        PROVE  (oddEven2'[k] - oddEven'[k] - d) % 10 = 0
    <3>1. CASE k = isEven
      <4> DEFINE x == oddEven[k]
                 y == oddEven2[k]
      <4>1. x \in Digit /\ y \in Digit /\ (y - x - d) % 10 = 0
        BY <2>2, <2>4
      <4>2. oddEven'[k] = (x + b) % 10 /\ oddEven2'[k] = (y + b) % 10
        BY <2>2, <3>1
      <4> HIDE DEF x, y
      <4>3. (((y + b) % 10) - ((x + b) % 10) - d) % 10 = 0
        BY <4>1, DifferenceKeeps
      <4> QED
        BY <4>1, <4>2, <4>3 DEF Digit
    <3>2. CASE k # isEven
      BY <2>2, <2>4, <3>2
    <3> QED
      BY <3>1, <3>2
  <2>5. Shift \in Int /\ 0 - Shift \in Int /\ Shift' = Shift
    BY <1>1 DEF Shift, SlipOK, Digit
  <2>6. SumsShow'
    BY <1>1, <2>1, <2>3, <2>4, <2>5, 0 \in 0 .. 1, 1 \in 0 .. 1 DEF SumsShow, Differ, Unchecked
  <2>7. Alike' <=> Alike
    BY <2>1 DEF Alike, Unchecked
  <2>8. Alike => oddEven' = oddEven2'
    BY <1>1, <2>1 DEF InStep
  <2> QED
    BY <1>1, <2>1, <2>6, <2>7, <2>8 DEF Rest, InStep, Both, BothPass, CodeInv
<1>3. CASE ~(left > 1)
  <2>1. /\ UNCHANGED <<parser, len>>
        /\ verdict' \in {"none", "ok"} => b = Digest(oddEven)
        /\ verdict2' \in {"none", "ok"} => b = Digest(oddEven2)
        /\ Both' => /\ at' = "suffix" /\ at2' = "suffix" /\ left' = left2'
                    /\ isEven' = 1 /\ isEven2' = 1
                    /\ oddEven' = Zero /\ oddEven2' = Zero /\ temp' = 10 /\ temp2' = 10
    BY <1>1, <1>3, CheckPair
  <2>2. Both' \/ BothPass' => Digest(oddEven) = Digest(oddEven2)
    BY <2>1 DEF Both, BothPass
  <2>3. CASE slip.kind = "digit" /\ ~Unchecked
    <3>1. Digest(oddEven) # Digest(oddEven2)
      BY <1>1, <2>3, DigestSees DEF SumsShow
    <3> QED
      BY <2>2, <3>1 DEF Rest
  <2>4. CASE slip.kind = "swap"
    <3>1. Digest(oddEven) = Digest(oddEven2) => (slip.one - slip.two) % 10 = 5
      <4> SUFFICES ASSUME Digest(oddEven) = Digest(oddEven2)
                   PROVE  (slip.one - slip.two) % 10 = 5
        OBVIOUS
      <4> DEFINE one == slip.one
                 two == slip.two
      <4>1. one \in Digit /\ two \in Digit /\ one # two
        BY <1>1, <2>4 DEF SlipOK
      <4>2. \A k \in 0 .. 1 : oddEven[k] \in 0 .. 9 /\ oddEven2[k] \in 0 .. 9
        BY <1>1 DEF Digit
      <4>3. \/ (oddEven2[1] - oddEven[1] - (two - one)) % 10 = 0
               /\ (oddEven2[0] - oddEven[0] + (two - one)) % 10 = 0
            \/ (oddEven[1] - oddEven2[1] - (two - one)) % 10 = 0
               /\ (oddEven[0] - oddEven2[0] + (two - one)) % 10 = 0
        <5>1. \/ /\ (oddEven2[1] - oddEven[1] - (two - one)) % 10 = 0
                 /\ (oddEven2[0] - oddEven[0] - (0 - (two - one))) % 10 = 0
              \/ /\ (oddEven2[1] - oddEven[1] - (0 - (two - one))) % 10 = 0
                 /\ (oddEven2[0] - oddEven[0] - (two - one)) % 10 = 0
          BY <1>1, <2>4 DEF SumsShow, Differ, Shift
        <5> QED
          BY <4>1, <4>2, <5>1, 0 \in 0 .. 1, 1 \in 0 .. 1 DEF Digit
      <4> HIDE DEF one, two
      <4>4. (one - two) % 10 = 5
        BY <1>1, <4>1, <4>3, DigestSeesSwap
      <4> QED
        BY <4>4 DEF one, two
    <3>2. Both' \/ BothPass' => Unseen'
      BY <1>1, <2>1, <2>2, <3>1 DEF Unseen, InStep
    <3> QED
      BY <1>1, <2>1, <2>4, <3>2 DEF Rest, InStep, Both, BothPass
  <2>5. CASE Alike
    BY <1>1, <2>1, <2>5 DEF Rest, InStep, Both, BothPass, Alike, Unchecked
  <2> QED
    BY <1>3, <2>3, <2>4, <2>5 DEF Alike
<1> QED
  BY <1>2, <1>3

LEMMA SameDigitInProduct ==
  ASSUME CodeInv, Both, at = "license", NEW b \in Digit, Verify(b), Typed!Verify(b),
         slip.kind \in {"none", "digit", "swap"}, slip' = slip
  PROVE  Rest'
<1>1. /\ at2 = "license" /\ left = left2 /\ left \in Nat
      /\ temp \in 1 .. 10 /\ temp2 \in 1 .. 10
      /\ ProductShows /\ InStep /\ SlipOK
  BY DEF CodeInv, LabelOK, TypedOK, InStep
<1>2. CASE left > 1
  <2>1. /\ temp' = Mod1110(temp, b) /\ temp2' = Mod1110(temp2, b)
        /\ left' = left - 1 /\ left2' = left2 - 1
        /\ UNCHANGED <<parser, len, at, at2, isEven, isEven2, oddEven, oddEven2, verdict, verdict2>>
    BY <1>1, <1>2, ProductPair
  <2>2. temp # temp2 => temp' # temp2'
    BY <1>1, <2>1, ProductSees
  <2>3. (Unseen' <=> Unseen) /\ (Unchecked' <=> Unchecked)
    BY <2>1 DEF Unseen, Unchecked
  <2>4. ProductShows'
    BY <1>1, <2>2, <2>3 DEF ProductShows
  <2> QED
    BY <1>1, <2>1, <2>3, <2>4 DEF Rest, InStep, Both, BothPass, CodeInv, Alike
<1>3. CASE ~(left > 1)
  <2>1. /\ UNCHANGED <<parser, len>>
        /\ verdict' # "none" /\ verdict2' # "none"
        /\ verdict' = "ok" => (temp + b) % 10 = 1
        /\ verdict2' = "ok" => (temp2 + b) % 10 = 1
    BY <1>1, <1>3, LicensePair
  <2>2. BothPass' => temp = temp2
    BY <1>1, <2>1 DEF BothPass, Digit
  <2>3. (Unseen' <=> Unseen) /\ (Unchecked' <=> Unchecked)
    BY <2>1 DEF Unseen, Unchecked
  <2> QED
    BY <1>1, <2>1, <2>2, <2>3 DEF Rest, Both, BothPass, ProductShows
<1> QED
  BY <1>2, <1>3

\* A byte that is no digit, or that no check digit covers.
LEMMA OtherByte ==
  ASSUME CodeInv, Both, NEW b \in Byte, Read(b), Typed!Read(b), slip' = slip,
         at \notin {"digits", "license"} \/ b \notin Digit
  PROVE  Rest'
<1>1. /\ at = at2 /\ left = left2 /\ isEven = isEven2
      /\ InStep
  BY DEF CodeInv, InStep
<1>2. CASE at = "digits" \/ at = "license"
  <2>1. b \notin Digit
    BY <1>2
  <2>2. verdict' # "none" /\ verdict' # "ok"
    BY <1>2, <2>1 DEF Read, Verify, VerifyDigit, VerifyCheck, LicenseDigit, LicenseCheck,
       SuffixByte, LicenseLetter, LicenseNumber, Return, Digest, Digit, CodeInv, LabelOK
  <2> QED
    BY <2>2 DEF Rest, Both, BothPass
<1>3. CASE at = "suffix"
  <2>1. SuffixByte(b)
    BY <1>3 DEF Read, Verify, VerifyDigit, VerifyCheck, LicenseDigit, LicenseCheck, LicenseLetter, LicenseNumber
  <2>2. Typed!SuffixByte(b)
    BY <1>1, <1>3 DEF Typed!Read, Typed!Verify, Typed!VerifyDigit, Typed!VerifyCheck, Typed!LicenseDigit,
       Typed!LicenseCheck, Typed!LicenseLetter, Typed!LicenseNumber
  <2> QED
    BY <1>1, <1>3, <2>1, <2>2
       DEF SuffixByte, Typed!SuffixByte, Return, GoTo, Typed!Return, Typed!GoTo,
           Rest, InStep, Both, BothPass, Unseen, Alike, Unchecked
<1>4. CASE at = "letter"
  <2>1. LicenseLetter(b)
    BY <1>4 DEF Read, Verify, VerifyDigit, VerifyCheck, LicenseDigit, LicenseCheck, SuffixByte, LicenseNumber
  <2>2. Typed!LicenseLetter(b)
    BY <1>1, <1>4 DEF Typed!Read, Typed!Verify, Typed!VerifyDigit, Typed!VerifyCheck, Typed!LicenseDigit,
       Typed!LicenseCheck, Typed!SuffixByte, Typed!LicenseNumber
  <2> QED
    BY <1>1, <1>4, <2>1, <2>2
       DEF LicenseLetter, Typed!LicenseLetter, Return, GoTo, Typed!Return, Typed!GoTo,
           Rest, InStep, Both, BothPass, Unseen, Alike, Unchecked
<1>5. CASE at = "number"
  <2>1. LicenseNumber(b)
    BY <1>5 DEF Read, Verify, VerifyDigit, VerifyCheck, LicenseDigit, LicenseCheck, SuffixByte, LicenseLetter
  <2>2. Typed!LicenseNumber(b)
    BY <1>1, <1>5 DEF Typed!Read, Typed!Verify, Typed!VerifyDigit, Typed!VerifyCheck, Typed!LicenseDigit,
       Typed!LicenseCheck, Typed!SuffixByte, Typed!LicenseLetter
  <2> QED
    BY <1>1, <1>5, <2>1, <2>2
       DEF LicenseNumber, Typed!LicenseNumber, Return, GoTo, Typed!Return, Typed!GoTo,
           Rest, InStep, Both, BothPass, Unseen, Alike, Unchecked
<1> QED
  BY <1>2, <1>3, <1>4, <1>5 DEF Read, Verify, VerifyDigit, VerifyCheck, LicenseDigit, LicenseCheck,
     SuffixByte, LicenseLetter, LicenseNumber

LEMMA Bytes == Digit \subseteq Byte /\ Typed!Byte = Byte
BY DEF Digit, Byte, Alnum, Letter, Upper, Lower,
       Typed!Byte, Typed!Alnum, Typed!Letter, Typed!Upper, Typed!Lower, Typed!Digit

LEMMA PrefixChanged ==
  \A p \in Prefix : \A i \in 1 .. 3, c \in Digit : [p EXCEPT ![i] = c] \in Prefix
BY Bytes DEF Prefix

\* Verify reads nothing but what a check digit covers.
LEMMA VerifyWhere == \A b : Verify(b) => at \in {"digits", "license"}
BY DEF Verify, VerifyDigit, VerifyCheck, LicenseDigit, LicenseCheck

LEMMA ReadWhere ==
  ASSUME NEW b \in Byte, Read(b), at \in {"digits", "license"}
  PROVE  Verify(b)
BY DEF Read, SuffixByte, LicenseLetter, LicenseNumber

LEMMA TypedWhere ==
  ASSUME NEW b \in Byte, Typed!Read(b), at2 \in {"digits", "license"}
  PROVE  Typed!Verify(b)
BY DEF Typed!Read, Typed!SuffixByte, Typed!LicenseLetter, Typed!LicenseNumber

LEMMA ByteStep ==
  ASSUME CodeInv, Both, SameByte
  PROVE  SlipOK' /\ Rest'
<1>1. PICK b \in Byte : Read(b) /\ Typed!Read(b) /\ UNCHANGED slip
  BY DEF SameByte
<1>2. at = at2 /\ SlipOK
  BY DEF CodeInv, InStep
<1>3. SlipOK'
  BY <1>1, <1>2 DEF SlipOK
<1>4. CASE at \notin {"digits", "license"} \/ b \notin Digit
  BY <1>1, <1>3, <1>4, OtherByte
<1>5. CASE b \in Digit /\ at = "digits"
  BY <1>1, <1>2, <1>3, <1>5, ReadWhere, TypedWhere, SameDigitInSums DEF SameByte
<1>6. CASE b \in Digit /\ at = "license"
  <2>1. slip.kind # "apart"
    BY <1>6 DEF CodeInv, ProductShows
  <2> QED
    BY <1>1, <1>2, <1>3, <1>6, <2>1, ReadWhere, TypedWhere, SameDigitInProduct DEF SameByte
<1> QED
  BY <1>4, <1>5, <1>6

\* Two different digits that are read where the codes were equal so far.
LEMMA FirstDifference ==
  ASSUME CodeInv, Both, slip.kind = "none", NEW b \in Digit, NEW c \in Digit, b # c,
         Verify(b), Typed!Verify(c)
  PROVE  /\ UNCHANGED <<parser, len>>
         /\ BothPass' => FALSE
         /\ Both' =>
              /\ left > 1 /\ left' = left - 1 /\ left2' = left'
              /\ UNCHANGED <<at, at2>> /\ isEven' = isEven2'
              /\ at = "digits" =>
                   /\ isEven' = 1 - isEven
                   /\ oddEven'[1 - isEven] = oddEven2'[1 - isEven]
                   /\ oddEven'[isEven] # oddEven2'[isEven]
                   /\ (oddEven2'[isEven] - oddEven'[isEven] - (c - b)) % 10 = 0
              /\ at = "license" =>
                   \E t \in 1 .. 10 : temp' = Mod1110(t, b) /\ temp2' = Mod1110(t, c)
<1>1. /\ at2 = at /\ left = left2 /\ left \in Nat /\ isEven = isEven2 /\ isEven \in 0 .. 1
      /\ oddEven \in [0 .. 1 -> Digit] /\ oddEven2 = oddEven
      /\ temp \in 1 .. 10 /\ temp2 = temp /\ InStep
  BY DEF CodeInv, LabelOK, TypedOK, InStep, Alike
<1>2. at = "digits" \/ at = "license"
  BY VerifyWhere
<1>3. CASE at = "digits" /\ left > 1
  <2>1. /\ oddEven' = [oddEven EXCEPT ![isEven] = (@ + b) % 10]
        /\ oddEven2' = [oddEven2 EXCEPT ![isEven2] = (@ + c) % 10]
        /\ isEven' = 1 - isEven /\ isEven2' = 1 - isEven2
        /\ left' = left - 1 /\ left2' = left2 - 1
        /\ UNCHANGED <<parser, len, at, at2, temp, temp2, verdict, verdict2>>
    BY <1>1, <1>3, DigitPair
  <2> DEFINE x == oddEven[isEven]
  <2>2. x \in Digit
    BY <1>1
  <2>3. oddEven'[isEven] = (x + b) % 10 /\ oddEven2'[isEven] = (x + c) % 10
    BY <1>1, <2>1
  <2>4. oddEven'[1 - isEven] = oddEven2'[1 - isEven]
    BY <1>1, <2>1
  <2> HIDE DEF x
  <2>5. /\ (x + b) % 10 # (x + c) % 10
        /\ (((x + c) % 10) - ((x + b) % 10) - (c - b)) % 10 = 0
    BY <2>2 DEF Digit
  <2>6. /\ oddEven'[isEven] # oddEven2'[isEven]
        /\ (oddEven2'[isEven] - oddEven'[isEven] - (c - b)) % 10 = 0
    BY <2>2, <2>3, <2>5 DEF Digit
  <2> QED
    BY <1>1, <1>3, <2>1, <2>4, <2>6 DEF Both, BothPass
<1>4. CASE at = "digits" /\ ~(left > 1)
  BY <1>1, <1>4, CheckPair DEF Both, BothPass
<1>5. CASE at = "license" /\ left > 1
  <2>1. /\ temp' = Mod1110(temp, b) /\ temp2' = Mod1110(temp2, c)
        /\ left' = left - 1 /\ left2' = left2 - 1
        /\ UNCHANGED <<parser, len, at, at2, isEven, isEven2, oddEven, oddEven2, verdict, verdict2>>
    BY <1>1, <1>5, ProductPair
  <2> QED
    BY <1>1, <1>5, <2>1 DEF Both, BothPass
<1>6. CASE at = "license" /\ ~(left > 1)
  <2>1. /\ UNCHANGED <<parser, len>>
        /\ verdict' # "none" /\ verdict2' # "none"
        /\ verdict' = "ok" => (temp + b) % 10 = 1
        /\ verdict2' = "ok" => (temp2 + c) % 10 = 1
    BY <1>1, <1>6, LicensePair
  <2>2. ~((temp + b) % 10 = 1 /\ (temp + c) % 10 = 1)
    BY <1>1 DEF Digit
  <2> QED
    BY <1>1, <2>1, <2>2 DEF Both, BothPass
<1> QED
  BY <1>2, <1>3, <1>4, <1>5, <1>6

\* A wrong digit under a check digit.
LEMMA WrongWhereChecked ==
  ASSUME CodeInv, Both, slip.kind = "none", NEW b \in Digit, NEW c \in Digit, b # c,
         Verify(b), Typed!Verify(c),
         slip' = [kind |-> "digit", part |-> at, one |-> b, two |-> c]
  PROVE  Rest'
<1>1. at = at2 /\ isEven \in 0 .. 1 /\ InStep
  BY DEF CodeInv, InStep, LabelOK
<1>2. at \in {"digits", "license"}
  BY VerifyWhere
<1>3. ~Alike'
  BY <1>2 DEF Alike, Unchecked
<1>4. Both' => SumsShow' \/ at' # "digits"
  BY <1>1, FirstDifference DEF SumsShow
<1>5. Both' => ProductShows' \/ at' # "license"
  <2> SUFFICES ASSUME Both', at' = "license"
               PROVE  ProductShows'
    OBVIOUS
  <2>1. at = "license"
    BY FirstDifference
  <2>2. PICK t \in 1 .. 10 : temp' = Mod1110(t, b) /\ temp2' = Mod1110(t, c)
    BY <2>1, FirstDifference
  <2>3. temp' # temp2'
    BY <2>2, ProductSees
  <2> QED
    BY <2>3 DEF ProductShows
<1>6. Both' => InStep'
  BY <1>1, <1>2, <1>3, FirstDifference DEF InStep
<1> QED
  BY <1>4, <1>5, <1>6, FirstDifference DEF Rest

\* A wrong digit that is read elsewhere.
LEMMA WrongElsewhere ==
  ASSUME CodeInv, Both, slip.kind = "none", NEW b \in Digit, NEW c \in Digit,
         Read(b), Typed!Read(c), at \notin {"digits", "license"},
         slip' = [kind |-> "digit", part |-> at, one |-> b, two |-> c]
  PROVE  Rest' /\ at \in {"suffix", "letter", "number"}
<1>1. at = at2 /\ left = left2 /\ InStep
  BY DEF CodeInv, InStep, Alike, Unchecked
<1>2. at \in {"suffix", "letter", "number"}
  BY DEF Read, Verify, VerifyDigit, VerifyCheck, SuffixByte, LicenseDigit, LicenseCheck,
     LicenseLetter, LicenseNumber
<1>3. CASE at = "suffix"
  <2>1. SuffixByte(b)
    BY <1>3 DEF Read, Verify, VerifyDigit, VerifyCheck, LicenseDigit, LicenseCheck, LicenseLetter, LicenseNumber
  <2>2. Typed!SuffixByte(c)
    BY <1>1, <1>3 DEF Typed!Read, Typed!Verify, Typed!VerifyDigit, Typed!VerifyCheck, Typed!LicenseDigit,
       Typed!LicenseCheck, Typed!LicenseLetter, Typed!LicenseNumber
  <2>3. b \in Alnum /\ c \in Typed!Alnum
    BY DEF Alnum, Typed!Alnum, Digit, Typed!Digit
  <2>4. at' = at2' /\ left' = left2' /\ at' \in {"suffix", "done"} /\ isEven' = isEven2'
        /\ oddEven' = oddEven2' /\ temp' = temp2' /\ UNCHANGED <<verdict, verdict2>>
    BY <1>1, <2>1, <2>2, <2>3 DEF SuffixByte, Typed!SuffixByte, GoTo, Typed!GoTo
  <2>5. Unchecked'
    BY <1>3 DEF Unchecked
  <2> QED
    BY <1>2, <2>4, <2>5 DEF Rest, InStep, Both, BothPass, Alike
<1>4. CASE at = "letter"
  <2>1. LicenseLetter(b)
    BY <1>4 DEF Read, Verify, VerifyDigit, VerifyCheck, LicenseDigit, LicenseCheck, SuffixByte, LicenseNumber
  <2>2. verdict' = "UseUnexpectCharacter"
    BY <2>1 DEF LicenseLetter, Return, Letter, Upper, Lower, Digit
  <2> QED
    BY <1>2, <2>2 DEF Rest, Both, BothPass
<1>5. CASE at = "number"
  <2>1. LicenseNumber(b)
    BY <1>5 DEF Read, Verify, VerifyDigit, VerifyCheck, LicenseDigit, LicenseCheck, SuffixByte, LicenseLetter
  <2>2. Typed!LicenseNumber(c)
    BY <1>1, <1>5 DEF Typed!Read, Typed!Verify, Typed!VerifyDigit, Typed!VerifyCheck, Typed!LicenseDigit,
       Typed!LicenseCheck, Typed!SuffixByte, Typed!LicenseLetter
  <2>3. c \in Typed!Digit
    BY DEF Digit, Typed!Digit
  <2>4. Both' => /\ at' = at2' /\ left' = left2' /\ at' = "number" /\ isEven' = isEven2'
                 /\ oddEven' = oddEven2' /\ temp' = temp2'
    BY <1>1, <2>1, <2>2, <2>3
       DEF LicenseNumber, Typed!LicenseNumber, GoTo, Typed!GoTo, Return, Typed!Return, Both
  <2>5. Unchecked'
    BY <1>5 DEF Unchecked
  <2> QED
    BY <1>2, <2>4, <2>5 DEF Rest, InStep, Both, BothPass, Alike
<1> QED
  BY <1>2, <1>3, <1>4, <1>5

LEMMA WrongStep ==
  ASSUME CodeInv, Both, WrongDigit
  PROVE  SlipOK' /\ Rest'
<1>1. PICK b \in Digit, c \in Digit :
        /\ b # c /\ Read(b) /\ Typed!Read(c)
        /\ slip' = [kind |-> "digit", part |-> at, one |-> b, two |-> c]
  BY DEF WrongDigit, Slip
<1>2. slip.kind = "none" /\ at = at2
  BY DEF WrongDigit, CodeInv, InStep, Alike, Unchecked
<1>3. CASE at \in {"digits", "license"}
  <2>1. Verify(b) /\ Typed!Verify(c)
    BY <1>1, <1>2, <1>3, ReadWhere, TypedWhere, Bytes
  <2>2. SlipOK'
    BY <1>1, <1>3 DEF SlipOK
  <2> QED
    BY <1>1, <1>2, <2>1, <2>2, WrongWhereChecked
<1>4. CASE at \notin {"digits", "license"}
  <2>1. Rest' /\ at \in {"suffix", "letter", "number"}
    BY <1>1, <1>2, <1>4, WrongElsewhere
  <2> QED
    BY <1>1, <2>1 DEF SlipOK
<1> QED
  BY <1>3, <1>4

\* A wrong digit in an identifier is seen, but for the third of a GLN's.
LEMMA PrefixStep ==
  ASSUME CodeInv, Both, WrongPrefix
  PROVE  SlipOK' /\ Rest'
<1>1. PICK n \in Lengths, p \in Prefix, i \in 1 .. 3, c \in Digit :
        /\ p[i] \in Digit \ {c}
        /\ Parse(n, p) /\ at' = "digits" /\ Typed!Parse(n, [p EXCEPT ![i] = c])
        /\ i \in Identifier(parser', n)
        /\ slip' = [kind |-> "digit", part |-> "prefix", one |-> p[i], two |-> c]
  BY DEF WrongPrefix, Slip
<1> DEFINE q == [p EXCEPT ![i] = c]
<1>2. /\ i = 1 => q[1] = c /\ q[2] = p[2]
      /\ i = 2 => q[1] = p[1] /\ q[2] = c
      /\ i = 3 => q[1] = p[1] /\ q[2] = p[2]
  BY DEF Prefix
<1>3. at = "idle" /\ verdict = "none" /\ at2 = "idle" /\ verdict2 = "none"
  BY DEF WrongPrefix, CodeInv, InStep, Alike, Unchecked, Both
<1>4. SlipOK'
  BY <1>1 DEF SlipOK
<1>5. verdict' = "none" /\ left' \in {GtinDigits, SsccDigits, GlnDigits}
      /\ isEven' = 1 /\ oddEven' = Zero /\ temp' = 10
  BY <1>1, <1>3 DEF Parse, ParseBarCode, ParseSscc, ParseGln, ParseLicense, Return, GoTo, Zero
<1> HIDE DEF q
<1>6. CASE ParseBarCode(n, p)
  <2>1. parser' = "bar_code" /\ n > GtinDigits + 4 /\ <<p[1], p[2]>> = <<0, 1>> /\ i \in 1 .. 2
    BY <1>1, <1>6 DEF ParseBarCode, Call, Return, Identifier
  <2>2. <<q[1], q[2]>> # <<0, 1>> /\ p[i] # c
    BY <1>1, <1>2, <2>1
  <2>3. Typed!ParseBarCode(n, q)
    BY <1>1, <2>1 DEF q, Typed!Parse, Typed!ParseSscc, Typed!ParseGln, Typed!ParseLicense, Typed!Call
  <2>4. verdict2' # "none"
    BY <2>2, <2>3 DEF Typed!ParseBarCode, Typed!Return
  <2> QED
    BY <1>4, <1>5, <2>4 DEF Rest, Both, BothPass
<1>7. CASE ParseSscc(n, p)
  <2>1. parser' = "sscc" /\ <<p[1], p[2]>> = <<0, 0>> /\ i \in 1 .. 2
    BY <1>1, <1>7 DEF ParseSscc, Call, Return, Identifier
  <2>2. <<q[1], q[2]>> # <<0, 0>> /\ p[i] # c
    BY <1>1, <1>2, <2>1
  <2>3. Typed!ParseSscc(n, q)
    BY <1>1, <2>1 DEF q, Typed!Parse, Typed!ParseBarCode, Typed!ParseGln, Typed!ParseLicense, Typed!Call
  <2>4. verdict2' # "none"
    BY <2>2, <2>3 DEF Typed!ParseSscc, Typed!Return
  <2> QED
    BY <1>4, <1>5, <2>4 DEF Rest, Both, BothPass
<1>8. CASE ParseGln(n, p)
  <2>1. parser' = "gln" /\ left' = GlnDigits
    BY <1>1, <1>8 DEF ParseGln, Call, Return, GoTo
  <2>2. Typed!ParseGln(n, q)
    BY <1>1, <2>1 DEF q, Typed!Parse, Typed!ParseBarCode, Typed!ParseSscc, Typed!ParseLicense, Typed!Call
  <2>3. Both' => at2' = "digits" /\ left2' = GlnDigits /\ isEven2' = 1 /\ oddEven2' = Zero /\ temp2' = 10
    BY <2>2 DEF Typed!ParseGln, Typed!Return, Typed!GoTo, Both, Zero
  <2>4. Unchecked'
    BY <1>1, <2>1 DEF Unchecked
  <2> QED
    BY <1>1, <1>4, <1>5, <2>1, <2>3, <2>4 DEF Rest, InStep, SumsShow, Both, BothPass, Alike
<1>9. CASE ParseLicense(n, p)
  BY <1>1, <1>9 DEF ParseLicense, Return, GoTo
<1> QED
  BY <1>1, <1>6, <1>7, <1>8, <1>9 DEF Parse

\* So is one in the identifier before the suffix: 10 and 21 differ in both digits.
LEMMA KindWrongStep ==
  ASSUME CodeInv, Both, WrongKind
  PROVE  SlipOK' /\ Rest'
<1>1. PICK p \in Prefix, i \in 1 .. 2, c \in Digit :
        /\ p[i] \in Digit \ {c}
        /\ SuffixKind(p) /\ Typed!SuffixKind([p EXCEPT ![i] = c])
        /\ slip' = [kind |-> "digit", part |-> "kind", one |-> p[i], two |-> c]
  BY DEF WrongKind, Slip
<1> DEFINE q == [p EXCEPT ![i] = c]
<1>2. (i = 1 => q[1] = c /\ q[2] = p[2]) /\ (i = 2 => q[1] = p[1] /\ q[2] = c)
  BY DEF Prefix
<1>3. SlipOK'
  BY <1>1 DEF SlipOK
<1> HIDE DEF q
<1>4. Typed!SuffixKind(q)
  BY <1>1 DEF q
<1>5. ~(<<p[1], p[2]>> \in {<<1, 0>>, <<2, 1>>} /\ <<q[1], q[2]>> \in {<<1, 0>>, <<2, 1>>})
  BY <1>1, <1>2
<1>6. verdict' # "none" /\ ~BothPass'
  BY <1>1, <1>4, <1>5 DEF SuffixKind, Typed!SuffixKind, Return, Typed!Return, BothPass
<1> QED
  BY <1>3, <1>6 DEF Rest, Both

LEMMA SwapNextStep ==
  ASSUME CodeInv, Both, SwapNext
  PROVE  SlipOK' /\ Rest'
<1>1. PICK b \in Digit, c \in Digit :
        b # c /\ Verify(b) /\ Typed!Verify(c) /\ slip' = [kind |-> "half", part |-> at, one |-> b, two |-> c]
  BY DEF SwapNext, Slip
<1>2. slip.kind = "none" /\ (at = "digits" => left > 2)
  BY DEF SwapNext
<1>3. SlipOK'
  BY <1>1, VerifyWhere DEF SlipOK
<1>4. at = at2 /\ isEven \in 0 .. 1 /\ left \in Nat /\ InStep
  BY DEF CodeInv, InStep, Alike, Unchecked, LabelOK
<1>5. Both' => SumsShow' \/ at' # "digits"
  <2> SUFFICES ASSUME Both', at' = "digits"
               PROVE  SumsShow'
    OBVIOUS
  <2>1. /\ at = "digits" /\ left' = left - 1 /\ isEven' = 1 - isEven
        /\ oddEven'[1 - isEven] = oddEven2'[1 - isEven]
        /\ (oddEven2'[isEven] - oddEven'[isEven] - (c - b)) % 10 = 0
    BY <1>1, <1>2, FirstDifference
  <2>2. isEven = 1 - isEven'
    BY <1>4, <2>1
  <2> QED
    BY <1>1, <1>2, <1>4, <2>1, <2>2 DEF SumsShow, Differ, Shift
<1>6. Both' => ProductShows' \/ at' # "license"
  BY <1>1, <1>2, FirstDifference DEF ProductShows
<1>7. Both' => InStep'
  <2>1. at \in {"digits", "license"}
    BY <1>1, VerifyWhere
  <2> QED
    BY <1>1, <1>2, <1>4, <2>1, FirstDifference DEF InStep, Alike, Unchecked
<1> QED
  BY <1>1, <1>2, <1>3, <1>5, <1>6, <1>7, FirstDifference DEF Rest

LEMMA SwapCheckStep ==
  ASSUME CodeInv, Both, SwapCheck
  PROVE  SlipOK' /\ Rest'
<1>1. PICK b \in Digit, c \in Digit :
        b # c /\ Verify(b) /\ Typed!Verify(c) /\ slip' = [kind |-> "apart", part |-> at, one |-> b, two |-> c]
  BY DEF SwapCheck, Slip
<1>2. slip.kind = "none" /\ at = "digits" /\ isEven = 1
  BY DEF SwapCheck, CodeInv, LabelOK
<1>3. SlipOK'
  BY <1>1, <1>2 DEF SlipOK, CodeInv
<1>4. at = at2 /\ left \in Nat /\ InStep
  BY DEF CodeInv, InStep, Alike, Unchecked, LabelOK
<1>5. Both' => SumsShow' /\ at' = "digits"
  <2> SUFFICES ASSUME Both'
               PROVE  SumsShow' /\ at' = "digits"
    OBVIOUS
  <2>1. /\ at' = "digits"
        /\ oddEven'[0] = oddEven2'[0]
        /\ (oddEven2'[1] - oddEven'[1] - (c - b)) % 10 = 0
    BY <1>1, <1>2, FirstDifference
  <2> QED
    BY <1>1, <2>1 DEF SumsShow, Differ, Shift
<1>6. Both' => InStep'
  BY <1>1, <1>2, <1>4, <1>5, FirstDifference DEF InStep, Alike, Unchecked
<1> QED
  BY <1>1, <1>2, <1>3, <1>5, <1>6, FirstDifference DEF Rest

\* The second of two neighbours, in verify_code.
LEMMA SwappedInSums ==
  ASSUME CodeInv, Both, at = "digits", slip.kind = "half",
         NEW b \in Digit, NEW c \in Digit, b = slip.one, c = slip.two,
         Verify(c), Typed!Verify(b), slip' = [kind |-> "swap", part |-> slip.part, one |-> b, two |-> c]
  PROVE  Rest'
<1>1. /\ at2 = at /\ left = left2 /\ left \in Nat /\ isEven = isEven2 /\ isEven \in 0 .. 1
      /\ oddEven \in [0 .. 1 -> Digit] /\ oddEven2 \in [0 .. 1 -> Digit]
      /\ InStep /\ SumsShow /\ left > 1
  BY DEF CodeInv, LabelOK, TypedOK, InStep, Alike, Unchecked, SumsShow
<1>2. /\ oddEven' = [oddEven EXCEPT ![isEven] = (@ + c) % 10]
      /\ oddEven2' = [oddEven2 EXCEPT ![isEven2] = (@ + b) % 10]
      /\ isEven' = 1 - isEven /\ isEven2' = 1 - isEven2
      /\ left' = left - 1 /\ left2' = left2 - 1
      /\ UNCHANGED <<parser, len, at, at2, temp, temp2, verdict, verdict2>>
  BY <1>1, DigitPair
<1> DEFINE x == oddEven[isEven]
<1>3. x \in Digit /\ oddEven'[isEven] = (x + c) % 10 /\ oddEven2'[isEven] = (x + b) % 10
  BY <1>1, <1>2 DEF SumsShow
<1>4. (oddEven2'[1 - isEven] - oddEven'[1 - isEven] - (c - b)) % 10 = 0
  <2>1. oddEven2'[1 - isEven] = oddEven2[1 - isEven] /\ oddEven'[1 - isEven] = oddEven[1 - isEven]
    BY <1>1, <1>2
  <2> QED
    BY <1>1, <2>1 DEF SumsShow, Differ, Shift
<1> HIDE DEF x
<1>5. (((x + b) % 10) - ((x + c) % 10) - (b - c)) % 10 = 0
  BY <1>3, DifferenceOfDigits
<1>6. (oddEven2'[isEven] - oddEven'[isEven] - (0 - (c - b))) % 10 = 0
  <2>1. (oddEven2'[isEven] - oddEven'[isEven] - (b - c)) % 10 = 0
    BY <1>3, <1>5 DEF Digit
  <2>2. b - c = 0 - (c - b)
    BY DEF Digit
  <2> QED
    BY <2>1, <2>2
<1>7. SumsShow'
  <2>1. slip'.kind = "swap" /\ Shift' = c - b
    BY DEF Shift
  <2>2. CASE isEven = 1
    BY <1>4, <1>6, <2>1, <2>2 DEF SumsShow, Differ
  <2>3. CASE isEven = 0
    BY <1>4, <1>6, <2>1, <2>3 DEF SumsShow, Differ
  <2> QED
    BY <1>1, <2>2, <2>3
<1> QED
  BY <1>1, <1>2, <1>7 DEF Rest, InStep, Alike, Unchecked, Both, BothPass

\* The check digit, in the place of the digit that verify_code read first.
LEMMA SwappedWithCheck ==
  ASSUME CodeInv, Both, at = "digits", slip.kind = "apart", left = 1,
         NEW b \in Digit, NEW c \in Digit, b # c, b = slip.one, c = slip.two,
         Verify(c), Typed!Verify(b), slip' = [kind |-> "swap", part |-> slip.part, one |-> b, two |-> c]
  PROVE  Rest'
<1>1. /\ at2 = at /\ left = left2 /\ left \in Nat
      /\ oddEven \in [0 .. 1 -> Digit] /\ oddEven2 \in [0 .. 1 -> Digit]
      /\ InStep /\ SumsShow
  BY DEF CodeInv, LabelOK, TypedOK, InStep, Alike, Unchecked
<1>2. /\ UNCHANGED <<parser, len>>
      /\ verdict' \in {"none", "ok"} => c = Digest(oddEven)
      /\ verdict2' \in {"none", "ok"} => b = Digest(oddEven2)
      /\ Both' => /\ at' = "suffix" /\ at2' = "suffix" /\ left' = left2'
                  /\ isEven' = 1 /\ isEven2' = 1
                  /\ oddEven' = Zero /\ oddEven2' = Zero /\ temp' = 10 /\ temp2' = 10
  BY <1>1, CheckPair
<1>3. Both' \/ BothPass' => (b - c) % 10 = 5
  <2> SUFFICES ASSUME Both' \/ BothPass'
               PROVE  (b - c) % 10 = 5
    OBVIOUS
  <2> DEFINE x == oddEven[1]
             y == oddEven[0]
             u == oddEven2[1]
  <2>1. x \in Digit /\ y \in Digit /\ u \in Digit
    BY <1>1
  <2>2. (u - x - (c - b)) % 10 = 0 /\ oddEven2[0] = y
    BY <1>1 DEF SumsShow, Differ, Shift
  <2>3. c = (0 - x * 3 - y) % 10 /\ b = (0 - u * 3 - y) % 10
    BY <1>2, <2>2 DEF Both, BothPass, Digest
  <2> HIDE DEF x, y, u
  <2> QED
    BY <2>1, <2>2, <2>3, ApartWeights
<1>4. Both' \/ BothPass' => Unseen'
  BY <1>1, <1>2, <1>3 DEF Unseen, InStep, Alike, Unchecked
<1> QED
  BY <1>1, <1>2, <1>4 DEF Rest, InStep, Alike, Unchecked, Both, BothPass

\* The second of two neighbours in a license number.
LEMMA SwappedInProduct ==
  ASSUME CodeInv, Both, at = "license", slip.kind = "half",
         NEW b \in Digit, NEW c \in Digit, b # c, b = slip.one, c = slip.two,
         Verify(c), Typed!Verify(b), slip' = [kind |-> "swap", part |-> slip.part, one |-> b, two |-> c]
  PROVE  Rest'
<1>1. /\ at2 = at /\ left = left2 /\ left \in Nat /\ parser = "license"
      /\ temp \in 1 .. 10 /\ temp2 \in 1 .. 10
      /\ InStep /\ ProductShows
  BY DEF CodeInv, LabelOK, TypedOK, InStep, Alike, Unchecked
<1>2. PICK t \in 1 .. 10 : temp = Mod1110(t, b) /\ temp2 = Mod1110(t, c)
  BY <1>1 DEF ProductShows
<1>3. CASE left > 1
  <2>1. /\ temp' = Mod1110(temp, c) /\ temp2' = Mod1110(temp2, b)
        /\ left' = left - 1 /\ left2' = left2 - 1
        /\ UNCHANGED <<parser, len, at, at2, isEven, isEven2, oddEven, oddEven2, verdict, verdict2>>
    BY <1>1, <1>3, ProductPair
  <2>2. temp' = temp2' => (b - c) % 10 \in {1, 9}
    BY <1>2, <2>1, ProductSeesSwap
  <2>3. ProductShows'
    BY <1>1, <2>1, <2>2 DEF ProductShows, Unseen
  <2> QED
    BY <1>1, <2>1, <2>3 DEF Rest, InStep, Alike, Unchecked, Both, BothPass
<1>4. CASE ~(left > 1)
  <2>1. /\ UNCHANGED <<parser, len>>
        /\ verdict' # "none" /\ verdict2' # "none"
        /\ verdict' = "ok" => (temp + c) % 10 = 1
        /\ verdict2' = "ok" => (temp2 + b) % 10 = 1
    BY <1>1, <1>4, LicensePair
  <2>2. (temp + c) % 10 = 1 /\ (temp2 + b) % 10 = 1 => (b - c) % 10 \in {1, 9}
    BY <1>2, CheckSeesSwap
  <2> QED
    BY <1>1, <2>1, <2>2 DEF Rest, Both, BothPass, Unseen
<1> QED
  BY <1>3, <1>4

LEMMA SwappedStep ==
  ASSUME CodeInv, Both, Swapped
  PROVE  SlipOK' /\ Rest'
<1> DEFINE b == slip.one
           c == slip.two
<1>1. /\ slip.kind = "half" \/ (slip.kind = "apart" /\ left = 1)
      /\ Verify(c) /\ Typed!Verify(b)
      /\ slip' = [kind |-> "swap", part |-> slip.part, one |-> b, two |-> c]
  BY DEF Swapped, Slip
<1>2. b \in Digit /\ c \in Digit /\ b # c
  BY <1>1 DEF CodeInv, SlipOK
<1>3. SlipOK'
  BY <1>1, <1>2 DEF SlipOK, CodeInv
<1>4. CASE at = "digits" /\ slip.kind = "half"
  BY <1>1, <1>2, <1>3, <1>4, SwappedInSums
<1>5. CASE at = "digits" /\ slip.kind = "apart"
  BY <1>1, <1>2, <1>3, <1>5, SwappedWithCheck
<1>6. CASE at = "license"
  <2>1. slip.kind = "half"
    BY <1>1, <1>6 DEF CodeInv, ProductShows
  <2> QED
    BY <1>1, <1>2, <1>3, <1>6, <2>1, SwappedInProduct
<1> QED
  BY <1>1, <1>4, <1>5, <1>6, VerifyWhere

-----------------------------------------------------------------------------
LEMMA CodeInvInit == SlipInit => CodeInv
BY DEF SlipInit, Init, Typed!Init, CodeInv, CallOK, LabelOK, TypedOK, SlipOK, Both, BothPass,
       InStep, Alike, Digit

LEMMA CodeInvNext == CodeInv /\ [SlipNext]_allVars => CodeInv'
<1> SUFFICES ASSUME CodeInv, [SlipNext]_allVars
             PROVE  CodeInv'
  OBVIOUS
<1>1. CASE UNCHANGED allVars
  BY <1>1 DEF allVars, label, typed, CodeInv, CallOK, LabelOK, TypedOK, SlipOK, Both, BothPass,
     InStep, SumsShow, ProductShows, Differ, Shift, Unseen, Alike, Unchecked, Whole
<1>2. CASE SlipNext
  <2>1. Both
    BY <1>2 DEF SlipNext
  <2>2. SlipOK' /\ Rest'
    BY <1>2, <2>1, CallStep, KindStep, ByteStep, WrongStep, PrefixStep,
       KindWrongStep, SwapNextStep, SwapCheckStep, SwappedStep
       DEF SlipNext
  <2>3. /\ \/ \E n \in Lengths, p \in Prefix : Parse(n, p)
           \/ \E b \in Byte : Read(b)
           \/ \E p \in Prefix : SuffixKind(p)
        /\ \/ \E n \in Lengths, p \in Prefix : Typed!Parse(n, p)
           \/ \E b \in Byte : Typed!Read(b)
           \/ \E p \in Prefix : Typed!SuffixKind(p)
    <3>1. CASE SameCall
      BY <3>1 DEF SameCall
    <3>2. CASE SameKind
      BY <3>2 DEF SameKind
    <3>3. CASE SameByte
      BY <3>3 DEF SameByte
    <3>4. CASE WrongDigit \/ SwapNext \/ SwapCheck
      BY <3>4, Bytes DEF WrongDigit, SwapNext, SwapCheck, Read, Typed!Read
    <3>6. CASE WrongPrefix
      <4>1. PICK n \in Lengths, p \in Prefix, i \in 1 .. 3, c \in Digit :
              Parse(n, p) /\ Typed!Parse(n, [p EXCEPT ![i] = c])
        BY <3>6 DEF WrongPrefix
      <4> QED
        BY <4>1, PrefixChanged
    <3>7. CASE WrongKind
      <4>1. PICK p \in Prefix, i \in 1 .. 2, c \in Digit :
              SuffixKind(p) /\ Typed!SuffixKind([p EXCEPT ![i] = c])
        BY <3>7 DEF WrongKind
      <4> QED
        BY <4>1, PrefixChanged
    <3>5. CASE Swapped
      <4>1. slip.one \in Byte /\ slip.two \in Byte
        BY Bytes DEF CodeInv, SlipOK
      <4> QED
        BY <3>5, <4>1 DEF Swapped, Read, Typed!Read
    <3> QED
      BY <1>2, <3>1, <3>2, <3>3, <3>4, <3>5, <3>6, <3>7 DEF SlipNext
  <2>4. LabelOK' /\ CallOK' /\ TypedOK'
    BY <2>3, LabelTyped, TypedTyped DEF CodeInv
  <2> QED
    BY <2>2, <2>4 DEF CodeInv, Rest
<1> QED
  BY <1>1, <1>2

\* The invariant holds in every parse of a label and of what was typed for it.
THEOREM CodesInvariant == SlipSpec => []CodeInv
<1> QED
  BY CodeInvInit, CodeInvNext, PTL DEF SlipSpec

\* Both parses stay well typed and in step: the sums of verify_code stay digits, and
\* the product of the license check never leaves 1..10 (lib.rs:591-646).
THEOREM CodesAreTyped == SlipSpec => []SlipTypeOK
<1>1. CodeInv => SlipTypeOK
  BY DEF CodeInv, CallOK, LabelOK, TypedOK, SlipOK, InStep, SlipTypeOK
<1> QED
  BY <1>1, CodesInvariant, PTL

\* Whatever digit of a code is mistyped, no parser accepts it beside the label, however
\* long the codes are, except where no check digit stands: in a batch or serial, in the
\* number of a CZZZ license, and in the last digit of a GLN's identifier (verify_code,
\* verify_manufacturer_sc_license, and the identifiers each parser asks for).
THEOREM OneDigitIsDetected == SlipSpec => []DigitErrorsDetected
<1>1. CodeInv => DigitErrorsDetected
  BY DEF CodeInv, DigitErrorsDetected
<1> QED
  BY <1>1, CodesInvariant, PTL

\* Nor a label and the code with two neighbours under a check digit swapped, but for those
\* pairs that the two check-digit schemes cannot tell apart.
THEOREM SwapsAreDetected == SlipSpec => []SwapsDetected
<1>1. CodeInv => SwapsDetected
  BY DEF CodeInv, SwapsDetected, Unseen
<1> QED
  BY <1>1, CodesInvariant, PTL
=============================================================================
