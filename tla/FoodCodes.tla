----------------------------- MODULE FoodCodes -----------------------------
(***************************************************************************)
(* The code parsers of the food-traceability pallet (lib.rs:495-646): one  *)
(* parse of a raw code, whose bytes are read in the order in which the     *)
(* parser looks at them.  A byte is chosen when it is read, so a behaviour *)
(* is a code, and a code of any length is a behaviour.                     *)
(***************************************************************************)
EXTENDS Integers

CONSTANTS
  GtinDigits, SsccDigits, GlnDigits,  (* 14, 18, 13: digits under verify_code   *)
  ScDigits, CzzzDigits,               (* 14, 14: digits of the two licenses     *)
  SuffixWidth,                        (* 20: bytes of a batch or serial         *)
  Lengths                             (* the lengths of the raw codes offered   *)

ASSUME WidthAssumption ==
  /\ GtinDigits \in Nat \ {0, 1} /\ SsccDigits \in Nat \ {0, 1} /\ GlnDigits \in Nat \ {0, 1}
  /\ ScDigits \in Nat \ {0, 1} /\ CzzzDigits \in Nat \ {0} /\ SuffixWidth \in Nat
  /\ ScDigits + 2 # CzzzDigits + 4
  /\ Lengths \subseteq Nat

VARIABLES
  parser,   (* the parser that was called                                       *)
  len,      (* the length of its argument                                       *)
  at,       (* what it reads next                                               *)
  left,     (* how many bytes of that are left                                  *)
  isEven,   (* 1 where verify_code's is_even holds, else 0                      *)
  oddEven,  (* its two sums: at 1 those it weights by 3, at 0 the others        *)
  temp,     (* the running product of verify_manufacturer_sc_license            *)
  verdict   (* "ok", an error, or "none" so far                                 *)

vars == <<parser, len, at, left, isEven, oddEven, temp, verdict>>

\* Bytes: digits stand for themselves; then S, C and another letter, first the
\* capitals and then the small ones; and a byte that is not alphanumeric.
Digit  == 0 .. 9
Upper  == 10 .. 12
Lower  == 13 .. 15
Letter == Upper \cup Lower
Alnum  == Digit \cup Letter
Byte   == Alnum \cup {16}

ToUpper(b) == IF b \in Lower THEN b - 3 ELSE b
LetterS == 10
LetterC == 11

(***************************************************************************)
(* Check digits: modulo 10 with the weights 3 and 1 (GTIN, SSCC, GLN), and *)
(* ISO 7064 MOD 11,10 (production licenses), each with plausible bugs.     *)
(***************************************************************************)
Unweighted(sums) == (0 - sums[1] * 2 - sums[0]) % 10       \* mutant: 2 is no unit modulo 10
Digest(sums)     == (0 - sums[1] * 3 - sums[0]) % 10

SameWeight(flag) == flag                                   \* mutant: is_even never turns
Flip(flag)       == 1 - flag

DropCarry(t, num) == ((10 - ((0 - t - num) % 10)) * 2) % 10  \* mutant: one modulus for both
Mod1110(t, num)   == ((10 - ((0 - t - num) % 10)) * 2) % 11

Init ==
  /\ parser = "none" /\ len = 0
  /\ at = "idle" /\ left = 0
  /\ isEven = 1 /\ oddEven = [i \in 0 .. 1 |-> 0] /\ temp = 10
  /\ verdict = "none"

\* The parser returns; its locals are gone.
Return(v) ==
  /\ verdict' = v
  /\ at' = "done" /\ left' = 0
  /\ isEven' = 1 /\ oddEven' = [i \in 0 .. 1 |-> 0] /\ temp' = 10

\* The parser goes on to read n bytes of another part.
GoTo(part, n) ==
  /\ at' = part /\ left' = n
  /\ isEven' = 1 /\ oddEven' = [i \in 0 .. 1 |-> 0] /\ temp' = 10
  /\ UNCHANGED verdict

Call(name, n) == at = "idle" /\ parser' = name /\ len' = n

(***************************************************************************)
(* What a parser checks of the length n and of the bytes p it starts with. *)
(***************************************************************************)
ParseBarCode(n, p) ==
  /\ Call("bar_code", n)
  /\ \/ n <= GtinDigits + 4 /\ Return("BarCodeTooShort")
     \/ n > GtinDigits + 4 /\ <<p[1], p[2]>> # <<0, 1>> /\ Return("BarCodeUnexpectIdentifier")
     \/ n > GtinDigits + 4 /\ <<p[1], p[2]>> = <<0, 1>> /\ GoTo("digits", GtinDigits)

ParseSscc(n, p) ==
  /\ Call("sscc", n)
  /\ \/ n \notin {SsccDigits, SsccDigits + 2} /\ Return("SSCCLenError")
     \/ /\ n \in {SsccDigits, SsccDigits + 2}
        /\ n = SsccDigits \/ <<p[1], p[2]>> # <<0, 0>>
        /\ Return("SSCCFormatError")
     \/ n = SsccDigits + 2 /\ <<p[1], p[2]>> = <<0, 0>> /\ GoTo("digits", SsccDigits)

\* 410 to 416 are the identifiers of a GLN.
GlnPrefix(p) == <<p[1], p[2]>> = <<4, 1>> /\ p[3] \in 0 .. 6
ParseGln(n, p) ==
  /\ Call("gln", n)
  /\ \/ n \notin {GlnDigits, GlnDigits + 3} /\ Return("GLNLenError")
     \/ n = GlnDigits + 3 /\ ~GlnPrefix(p) /\ Return("GLNFormatError")
     \/ n = GlnDigits /\ GoTo("digits", GlnDigits)
     \/ n = GlnDigits + 3 /\ GlnPrefix(p) /\ GoTo("digits", GlnDigits)

ParseLicense(n, p) ==
  /\ Call("license", n)
  /\ \/ n \notin {ScDigits + 2, CzzzDigits + 4} /\ Return("LicenseLenError")
     \/ /\ n = ScDigits + 2
        /\ IF <<ToUpper(p[1]), ToUpper(p[2])>> = <<LetterS, LetterC>>
           THEN GoTo("license", ScDigits) ELSE Return("LicenseFormatError")
     \/ /\ n = CzzzDigits + 4
        /\ IF ToUpper(p[1]) # LetterC THEN Return("LicenseFormatError")
           ELSE IF p[2] \notin Letter \/ p[3] \notin Letter THEN Return("UseUnexpectCharacter")
           ELSE GoTo("letter", 1)

(***************************************************************************)
(* verify_code reads the digits before the check digit from right to left; *)
(* every one changes sums and weight.  Then the check digit decides.       *)
(***************************************************************************)
VerifyDigit(b) ==
  /\ at = "digits" /\ left > 1
  /\ \/ b \notin Digit /\ Return("UseUnexpectCharacter")
     \/ /\ b \in Digit
        /\ oddEven' = [oddEven EXCEPT ![isEven] = (@ + b) % 10]
        /\ isEven' = Flip(isEven)
        /\ left' = left - 1
        /\ UNCHANGED <<at, temp, verdict>>
  /\ UNCHANGED <<parser, len>>

\* The suffix of a bar code is cut to its width, or padded with a digit.
Suffix == IF len - (GtinDigits + 4) < SuffixWidth THEN len - (GtinDigits + 4) ELSE SuffixWidth

VerifyCheck(b) ==
  /\ at = "digits" /\ left = 1
  /\ \/ b # Digest(oddEven) /\ Return("CodeVerificationFailed")
     \/ b = Digest(oddEven) /\ parser = "bar_code" /\ GoTo("suffix", Suffix)
     \/ b = Digest(oddEven) /\ parser # "bar_code" /\ Return("ok")
  /\ UNCHANGED <<parser, len>>

SuffixByte(b) ==
  /\ at = "suffix" /\ left > 0
  /\ IF b \in Alnum THEN GoTo("suffix", left - 1) ELSE Return("UseUnexpectCharacter")
  /\ UNCHANGED <<parser, len>>

\* The two bytes between GTIN and suffix: 10 is a batch, 21 a serial item.
SuffixKind(p) ==
  /\ at = "suffix" /\ left = 0
  /\ Return(IF <<p[1], p[2]>> \in {<<1, 0>>, <<2, 1>>} THEN "ok" ELSE "BarCodeUnexpectIdentifier")
  /\ UNCHANGED <<parser, len>>

(***************************************************************************)
(* Production licenses: SC and a checked number, or C, three letters and   *)
(* a number.                                                               *)
(***************************************************************************)
LicenseDigit(b) ==
  /\ at = "license" /\ left > 1
  /\ \/ b \notin Digit /\ Return("UseUnexpectCharacter")
     \/ /\ b \in Digit
        /\ temp' = Mod1110(temp, b)
        /\ left' = left - 1
        /\ UNCHANGED <<at, isEven, oddEven, verdict>>
  /\ UNCHANGED <<parser, len>>

LicenseCheck(b) ==
  /\ at = "license" /\ left = 1
  /\ \/ b \notin Digit /\ Return("UseUnexpectCharacter")
     \/ b \in Digit /\ (temp + b) % 10 # 1 /\ Return("LicenseVerificationFailed")
     \/ b \in Digit /\ (temp + b) % 10 = 1 /\ Return("ok")
  /\ UNCHANGED <<parser, len>>

LicenseLetter(b) ==
  /\ at = "letter"
  /\ IF b \in Letter THEN GoTo("number", CzzzDigits) ELSE Return("UseUnexpectCharacter")
  /\ UNCHANGED <<parser, len>>

LicenseNumber(b) ==
  /\ at = "number"
  /\ IF b \notin Digit THEN Return("UseUnexpectCharacter")
     ELSE IF left = 1 THEN Return("ok") ELSE GoTo("number", left - 1)
  /\ UNCHANGED <<parser, len>>

Prefix == Byte \X Byte \X Byte
Parse(n, p) == ParseBarCode(n, p) \/ ParseSscc(n, p) \/ ParseGln(n, p) \/ ParseLicense(n, p)
Verify(b)   == VerifyDigit(b) \/ VerifyCheck(b) \/ LicenseDigit(b) \/ LicenseCheck(b)
Read(b)     == Verify(b) \/ SuffixByte(b) \/ LicenseLetter(b) \/ LicenseNumber(b)

Next ==
  \/ \E n \in Lengths, p \in Prefix : Parse(n, p)
  \/ \E b \in Byte : Read(b)
  \/ \E p \in Prefix : SuffixKind(p)

Spec == Init /\ [][Next]_vars
=============================================================================
