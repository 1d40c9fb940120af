----------------------------- MODULE CodeSlips -----------------------------
(***************************************************************************)
(* Two codes parsed side by side: the one on the label, and the one that   *)
(* was typed (the variables that end in 2).  They are equal but for one    *)
(* wrong digit, or for two neighbouring digits that changed places.        *)
(***************************************************************************)
EXTENDS FoodCodes

VARIABLES
  at2, left2, isEven2, oddEven2, temp2, verdict2,
  slip      (* how the typed code differs so far: its kind, the part of the     *)
            (* code it is in, and the two digits                                *)

label   == <<at, left, isEven, oddEven, temp, verdict>>
typed   == <<at2, left2, isEven2, oddEven2, temp2, verdict2>>
allVars == <<parser, len, label, typed, slip>>

Typed == INSTANCE FoodCodes WITH
  at <- at2, left <- left2, isEven <- isEven2, oddEven <- oddEven2,
  temp <- temp2, verdict <- verdict2

SlipInit ==
  /\ Init
  /\ Typed!Init
  /\ slip = [kind |-> "none", part |-> "none", one |-> 0, two |-> 0]

\* Until one of the parsers returns.
Both == verdict = "none" /\ verdict2 = "none"

Slip(kind, part, one, two) == slip' = [kind |-> kind, part |-> part, one |-> one, two |-> two]

\* The next byte is the same in both codes.
SameCall == at = "idle" /\ \E n \in Lengths, p \in Prefix : Parse(n, p) /\ Typed!Parse(n, p) /\ UNCHANGED slip
SameKind == at = "suffix" /\ \E p \in Prefix : SuffixKind(p) /\ Typed!SuffixKind(p) /\ UNCHANGED slip
SameByte ==
  /\ \/ slip.kind \in {"none", "digit", "swap"}
     \/ slip.kind = "apart" /\ left > 1
  /\ \E b \in Byte : Read(b) /\ Typed!Read(b) /\ UNCHANGED slip

\* One digit is another, wherever it stands: in the part that is read byte by byte,
\* in the identifier that the code starts with, or in the one before the suffix.
WrongDigit ==
  /\ slip.kind = "none"
  /\ \E b, c \in Digit : b # c /\ Read(b) /\ Typed!Read(c) /\ Slip("digit", at, b, c)

\* The digits of the identifier the label starts with; a GLN may be without one.
Identifier(name, n) ==
  CASE name \in {"bar_code", "sscc"} -> 1 .. 2
    [] name = "gln" /\ n # GlnDigits -> 1 .. 3
    [] OTHER -> {}
WrongPrefix ==
  /\ slip.kind = "none" /\ at = "idle"
  /\ \E n \in Lengths, p \in Prefix, i \in 1 .. 3, c \in Digit :
       /\ p[i] \in Digit \ {c}
       /\ Parse(n, p) /\ at' = "digits" /\ Typed!Parse(n, [p EXCEPT ![i] = c])
       /\ i \in Identifier(parser', n)
       /\ Slip("digit", "prefix", p[i], c)

WrongKind ==
  /\ slip.kind = "none" /\ at = "suffix"
  /\ \E p \in Prefix, i \in 1 .. 2, c \in Digit :
       /\ p[i] \in Digit \ {c}
       /\ SuffixKind(p) /\ Typed!SuffixKind([p EXCEPT ![i] = c])
       /\ Slip("digit", "kind", p[i], c)

\* Two neighbours under a check digit change places: the first of them is read now and the second
\* next; or the digit that verify_code reads first and its check digit, which it
\* reads last, but which stands beside it.
SwapNext ==
  /\ slip.kind = "none"
  /\ \/ at = "digits" /\ left > 2
     \/ at = "license" /\ left > 1
  /\ \E b, c \in Digit : b # c /\ Verify(b) /\ Typed!Verify(c) /\ Slip("half", at, b, c)

Whole == CASE parser = "bar_code" -> GtinDigits
           [] parser = "sscc" -> SsccDigits
           [] OTHER -> GlnDigits
SwapCheck ==
  /\ slip.kind = "none"
  /\ at = "digits" /\ left > 1 /\ left = Whole
  /\ \E b, c \in Digit : b # c /\ Verify(b) /\ Typed!Verify(c) /\ Slip("apart", at, b, c)

Swapped ==
  /\ \/ slip.kind = "half"
     \/ slip.kind = "apart" /\ left = 1
  /\ Verify(slip.two)
  /\ Typed!Verify(slip.one)
  /\ Slip("swap", slip.part, slip.one, slip.two)

SlipNext ==
  /\ Both
  /\ SameCall \/ SameKind \/ SameByte \/ WrongDigit \/ WrongPrefix \/ WrongKind
     \/ SwapNext \/ SwapCheck \/ Swapped

SlipSpec == SlipInit /\ [][SlipNext]_allVars

-----------------------------------------------------------------------------
\* The type invariant: verify_code's sums stay digits, the product of the license
\* check stays a unit modulo 11, and what the parsers read is in step.
SlipTypeOK ==
  /\ parser \in {"none", "bar_code", "sscc", "gln", "license"}
  /\ left \in Nat /\ left2 \in Nat
  /\ isEven \in 0 .. 1 /\ isEven2 \in 0 .. 1
  /\ oddEven \in [0 .. 1 -> Digit] /\ oddEven2 \in [0 .. 1 -> Digit]
  /\ temp \in 1 .. 10 /\ temp2 \in 1 .. 10
  /\ slip.part \in {"none", "prefix", "digits", "suffix", "kind", "license", "letter", "number"}
  /\ slip.one \in Digit /\ slip.two \in Digit
  /\ Both => at = at2 /\ left = left2 /\ isEven = isEven2

BothPass == verdict = "ok" /\ verdict2 = "ok"

\* The digits that no check digit covers: the batch or serial of a bar code
\* (lib.rs:508-515), the number of a CZZZ license (lib.rs:574-578), and the last of a
\* GLN's identifier, 410 to 416 (lib.rs:550), which is cut off.
Unchecked ==
  slip.part \in {"suffix", "number"} \/ (slip.part = "prefix" /\ parser = "gln")

\* What a check digit is for (lib.rs:592, lib.rs:623): a label is never accepted
\* together with the code that differs from it in one digit, wherever that stands but
\* in those three places, which have none; a wrong digit in another identifier is seen
\* too, that between the batch codes' 10 and the serial codes' 21 included.
DigitErrorsDetected == BothPass /\ slip.kind = "digit" => Unchecked

\* Nor together with the code in which two neighbours under a check digit changed
\* places, unless these differ by 5, which the weights 3 and 1 cannot see (GTIN, SSCC
\* and GLN), or by 1 modulo 10, of which MOD 11,10 misses some (licenses of kind SC).
SwapsDetected ==
  BothPass /\ slip.kind = "swap" =>
    (slip.one - slip.two) % 10 \in IF parser = "license" THEN {1, 9} ELSE {5}
=============================================================================
