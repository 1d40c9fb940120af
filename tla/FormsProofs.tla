----------------------------- MODULE FormsProofs -----------------------------
(***************************************************************************)
(* The rows of materials keep the keys of their places, and what was       *)
(* entered and what the screen shows is what the button sends, for every   *)
(* bound on rows and edits and for all texts.                              *)
(***************************************************************************)
EXTENDS FoodForms, FiniteSetTheorems, TLAPS

Column == {"bytes", "u128"}
Row(values) == [bytes : values, u128 : values]
RowText     == Texts \cup {""}
RowEntry    == RowText \cup {Untouched}
RowValue    == RowText \cup {"1"}
MaterialRow == [key : Nat, bytes : RowValue, u128 : RowValue]
Units == {"Portion", "Microgram", "Milliliter"}

(***************************************************************************)
(* The invariant.  What the uncontrolled inputs show is nothing or what    *)
(* the state holds, on every form; the number of the lot shows the state   *)
(* from the first entry on.                                                *)
(***************************************************************************)
RowsTyped ==
  /\ materialsArr \in Seq(MaterialRow)
  /\ enteredRows \in Seq(Row(RowEntry))
  /\ Len(enteredRows) = Len(materialsArr)

DomTyped ==
  /\ DOMAIN dom = {"unitChoose", "nonce", "rows"}
  /\ dom.rows \in [0 .. MaxRows - 1 -> Row(RowText)]

RowsShow ==
  \A i \in DOMAIN materialsArr : \A column \in Column :
    dom.rows[i - 1][column] \in {"", materialsArr[i][column]}

ControlsShow ==
  /\ state.unitChoose \in Units
  /\ dom.unitChoose \in {"", state.unitChoose}
  /\ entered.nonce = Untouched \/ dom.nonce = state.nonce

\* What was entered on this form, if anything, is what the state holds.
EntriesStand ==
  /\ \A c \in Control : entered[c] \in {Untouched, state[c]} /\ entered[c] # Zero
  /\ \A i \in DOMAIN materialsArr : \A column \in Column :
       enteredRows[i][column] \in {Untouched, materialsArr[i][column]}

FormsInv == FormsTypeOK /\ RowsTyped /\ DomTyped /\ RowsShow /\ ControlsShow /\ EntriesStand

LEMMA Controls == /\ Control = DOMAIN InitialState
                  /\ "unitChoose" \in Control /\ "nonce" \in Control
BY DEF Control, InitialState

LEMMA Blanks == /\ \A column \in Column : BlankRow[column] = ""
                /\ BlankRow \in Row(RowText)
                /\ [bytes |-> Untouched, u128 |-> Untouched] \in Row(RowEntry)
BY DEF BlankRow, Column, Row, RowText, RowEntry

\* Sequences, of whatever they are.
LEMMA EmptySeq == DOMAIN <<>> = {} /\ Len(<<>>) = 0 /\ \A S : <<>> \in Seq(S)
OBVIOUS

LEMMA Longer ==
  ASSUME NEW S, NEW s \in Seq(S), NEW e \in S
  PROVE  /\ Append(s, e) \in Seq(S) /\ Len(Append(s, e)) = Len(s) + 1
         /\ DOMAIN Append(s, e) = 1 .. (Len(s) + 1) /\ Append(s, e)[Len(s) + 1] = e
         /\ \A i \in 1 .. Len(s) : Append(s, e)[i] = s[i]
OBVIOUS

LEMMA SeqFacts ==
  ASSUME NEW S, NEW s \in Seq(S)
  PROVE  Len(s) \in Nat /\ DOMAIN s = 1 .. Len(s) /\ \A i \in 1 .. Len(s) : s[i] \in S
OBVIOUS

LEMMA ConstantSeq ==
  ASSUME NEW S, NEW e \in S, NEW n \in Nat
  PROVE  /\ [i \in 1 .. n |-> e] \in Seq(S)
         /\ Len([i \in 1 .. n |-> e]) = n
OBVIOUS

LEMMA Shorter ==
  ASSUME NEW S, NEW s \in Seq(S), NEW n \in Nat, Len(s) = n + 1
  PROVE  /\ SubSeq(s, 1, n) \in Seq(S) /\ Len(SubSeq(s, 1, n)) = n
         /\ DOMAIN SubSeq(s, 1, n) = 1 .. n
         /\ \A i \in 1 .. n : SubSeq(s, 1, n)[i] = s[i]
OBVIOUS

LEMMA Replaced ==
  ASSUME NEW S, NEW s \in Seq(S), NEW r \in DOMAIN s, NEW e \in S
  PROVE  /\ [s EXCEPT ![r] = e] \in Seq(S) /\ Len([s EXCEPT ![r] = e]) = Len(s)
         /\ DOMAIN [s EXCEPT ![r] = e] = DOMAIN s
OBVIOUS

LEMMA Places ==
  ASSUME FormsTypeOK, RowsTyped
  PROVE  /\ Len(materialsArr) \in Nat /\ Len(materialsArr) <= MaxRows
         /\ DOMAIN materialsArr = 1 .. Len(materialsArr)
         /\ DOMAIN enteredRows = 1 .. Len(materialsArr)
         /\ \A i \in DOMAIN materialsArr : i \in Nat /\ i - 1 \in 0 .. MaxRows - 1
<1>1. Len(materialsArr) \in Nat /\ DOMAIN materialsArr = 1 .. Len(materialsArr)
  BY SeqFacts DEF RowsTyped
<1>2. Len(materialsArr) <= MaxRows /\ DOMAIN enteredRows = DOMAIN materialsArr
  BY DEF FormsTypeOK
<1>3. \A i \in 1 .. Len(materialsArr) : i \in Nat /\ i - 1 \in 0 .. MaxRows - 1
  BY <1>1, <1>2, FormsAssumption
<1> QED BY <1>1, <1>2, <1>3

LEMMA FormsInitInv == FormsInit => FormsInv
<1> SUFFICES ASSUME FormsInit PROVE FormsInv
  OBVIOUS
<1> USE DEF FormsInit
<1>1. FormsTypeOK
  <2>1. "produce" \in Forms
    BY DEF Forms, Signature
  <2>2. materialsArr = <<>> /\ enteredRows = <<>>
    OBVIOUS
  <2>3. DOMAIN state = Control /\ DOMAIN entered = Control
    BY Controls
  <2>4. edits \in 0 .. MaxEdits /\ Len(materialsArr) <= MaxRows
    <3>1. edits = 0 /\ Len(materialsArr) = 0
      BY <2>2, EmptySeq
    <3> HIDE DEF FormsInit
    <3> QED BY <3>1, FormsAssumption
  <2>5. btnType \in Forms
    BY <2>1
  <2> HIDE DEF FormsInit
  <2> QED BY <2>2, <2>3, <2>4, <2>5, EmptySeq DEF FormsTypeOK
<1>2. RowsTyped /\ RowsShow
  <2>1. materialsArr = <<>> /\ enteredRows = <<>>
    OBVIOUS
  <2> QED BY <2>1, EmptySeq DEF RowsTyped, RowsShow
<1>3. DomTyped
  BY DEF DomTyped, BlankRow, Row, RowText
<1>4. ControlsShow
  BY Controls DEF ControlsShow, InitialState, Units
<1>5. EntriesStand
  <2>1. entered = [c \in Control |-> Untouched] /\ materialsArr = <<>>
    OBVIOUS
  <2> HIDE DEF FormsInit
  <2> QED BY <2>1, EmptySeq DEF EntriesStand, Untouched, Zero
<1> QED BY <1>1, <1>2, <1>3, <1>4, <1>5 DEF FormsInv

LEMMA MenuInv ==
  ASSUME FormsInv, NEW form \in Forms, setBtnType(form)
  PROVE  FormsInv'
<1> DEFINE untouched == [bytes |-> Untouched, u128 |-> Untouched]
<1>1. /\ FormsTypeOK /\ RowsTyped /\ DomTyped /\ ControlsShow
      /\ dom'.unitChoose = "" /\ DOMAIN dom' = DOMAIN dom
      /\ dom'.rows = [key \in 0 .. MaxRows - 1 |-> BlankRow]
      /\ entered' = [c \in Control |-> Untouched] /\ btnType' \in Forms
      /\ enteredRows' = [i \in DOMAIN enteredRows |-> untouched]
      /\ UNCHANGED <<state, materialsArr, edits>>
  <2>1. PICK nonce : dom' = [unitChoose |-> "", nonce |-> nonce,
                             rows |-> [key \in DOMAIN dom.rows |-> BlankRow]]
    BY DEF setBtnType
  <2>2. FormsTypeOK /\ RowsTyped /\ DomTyped /\ ControlsShow
    BY DEF FormsInv
  <2>3. DOMAIN dom.rows = 0 .. MaxRows - 1 /\ DOMAIN dom = {"unitChoose", "nonce", "rows"}
    BY <2>2 DEF DomTyped
  <2>4. /\ entered' = [c \in Control |-> Untouched] /\ btnType' \in Forms
        /\ enteredRows' = [i \in DOMAIN enteredRows |-> untouched]
        /\ UNCHANGED <<state, materialsArr, edits>>
    BY DEF setBtnType
  <2> QED BY <2>1, <2>2, <2>3, <2>4
<1>2. FormsTypeOK'
  BY <1>1 DEF FormsTypeOK
<1>3. DomTyped'
  <2>1. dom'.rows \in [0 .. MaxRows - 1 -> Row(RowText)]
    BY <1>1, Blanks
  <2> QED BY <1>1, <2>1 DEF DomTyped
<1>4. RowsTyped'
  <2>1. enteredRows' = [i \in 1 .. Len(materialsArr) |-> untouched] /\ Len(materialsArr) \in Nat
    BY <1>1, Places
  <2> HIDE DEF untouched
  <2>2. enteredRows' \in Seq(Row(RowEntry)) /\ Len(enteredRows') = Len(materialsArr)
    BY <2>1, Blanks, ConstantSeq DEF untouched
  <2> QED BY <1>1, <2>2 DEF RowsTyped
<1>5. RowsShow'
  <2>1. ASSUME NEW i \in DOMAIN materialsArr, NEW column \in Column
        PROVE  dom'.rows[i - 1][column] = ""
    BY <1>1, Places, Blanks
  <2>2. materialsArr' = materialsArr
    BY <1>1
  <2> QED BY <2>1, <2>2 DEF RowsShow
<1>6. ControlsShow'
  BY <1>1, Controls DEF ControlsShow
<1>7. EntriesStand'
  <2>1. ASSUME NEW i \in DOMAIN materialsArr, NEW column \in Column
        PROVE  enteredRows'[i][column] = Untouched
    <3>1. i \in DOMAIN enteredRows
      BY <1>1 DEF FormsTypeOK
    <3>2. enteredRows'[i] = untouched
      BY <1>1, <3>1
    <3> QED BY <3>2 DEF Column
  <2>2. \A c \in Control : entered'[c] = Untouched /\ Untouched # Zero
    BY <1>1 DEF Untouched, Zero
  <2> QED BY <1>1, <2>1, <2>2 DEF EntriesStand
<1> QED BY <1>2, <1>3, <1>4, <1>5, <1>6, <1>7 DEF FormsInv

LEMMA TextIsTyped == \A c \in Control : \A value \in Offers(c) : value # Zero
BY FormsAssumption DEF Offers, Zero, Space

LEMMA EditInv ==
  ASSUME FormsInv, NEW c \in Control, NEW value \in Offers(c), Edit(c, value)
  PROVE  FormsInv'
<1> USE DEF FormsInv
<1>1. /\ state' = [state EXCEPT ![c] = value] /\ entered' = [entered EXCEPT ![c] = value]
      /\ dom' = IF c \in {"unitChoose", "nonce"} THEN [dom EXCEPT ![c] = value] ELSE dom
      /\ UNCHANGED <<btnType, materialsArr, enteredRows>>
      /\ edits' = edits + 1 /\ edits < MaxEdits
  BY DEF Edit, Setter, Edits
<1>2. DOMAIN state = Control /\ DOMAIN entered = Control
  BY DEF FormsTypeOK
<1>3. FormsTypeOK'
  BY <1>1, FormsAssumption DEF FormsTypeOK
<1>4. dom'.rows = dom.rows /\ DOMAIN dom' = DOMAIN dom
  BY <1>1 DEF DomTyped
<1>5. RowsTyped' /\ DomTyped' /\ RowsShow'
  BY <1>1, <1>4 DEF RowsTyped, DomTyped, RowsShow
<1>6. ControlsShow'
  <2>1. CASE c = "unitChoose"
    <3>1. value \in Units
      BY <2>1 DEF Offers, Units, Party, AccId
    <3>2. state'.unitChoose = value /\ dom'.unitChoose = value
      BY <1>1, <1>2, <2>1 DEF DomTyped
    <3>3. state'.nonce = state.nonce /\ dom'.nonce = dom.nonce /\ entered'.nonce = entered.nonce
      BY <1>1, <1>2, <2>1, Controls DEF DomTyped
    <3> QED BY <3>1, <3>2, <3>3 DEF ControlsShow
  <2>2. CASE c = "nonce"
    <3>1. state'.nonce = value /\ dom'.nonce = value
      BY <1>1, <1>2, <2>2 DEF DomTyped
    <3>2. state'.unitChoose = state.unitChoose /\ dom'.unitChoose = dom.unitChoose
      BY <1>1, <1>2, <2>2, Controls DEF DomTyped
    <3> QED BY <3>1, <3>2 DEF ControlsShow
  <2>3. CASE c \notin {"unitChoose", "nonce"}
    <3>1. /\ state'.nonce = state.nonce /\ entered'.nonce = entered.nonce /\ dom' = dom
          /\ state'.unitChoose = state.unitChoose
      BY <1>1, <1>2, <2>3, Controls
    <3> QED BY <3>1 DEF ControlsShow
  <2> QED BY <2>1, <2>2, <2>3
<1>7. EntriesStand'
  BY <1>1, <1>2, TextIsTyped DEF EntriesStand
<1> QED BY <1>3, <1>5, <1>6, <1>7

LEMMA AddInv ==
  ASSUME FormsInv, addMaterials
  PROVE  FormsInv'
<1> DEFINE n == Len(materialsArr)
           new == [key |-> n, bytes |-> "1", u128 |-> "1"]
<1> USE DEF FormsInv
<1>1. /\ materialsArr' = Append(materialsArr, new)
      /\ dom' = [dom EXCEPT !.rows[n] = BlankRow]
      /\ enteredRows' = Append(enteredRows, [bytes |-> Untouched, u128 |-> Untouched])
      /\ UNCHANGED <<btnType, state, entered>>
      /\ edits' = edits + 1 /\ edits < MaxEdits /\ n < MaxRows
  BY DEF addMaterials, Edits
<1>2. n \in Nat /\ n \in 0 .. MaxRows - 1
  BY <1>1, FormsAssumption DEF RowsTyped
<1>3. new \in MaterialRow
  BY <1>2 DEF MaterialRow, RowValue
<1>4. RowsTyped'
  <2>1. enteredRows' \in Seq(Row(RowEntry)) /\ Len(enteredRows') = Len(enteredRows) + 1
    BY <1>1, Blanks, Longer DEF RowsTyped
  <2>2. materialsArr' \in Seq(MaterialRow) /\ Len(materialsArr') = n + 1
    BY <1>1, <1>3, Longer DEF RowsTyped
  <2> QED BY <2>1, <2>2 DEF RowsTyped
<1>5. /\ DOMAIN materialsArr' = 1 .. (n + 1) /\ materialsArr'[n + 1] = new
      /\ \A i \in 1 .. n : materialsArr'[i] = materialsArr[i]
      /\ DOMAIN materialsArr = 1 .. n /\ DOMAIN enteredRows' = 1 .. (n + 1) /\ Len(materialsArr') = n + 1
  BY <1>1, <1>3 DEF RowsTyped, Row
<1>6. /\ DomTyped' /\ dom'.unitChoose = dom.unitChoose /\ dom'.nonce = dom.nonce
      /\ dom'.rows = [dom.rows EXCEPT ![n] = BlankRow]
  BY <1>1, <1>2 DEF DomTyped, Row, BlankRow, RowText
<1> HIDE DEF n
<1>7. FormsTypeOK'
  <2>1. \A i \in DOMAIN materialsArr' : materialsArr'[i].key = i - 1
    BY <1>2, <1>5 DEF FormsTypeOK
  <2> QED BY <1>1, <1>2, <1>5, <2>1, FormsAssumption DEF FormsTypeOK
<1>8. RowsShow'
  <2> SUFFICES ASSUME NEW i \in 1 .. (n + 1), NEW column \in Column
               PROVE  dom'.rows[i - 1][column] \in {"", materialsArr'[i][column]}
    BY <1>5 DEF RowsShow
  <2>1. CASE i = n + 1
    <3>1. dom'.rows[i - 1] = BlankRow
      <4>1. i - 1 = n
        BY <1>2, <2>1
      <4>2. n \in DOMAIN dom.rows
        BY <1>2 DEF DomTyped
      <4> QED BY <1>6, <4>1, <4>2
    <3> QED BY <3>1, Blanks
  <2>2. CASE i # n + 1
    <3>1. i \in 1 .. n /\ i - 1 # n /\ i - 1 \in 0 .. MaxRows - 1
      BY <1>2, <2>2, FormsAssumption
    <3>2. dom'.rows[i - 1] = dom.rows[i - 1] /\ materialsArr'[i] = materialsArr[i]
      BY <1>5, <1>6, <3>1 DEF DomTyped
    <3> QED BY <1>5, <3>1, <3>2 DEF RowsShow
  <2> QED BY <2>1, <2>2
<1>9. ControlsShow'
  BY <1>1, <1>6 DEF ControlsShow
<1>10. EntriesStand'
  <2>1. /\ enteredRows'[n + 1] = [bytes |-> Untouched, u128 |-> Untouched]
        /\ \A i \in 1 .. n : enteredRows'[i] = enteredRows[i]
    <3>1. enteredRows \in Seq(Row(RowEntry)) /\ Len(enteredRows) = n
      BY DEF RowsTyped, n
    <3> DEFINE untouched == [bytes |-> Untouched, u128 |-> Untouched]
    <3>2. untouched \in Row(RowEntry) /\ enteredRows' = Append(enteredRows, untouched)
      BY <1>1, Blanks
    <3> HIDE DEF FormsInv, untouched
    <3>3. /\ enteredRows'[Len(enteredRows) + 1] = untouched
          /\ \A i \in 1 .. Len(enteredRows) : enteredRows'[i] = enteredRows[i]
      BY <3>1, <3>2, Longer
    <3> QED BY <3>1, <3>3 DEF untouched
  <2> SUFFICES ASSUME NEW i \in 1 .. (n + 1), NEW column \in Column
               PROVE  enteredRows'[i][column] \in {Untouched, materialsArr'[i][column]}
    BY <1>1, <1>5 DEF EntriesStand
  <2>2. CASE i = n + 1
    BY <2>1, <2>2 DEF Column
  <2>3. CASE i # n + 1
    <3>1. i \in 1 .. n
      BY <1>2, <2>3
    <3> QED BY <1>5, <2>1, <3>1 DEF EntriesStand
  <2> QED BY <2>2, <2>3
<1> QED BY <1>4, <1>6, <1>7, <1>8, <1>9, <1>10

LEMMA DeleteInv ==
  ASSUME FormsInv, delMaterials
  PROVE  FormsInv'
<1> DEFINE n == Len(materialsArr) - 1
<1> USE DEF FormsInv
<1>1. /\ materialsArr' = SubSeq(materialsArr, 1, n)
      /\ enteredRows' = SubSeq(enteredRows, 1, Len(enteredRows) - 1)
      /\ UNCHANGED <<btnType, state, dom, entered>>
      /\ edits' = edits + 1 /\ edits < MaxEdits /\ materialsArr # <<>>
  BY DEF delMaterials, Edits
<1>2. n \in Nat /\ Len(materialsArr) = n + 1 /\ Len(enteredRows) = n + 1
  BY <1>1 DEF RowsTyped
<1>3. /\ RowsTyped' /\ Len(materialsArr') = n
      /\ DOMAIN materialsArr' = 1 .. n /\ DOMAIN enteredRows' = 1 .. n
      /\ \A i \in 1 .. n : materialsArr'[i] = materialsArr[i] /\ enteredRows'[i] = enteredRows[i]
  <2>1. materialsArr \in Seq(MaterialRow) /\ enteredRows \in Seq(Row(RowEntry))
    BY DEF RowsTyped
  <2>2. /\ materialsArr' \in Seq(MaterialRow) /\ Len(materialsArr') = n
        /\ DOMAIN materialsArr' = 1 .. n
        /\ \A i \in 1 .. n : materialsArr'[i] = materialsArr[i]
    BY <1>1, <1>2, <2>1, Shorter
  <2>3. /\ enteredRows' \in Seq(Row(RowEntry)) /\ Len(enteredRows') = n
        /\ DOMAIN enteredRows' = 1 .. n
        /\ \A i \in 1 .. n : enteredRows'[i] = enteredRows[i]
    <3>1. enteredRows' = SubSeq(enteredRows, 1, n)
      BY <1>1, <1>2
    <3> QED BY <1>2, <2>1, <3>1, Shorter
  <2> QED BY <2>2, <2>3 DEF RowsTyped
<1>4. \A i \in 1 .. n : i \in DOMAIN materialsArr
  BY <1>2, Places
<1> HIDE DEF n
<1>5. FormsTypeOK'
  <2>1. \A i \in DOMAIN materialsArr' : materialsArr'[i].key = i - 1
    BY <1>3, <1>4 DEF FormsTypeOK
  <2>2. Len(materialsArr') <= MaxRows
    BY <1>2, <1>3, Places, FormsAssumption
  <2> QED BY <1>1, <1>2, <1>3, <1>4, <2>1, <2>2, FormsAssumption DEF FormsTypeOK
<1>6. RowsShow'
  BY <1>1, <1>3, <1>4 DEF RowsShow
<1>7. DomTyped' /\ ControlsShow'
  BY <1>1 DEF DomTyped, ControlsShow
<1>8. EntriesStand'
  BY <1>1, <1>3, <1>4 DEF EntriesStand
<1> QED BY <1>3, <1>5, <1>6, <1>7, <1>8

LEMMA SetRowInv ==
  ASSUME FormsInv, NEW r \in DOMAIN materialsArr, NEW column \in Column, NEW value \in RowText,
         setMaterials(r, column, value)
  PROVE  FormsInv'
<1> USE DEF FormsInv
<1>1. /\ materialsArr' = [materialsArr EXCEPT ![r] = [materialsArr[r] EXCEPT ![column] = value]]
      /\ dom' = [dom EXCEPT !.rows[materialsArr[r].key][column] = value]
      /\ enteredRows' = [enteredRows EXCEPT ![r] = [enteredRows[r] EXCEPT ![column] = value]]
      /\ UNCHANGED <<btnType, state, entered>>
      /\ edits' = edits + 1 /\ edits < MaxEdits
  BY DEF setMaterials, Edits
<1>2. materialsArr[r].key = r - 1 /\ r \in Nat /\ r - 1 \in 0 .. MaxRows - 1
  BY Places DEF FormsTypeOK
<1>3. materialsArr[r] \in MaterialRow
  BY SeqFacts DEF RowsTyped
<1>4. r \in DOMAIN enteredRows /\ enteredRows[r] \in Row(RowEntry)
  BY SeqFacts DEF RowsTyped, FormsTypeOK
<1>5. [materialsArr[r] EXCEPT ![column] = value]
        \in MaterialRow
  BY <1>3 DEF Column, MaterialRow, RowValue
<1>6. [enteredRows[r] EXCEPT ![column] = value] \in Row(RowEntry)
  BY <1>4 DEF Column, Row, RowEntry
<1>7. RowsTyped' /\ DOMAIN materialsArr' = DOMAIN materialsArr /\ DOMAIN enteredRows' = DOMAIN enteredRows
                 /\ Len(materialsArr') = Len(materialsArr)
  BY <1>1, <1>4, <1>5, <1>6, Replaced DEF RowsTyped
<1>8. /\ DOMAIN dom' = DOMAIN dom /\ dom'.unitChoose = dom.unitChoose /\ dom'.nonce = dom.nonce
      /\ dom'.rows = [dom.rows EXCEPT ![r - 1] = [dom.rows[r - 1] EXCEPT ![column] = value]]
  BY <1>1, <1>2 DEF DomTyped
<1>9. DomTyped'
  <2>1. dom.rows[r - 1] \in Row(RowText)
    BY <1>2 DEF DomTyped
  <2>2. [dom.rows[r - 1] EXCEPT ![column] = value] \in Row(RowText)
    BY <2>1 DEF Row, Column
  <2> QED BY <1>8, <2>2 DEF DomTyped
<1>10. FormsTypeOK'
  <2>1. \A i \in DOMAIN materialsArr' : materialsArr'[i].key = materialsArr[i].key
    BY <1>1, <1>3, <1>7 DEF Column, MaterialRow
  <2> QED BY <1>1, <1>7, <2>1, FormsAssumption DEF FormsTypeOK
<1>11. RowsShow'
  <2> SUFFICES ASSUME NEW i \in DOMAIN materialsArr, NEW k \in Column
               PROVE  dom'.rows[i - 1][k] \in {"", materialsArr'[i][k]}
    BY <1>7 DEF RowsShow
  <2>1. dom.rows[i - 1][k] \in {"", materialsArr[i][k]}
    BY DEF RowsShow
  <2>2. i \in Nat /\ i - 1 \in 0 .. MaxRows - 1
    BY Places
  <2>3. CASE i # r
    <3>1. materialsArr'[i] = materialsArr[i]
      BY <1>1, <2>3
    <3>2. i - 1 # r - 1 /\ i - 1 \in DOMAIN dom.rows
      <4>1. DOMAIN dom.rows = 0 .. MaxRows - 1
        BY DEF DomTyped
      <4>2. i - 1 # r - 1
        BY <1>2, <2>2, <2>3
      <4> QED BY <2>2, <4>1, <4>2
    <3>3. dom'.rows[i - 1] = dom.rows[i - 1]
      BY <1>8, <3>2
    <3> QED BY <2>1, <3>1, <3>3
  <2>4. CASE i = r
    <3>1. /\ materialsArr'[i] = [materialsArr[i] EXCEPT ![column] = value]
          /\ dom'.rows[i - 1] = [dom.rows[i - 1] EXCEPT ![column] = value]
      BY <1>1, <1>2, <1>8, <2>4 DEF DomTyped
    <3>2. column \in DOMAIN materialsArr[i] /\ column \in DOMAIN dom.rows[i - 1]
      BY <1>2, <1>3, <2>4 DEF DomTyped, Row, MaterialRow, Column
    <3>3. \/ k = column /\ dom'.rows[i - 1][k] = value /\ materialsArr'[i][k] = value
          \/ /\ k # column
             /\ dom'.rows[i - 1][k] = dom.rows[i - 1][k] /\ materialsArr'[i][k] = materialsArr[i][k]
      BY <3>1, <3>2
    <3> QED BY <2>1, <3>3
  <2> QED BY <2>3, <2>4
<1>12. ControlsShow'
  BY <1>1, <1>8 DEF ControlsShow
<1>13. EntriesStand'
  <2> SUFFICES ASSUME NEW i \in DOMAIN materialsArr, NEW k \in Column
               PROVE  enteredRows'[i][k] \in {Untouched, materialsArr'[i][k]}
    BY <1>1, <1>7 DEF EntriesStand
  <2>1. enteredRows[i][k] \in {Untouched, materialsArr[i][k]}
    BY DEF EntriesStand
  <2>2. CASE i # r
    BY <1>1, <2>1, <2>2
  <2>3. CASE i = r
    <3>1. /\ materialsArr'[i] = [materialsArr[i] EXCEPT ![column] = value]
          /\ enteredRows'[i] = [enteredRows[i] EXCEPT ![column] = value]
      BY <1>1, <1>4, <2>3
    <3>2. column \in DOMAIN materialsArr[i] /\ column \in DOMAIN enteredRows[i]
      BY <1>3, <1>4, <2>3 DEF Row, MaterialRow, Column
    <3> QED BY <2>1, <3>1, <3>2
  <2> QED BY <2>2, <2>3
<1> QED BY <1>7, <1>9, <1>10, <1>11, <1>12, <1>13

LEMMA FormsNextInv == FormsInv /\ [FormsNext]_formVars => FormsInv'
<1> SUFFICES ASSUME FormsInv, [FormsNext]_formVars PROVE FormsInv'
  OBVIOUS
<1>1. CASE UNCHANGED formVars
  BY <1>1 DEF formVars, FormsInv, FormsTypeOK, RowsTyped, DomTyped, RowsShow, ControlsShow,
            EntriesStand
<1>2. CASE FormsNext
  BY <1>2, MenuInv, EditInv, AddInv, DeleteInv, SetRowInv DEF FormsNext, Column, RowText
<1> QED BY <1>1, <1>2

\* The forms stay well typed: after any adding and deleting, each row of materials
\* has the key of its place (FoodTraceability.js:158-180).
THEOREM FormsTypeCorrect == FormsSpec => []FormsTypeOK
<1>1. FormsInv => FormsTypeOK
  BY DEF FormsInv
<1> QED BY <1>1, FormsInitInv, FormsNextInv, PTL DEF FormsSpec

\* What becomes of n parameters: all of them as they are, or fewer when an empty one
\* is left out.
LEMMA ParamsKept ==
  ASSUME NEW fields, NEW n \in Nat, DOMAIN fields = 1 .. n, NEW params, NEW emptyAsNull \in BOOLEAN
  PROVE  LET args == transformParams(fields, params, emptyAsNull)
             value(i) == Value(fields[i], param(params, i))
         IN  /\ Len(args) \in 0 .. n /\ DOMAIN args = 1 .. Len(args)
             /\ Len(args) = n => \A i \in 1 .. n : args[i] = value(i)
             /\ Len(args) < n => ~emptyAsNull /\ \E i \in 1 .. n : value(i).is = "null"
<1> DEFINE values == [i \in DOMAIN fields |-> Value(fields[i], param(params, i))]
           added == {i \in DOMAIN fields : emptyAsNull \/ values[i].is # "null"}
           Place(i) == Cardinality({j \in added : j <= i})
           args == transformParams(fields, params, emptyAsNull)
<1>1. args = [k \in 1 .. Cardinality(added) |-> values[CHOOSE i \in added : Place(i) = k]]
  BY DEF transformParams
<1>2. added \in SUBSET (1 .. n) /\ \A i \in 1 .. n : i \notin added => ~emptyAsNull /\ values[i].is = "null"
  <2> HIDE DEF values
  <2> QED BY Zenon
<1>3. \A i \in 1 .. n : values[i] = Value(fields[i], param(params, i))
  OBVIOUS
<1> HIDE DEF values, args
<1>4. IsFiniteSet(1 .. n) /\ \A i \in 0 .. n : IsFiniteSet(1 .. i) /\ Cardinality(1 .. i) = i
  BY FS_Interval
<1>5. /\ IsFiniteSet(added) /\ Cardinality(added) \in Nat /\ Cardinality(added) <= n
      /\ Cardinality(added) = n => added = 1 .. n
  <2>1. Cardinality(1 .. n) = n
    BY <1>4
  <2> HIDE DEF added
  <2> QED BY <1>2, <1>4, <2>1, FS_Subset, FS_CardinalityType
<1>6. Len(args) = Cardinality(added) /\ DOMAIN args = 1 .. Cardinality(added)
  <2> DEFINE c == Cardinality(added)
             e(k) == values[CHOOSE i \in added : Place(i) = k]
  <2>1. c \in Nat /\ args = [k \in 1 .. c |-> e(k)]
    BY <1>1, <1>5
  <2> HIDE DEF c, e
  <2> QED BY <2>1 DEF c
<1>7. ASSUME Cardinality(added) = n, NEW k \in 1 .. n PROVE args[k] = values[k]
  <2>1. added = 1 .. n
    BY <1>5, <1>7
  <2>2. ASSUME NEW i \in 1 .. n PROVE Place(i) = i
    <3>1. {j \in added : j <= i} = 1 .. i
      BY <2>1
    <3>2. i \in 0 .. n
      OBVIOUS
    <3>3. Cardinality(1 .. i) = i
      BY <1>4, <3>2
    <3> QED BY <3>1, <3>3
  <2> HIDE DEF added, Place
  <2>3. k \in added /\ Place(k) = k /\ \A i \in added : Place(i) = k => i = k
    BY <2>1, <2>2
  <2>4. (CHOOSE i \in added : Place(i) = k) = k
    BY <2>3
  <2> QED BY <1>1, <1>7, <2>4
<1>8. Cardinality(added) < n => \E i \in 1 .. n : i \notin added
  <2>1. added = 1 .. n => Cardinality(added) = n
    <3>1. Cardinality(1 .. n) = n
      BY <1>4
    <3> HIDE DEF added
    <3> QED BY <3>1
  <2>2. added # 1 .. n => \E i \in 1 .. n : i \notin added
    <3> HIDE DEF added
    <3> QED BY <1>2
  <2> HIDE DEF added
  <2> QED BY <1>5, <2>1, <2>2
<1> HIDE DEF added
<1>9. Len(args) \in 0 .. n /\ DOMAIN args = 1 .. Len(args)
  BY <1>5, <1>6
<1>10. Len(args) = n => \A i \in 1 .. n : args[i] = Value(fields[i], param(params, i))
  BY <1>3, <1>6, <1>7
<1>11. Len(args) < n => ~emptyAsNull /\ \E i \in 1 .. n : Value(fields[i], param(params, i)).is = "null"
  BY <1>2, <1>3, <1>6, <1>8
<1> QED BY <1>9, <1>10, <1>11 DEF args

\* Each form has a parameter for each of the call's, in its place.
LEMMA FormParams ==
  ASSUME FormsTypeOK
  PROVE  \E n \in Nat : /\ Len(Signature[btnType]) = n
                        /\ DOMAIN Signature[btnType] = 1 .. n /\ DOMAIN inputParams = 1 .. n
<1>1. /\ DOMAIN Signature = {"produce", "trade", "store", "transport", "setAccountGLN",
                             "setManufacturerLicense", "qrCode"}
      /\ btnType \in DOMAIN Signature
  BY DEF FormsTypeOK, Forms, Signature
<1>2. CASE btnType = "produce"
  BY <1>2 DEF Signature, inputParams, Produce
<1>3. CASE btnType = "trade"
  BY <1>3 DEF Signature, inputParams, Trade
<1>4. CASE btnType = "store"
  BY <1>4 DEF Signature, inputParams, Store
<1>5. CASE btnType = "transport"
  BY <1>5 DEF Signature, inputParams, Transport
<1>6. CASE btnType = "setAccountGLN"
  BY <1>6 DEF Signature, inputParams, SetAccountGLN
<1>7. CASE btnType = "setManufacturerLicense"
  BY <1>7 DEF Signature, inputParams, SetManufacturerLicense
<1>8. CASE btnType = "qrCode"
  BY <1>8 DEF Signature, inputParams, QrCode
<1> QED BY <1>1, <1>2, <1>3, <1>4, <1>5, <1>6, <1>7, <1>8

LEMMA FormPlaces ==
  ASSUME FormsTypeOK, NEW i \in DOMAIN Signature[btnType]
  PROVE  LET c == Signature[btnType][i]
             p == inputParams[i]
         IN  /\ c \in Party => p = Identity(c)
             /\ c = "licenseChoose" => p = License
             /\ c = "materials" => p = Materials
             /\ c \in Control \ (Party \cup {"licenseChoose"}) => p = Text(c)
<1> USE DEF Party, AccId, Control, InitialState
<1> HIDE DEF Control
<1>1. /\ DOMAIN Signature = {"produce", "trade", "store", "transport", "setAccountGLN",
                             "setManufacturerLicense", "qrCode"}
      /\ btnType \in DOMAIN Signature
  BY DEF FormsTypeOK, Forms, Signature
<1>2. CASE btnType = "produce"
  BY <1>2 DEF Signature, inputParams, Produce, Control
<1>3. CASE btnType = "trade"
  BY <1>3 DEF Signature, inputParams, Trade
<1>4. CASE btnType = "store"
  BY <1>4 DEF Signature, inputParams, Store
<1>5. CASE btnType = "transport"
  BY <1>5 DEF Signature, inputParams, Transport
<1>6. CASE btnType = "setAccountGLN"
  BY <1>6 DEF Signature, inputParams, SetAccountGLN
<1>7. CASE btnType = "setManufacturerLicense"
  BY <1>7 DEF Signature, inputParams, SetManufacturerLicense
<1>8. CASE btnType = "qrCode"
  BY <1>8 DEF Signature, inputParams, QrCode, Control
<1> QED BY <1>1, <1>2, <1>3, <1>4, <1>5, <1>6, <1>7, <1>8

\* What the button sends in each place, when nothing is left out.
LEMMA ParamsSent ==
  ASSUME FormsTypeOK
  PROVE  /\ btnType # "qrCode" => Len(arguments) = Len(Signature[btnType])
         /\ Len(arguments) = Len(Signature[btnType]) =>
              /\ DOMAIN arguments = DOMAIN Signature[btnType]
              /\ \A i \in DOMAIN arguments :
                   arguments[i] = Value([type |-> "string", optional |-> FALSE], inputParams[i])
<1> DEFINE field == [type |-> "string", optional |-> FALSE]
           emptyAsNull == btnType # "qrCode"
<1>1. PICK n \in Nat : /\ Len(Signature[btnType]) = n
                       /\ DOMAIN Signature[btnType] = 1 .. n /\ DOMAIN inputParams = 1 .. n
  BY FormParams
<1>2. paramFields = [i \in 1 .. n |-> field]
  BY <1>1 DEF paramFields
<1>3. \A i \in 1 .. n : paramFields[i] = field /\ param(inputParams, i) = inputParams[i]
  BY <1>1, <1>2 DEF param
<1>4. arguments = transformParams(paramFields, inputParams, emptyAsNull) /\ emptyAsNull \in BOOLEAN
  BY DEF arguments
<1>5. DOMAIN paramFields = 1 .. n
  BY <1>2
<1> HIDE DEF field, emptyAsNull
<1>6. /\ Len(arguments) \in 0 .. n /\ DOMAIN arguments = 1 .. Len(arguments)
      /\ Len(arguments) = n =>
           \A i \in 1 .. n : arguments[i] = Value(paramFields[i], param(inputParams, i))
      /\ Len(arguments) < n => ~emptyAsNull
  BY <1>4, <1>5, ParamsKept
<1>7. emptyAsNull => Len(arguments) = n
  <2>1. Len(arguments) \in 0 .. n
    BY <1>6, Zenon
  <2>2. Len(arguments) < n \/ Len(arguments) = n
    BY <2>1
  <2> QED BY <1>6, <2>2, Zenon
<1>8. Len(arguments) = n => \A i \in 1 .. n : arguments[i] = Value(field, inputParams[i])
  BY <1>3, <1>6
<1> QED BY <1>1, <1>6, <1>7, <1>8 DEF field, emptyAsNull

\* The button of the form for a food sends the unit as it was chosen.
LEMMA UnitSent ==
  ASSUME FormsInv, btnType = "produce"
  PROVE  arguments[4].value = state.unitChoose
<1>1. Len(Signature[btnType]) = 6 /\ 4 \in DOMAIN Signature[btnType] /\ Signature[btnType][4] = "unitChoose"
  BY DEF Signature
<1>2. state.unitChoose \notin {"", Space, Zero}
  BY DEF FormsInv, ControlsShow, Units, Space, Zero
<1>3. inputParams[4] = [is |-> "string", value |-> state.unitChoose]
  <2>1. inputParams[4] = Text("unitChoose")
    BY DEF inputParams, Produce
  <2>2. Text("unitChoose") = [is |-> "string", value |-> state.unitChoose]
    BY <1>2 DEF Text
  <2> QED BY <2>1, <2>2
<1> DEFINE p == inputParams[4]
<1>4. p.is = "string" /\ p.value = state.unitChoose
  BY <1>3
<1>5. arguments[4] = Value([type |-> "string", optional |-> FALSE], p)
  BY <1>1, ParamsSent DEF FormsInv
<1> HIDE DEF p
<1>6. Typed(p) /\ Trim(p.value) = state.unitChoose
  BY <1>2, <1>4 DEF Typed, Trim
<1>7. Value([type |-> "string", optional |-> FALSE], p).value = state.unitChoose
  BY <1>2, <1>4, <1>6 DEF Value
<1> QED BY <1>5, <1>7

\* What is no text passes through.
LEMMA ObjectSent ==
  ASSUME NEW field, NEW p, p.is \in {"object", "array"}
  PROVE  Value(field, p) = p
BY DEF Value, Typed

\* The last parameter, unless it is empty, is the last argument.
LEMMA LastKept ==
  ASSUME NEW fields, NEW n \in Nat \ {0}, DOMAIN fields = 1 .. n, NEW params,
         NEW emptyAsNull \in BOOLEAN, Value(fields[n], param(params, n)).is # "null"
  PROVE  LET args == transformParams(fields, params, emptyAsNull)
         IN  Len(args) \in Nat \ {0} /\ args[Len(args)] = Value(fields[n], param(params, n))
<1> DEFINE values == [i \in DOMAIN fields |-> Value(fields[i], param(params, i))]
           added == {i \in DOMAIN fields : emptyAsNull \/ values[i].is # "null"}
           Place(i) == Cardinality({j \in added : j <= i})
           args == transformParams(fields, params, emptyAsNull)
           c == Cardinality(added)
<1>1. args = [k \in 1 .. c |-> values[CHOOSE i \in added : Place(i) = k]]
  BY DEF transformParams
<1>2. values[n] = Value(fields[n], param(params, n))
  OBVIOUS
<1>3. added \in SUBSET (1 .. n) /\ n \in added
  <2>1. n \in DOMAIN fields
    OBVIOUS
  <2> HIDE DEF values
  <2> QED BY <1>2, <2>1, Zenon
<1> HIDE DEF values, added, args
<1>4. IsFiniteSet(added)
  <2>1. IsFiniteSet(1 .. n)
    BY FS_Interval
  <2> QED BY <1>3, <2>1, FS_Subset
<1>5. c \in Nat \ {0}
  <2>1. c \in Nat /\ (c = 0 <=> added = {})
    BY <1>4, FS_CardinalityType, FS_EmptySet
  <2> QED BY <1>3, <2>1
<1>6. Place(n) = c
  <2>1. \A j \in added : j <= n
    <3>1. \A j \in 1 .. n : j <= n
      OBVIOUS
    <3> QED BY <1>3, <3>1
  <2>2. {j \in added : j <= n} = added
    BY <2>1
  <2> QED BY <2>2
<1>7. ASSUME NEW i \in added, Place(i) = c
      PROVE  i = n
  <2>1. {j \in added : j <= i} = added
    BY <1>4, <1>7, FS_Subset
  <2>2. n <= i /\ i \in 1 .. n
    BY <1>3, <2>1
  <2> QED BY <2>2
<1> HIDE DEF Place
<1>8. (CHOOSE i \in added : Place(i) = c) = n
  BY <1>3, <1>6, <1>7
<1> DEFINE e(k) == values[CHOOSE i \in added : Place(i) = k]
<1>9. args = [k \in 1 .. c |-> e(k)] /\ e(c) = values[n]
  BY <1>1, <1>8
<1> HIDE DEF e, c
<1>10. Len(args) = c /\ args[c] = values[n]
  BY <1>5, <1>9
<1> QED BY <1>2, <1>5, <1>10 DEF args

\* The rows of materials are sent as they are.
LEMMA MaterialsSent ==
  ASSUME FormsInv, btnType = "produce"
  PROVE  arguments[6].value = materialsArr
<1>1. Len(Signature[btnType]) = 6 /\ 6 \in DOMAIN Signature[btnType]
  BY DEF Signature
<1>2. inputParams[6] = Materials
  BY DEF inputParams, Produce
<1>3. arguments[6] = Value([type |-> "string", optional |-> FALSE], Materials)
  BY <1>1, <1>2, ParamsSent DEF FormsInv
<1>4. Materials.is = "array" /\ Materials.value = materialsArr
  BY DEF Materials
<1> QED BY <1>3, <1>4, ObjectSent

\* The number of the lot is the last parameter of the form for a QR code.
LEMMA NoncePlace ==
  ASSUME btnType = "qrCode", NEW field, field = [type |-> "string", optional |-> FALSE],
         Value(field, Text("nonce")).is # "null"
  PROVE  /\ Len(arguments) \in Nat \ {0}
         /\ arguments[Len(arguments)] = Value(field, Text("nonce"))
<1>1. inputParams[5] = Text("nonce") /\ DOMAIN inputParams = 1 .. 5
  BY DEF inputParams, QrCode
<1>2. paramFields = [i \in 1 .. 5 |-> field]
  BY <1>1 DEF paramFields
<1>3. param(inputParams, 5) = Text("nonce")
  BY <1>1 DEF param
<1>4. arguments = transformParams(paramFields, inputParams, FALSE)
  BY DEF arguments
<1>5. paramFields[5] = field /\ DOMAIN paramFields = 1 .. 5
  BY <1>2
<1>6. /\ Value(paramFields[5], param(inputParams, 5)) = Value(field, Text("nonce"))
      /\ Value(paramFields[5], param(inputParams, 5)).is # "null"
  BY <1>3, <1>5
<1>7. 5 \in Nat \ {0} /\ FALSE \in BOOLEAN
  OBVIOUS
<1>8. /\ Len(arguments) \in Nat \ {0}
      /\ arguments[Len(arguments)] = Value(paramFields[5], param(inputParams, 5))
  BY <1>4, <1>5, <1>6, <1>7, LastKept, Zenon
<1> QED BY <1>6, <1>8

\* What was typed for the lot is the last argument, whatever is left out.
LEMMA NonceSent ==
  ASSUME FormsInv, btnType = "qrCode", entered.nonce # Untouched, Trim(dom.nonce) # ""
  PROVE  arguments # <<>> /\ arguments[Len(arguments)].value = Trim(dom.nonce)
<1> DEFINE field == [type |-> "string", optional |-> FALSE]
           p == [is |-> "string", value |-> dom.nonce]
<1>1. state.nonce = dom.nonce /\ state.nonce # Zero
  <2>1. entered["nonce"] \in {Untouched, state["nonce"]} /\ entered["nonce"] # Zero
    BY Controls DEF FormsInv, EntriesStand
  <2> QED BY <2>1 DEF FormsInv, ControlsShow
<1>2. Text("nonce") = p
  BY <1>1 DEF Text
<1>3. Value(field, p) = [is |-> "string", value |-> Trim(dom.nonce)]
  BY DEF Value, Typed
<1> HIDE DEF field, p
<1>4. Value(field, Text("nonce")).is # "null" /\ Value(field, p).value = Trim(dom.nonce)
  <2>1. Value(field, Text("nonce")) = Value(field, p)
    BY <1>2
  <2> DEFINE sent == Value(field, p)
  <2>2. sent = [is |-> "string", value |-> Trim(dom.nonce)]
    BY <1>3
  <2> HIDE DEF sent
  <2>3. sent.is = "string" /\ sent.value = Trim(dom.nonce)
    BY <2>2
  <2> QED BY <2>1, <2>3 DEF sent
<1>5. Len(arguments) \in Nat \ {0} /\ arguments[Len(arguments)] = Value(field, p)
  <2>1. field = [type |-> "string", optional |-> FALSE]
    BY DEF field
  <2>2. /\ Len(arguments) \in Nat \ {0}
        /\ arguments[Len(arguments)] = Value(field, Text("nonce"))
    BY <1>4, <2>1, NoncePlace
  <2> QED BY <1>2, <2>2
<1>6. arguments # <<>>
  BY <1>5, EmptySeq
<1> QED BY <1>4, <1>5, <1>6

\* The unit and the rows of materials that the form for a food shows are those its call
\* carries, for any number of rows; so is the number of the lot in the form for a QR
\* code, once one was typed there.  An input may be blank over what is sent; and what
\* that last one shows before anything is typed there is left open: it may be another
\* form's number, which is not sent (FoodTraceability.js:141-180, 920-927).
THEOREM ScreenIsTrue == FormsSpec => []ShownIsSent
<1>1. FormsInv => ShownIsSent
  BY UnitSent, MaterialsSent, NonceSent
     DEF FormsInv, FormsTypeOK, RowsShow, ControlsShow, ShownIsSent, Column
<1> QED BY <1>1, FormsInitInv, FormsNextInv, PTL DEF FormsSpec

\* What is entered in a control on the screen goes into the call as it is, but for a
\* blank.
LEMMA EntrySent ==
  ASSUME EntriesStand, NEW c \in Control, NEW field, field.type = "string"
  PROVE  entered[c] = Untouched \/ Value(field, Text(c)).value = Trim(entered[c])
<1> DEFINE sent == Value(field, Text(c))
<1> SUFFICES ASSUME entered[c] # Untouched PROVE sent.value = Trim(state[c]) /\ entered[c] = state[c]
  OBVIOUS
<1>1. entered[c] = state[c] /\ state[c] # Zero
  BY DEF EntriesStand
<1>2. Text(c) = [is |-> "string", value |-> state[c]]
  BY <1>1 DEF Text
<1> DEFINE p == Text(c)
<1>3. p.is = "string" /\ p.value = state[c]
  BY <1>2
<1> HIDE DEF p
<1>4. CASE Trim(state[c]) = ""
  <2>1. Value(field, p) = Null
    BY <1>3, <1>4 DEF Value, Typed
  <2>2. Null.value = ""
    BY DEF Null
  <2> QED BY <1>1, <1>4, <2>1, <2>2 DEF p
<1>5. CASE Trim(state[c]) # ""
  <2>1. Value(field, p) = [is |-> field.type, value |-> Trim(state[c])]
    BY <1>3, <1>5 DEF Value, Typed
  <2> QED BY <1>1, <2>1 DEF p
<1> QED BY <1>4, <1>5

\* What was last entered in the form is what the call carries, each entry in the place
\* of the pallet's signature it is for, for any texts, addresses and number of rows,
\* whatever was edited before on this form and the others (inputParams and the
\* handlers of FoodTraceability.js).
THEOREM EntriesAreSent == FormsSpec => []EnteredIsSent
<1>1. FormsInv => EnteredIsSent
  <2> SUFFICES ASSUME FormsInv, Len(arguments) = Len(Signature[btnType]), NEW i \in DOMAIN arguments
               PROVE  LET c == Signature[btnType][i]
                          sent == arguments[i]
                      IN  /\ c \in Party => /\ Agrees(c, sent.of)
                                            /\ Agrees((IF sent.of = "AccId" THEN AccId ELSE GLN)[c], sent.value)
                          /\ c = "licenseChoose" =>
                               /\ Agrees(c, sent.of)
                               /\ sent.of = "registration" => Agrees("licenseInput", sent.value)
                          /\ c = "materials" =>
                               \A r \in DOMAIN enteredRows, column \in {"bytes", "u128"} :
                                 enteredRows[r][column] \in {Untouched, sent.value[r][column]}
                          /\ c \in Control \ (Party \cup {"licenseChoose"}) =>
                               entered[c] = Untouched \/ sent.value = Trim(entered[c])
    BY ParamsSent DEF FormsInv, EnteredIsSent
  <2> DEFINE c == Signature[btnType][i]
             sent == arguments[i]
             field == [type |-> "string", optional |-> FALSE]
             p == inputParams[i]
  <2>1. FormsTypeOK /\ EntriesStand
    BY DEF FormsInv
  <2>2. i \in DOMAIN Signature[btnType] /\ sent = Value(field, p)
    BY <2>1, ParamsSent
  <2>3. /\ c \in Party => p = Identity(c)
        /\ c = "licenseChoose" => p = License
        /\ c = "materials" => p = Materials
        /\ c \in Control \ (Party \cup {"licenseChoose"}) => p = Text(c)
    BY <2>1, <2>2, FormPlaces
  <2>4. field.type = "string"
    OBVIOUS
  <2> HIDE DEF c, sent, field, p
  <2>5. \A k \in Control : Agrees(k, state[k])
    BY <2>1 DEF EntriesStand, Agrees
  <2>6. ASSUME c \in Party
        PROVE  Agrees(c, sent.of) /\ Agrees((IF sent.of = "AccId" THEN AccId ELSE GLN)[c], sent.value)
    <3>1. p = Identity(c) /\ Identity(c).is = "object"
      BY <2>3, <2>6 DEF Identity
    <3>2. sent = Identity(c)
      BY <2>2, <3>1, ObjectSent
    <3>3. sent.of = state[c] /\ sent.value = state[IF state[c] = "AccId" THEN AccId[c] ELSE GLN[c]]
      BY <3>2 DEF Identity
    <3>4. c \in Control /\ AccId[c] \in Control /\ GLN[c] \in Control
      BY <2>6 DEF Party, AccId, GLN, Control, InitialState
    <3> QED BY <2>5, <3>3, <3>4
  <2>7. ASSUME c = "licenseChoose"
        PROVE  Agrees(c, sent.of) /\ (sent.of = "registration" => Agrees("licenseInput", sent.value))
    <3>1. p = License /\ License.is = "object"
      BY <2>3, <2>7 DEF License
    <3>2. sent = License
      BY <2>2, <3>1, ObjectSent
    <3>3. sent.of = state[c] /\ (sent.of = "registration" => sent.value = state["licenseInput"])
      BY <2>7, <3>2 DEF License
    <3>4. c \in Control /\ "licenseInput" \in Control
      BY <2>7 DEF Control, InitialState
    <3> QED BY <2>5, <3>3, <3>4
  <2>8. ASSUME c = "materials", NEW r \in DOMAIN enteredRows, NEW column \in {"bytes", "u128"}
        PROVE  enteredRows[r][column] \in {Untouched, sent.value[r][column]}
    <3>1. p = Materials /\ Materials.is = "array" /\ Materials.value = materialsArr
      BY <2>3, <2>8 DEF Materials
    <3>2. sent.value = materialsArr
      BY <2>2, <3>1, ObjectSent
    <3> QED BY <2>1, <3>2 DEF EntriesStand, FormsTypeOK, Column
  <2>9. ASSUME c \in Control \ (Party \cup {"licenseChoose"})
        PROVE  entered[c] = Untouched \/ sent.value = Trim(entered[c])
    BY <2>1, <2>2, <2>3, <2>4, <2>9, EntrySent
  <2> QED BY <2>6, <2>7, <2>8, <2>9 DEF c, sent
<1> QED BY <1>1, FormsInitInv, FormsNextInv, PTL DEF FormsSpec
=============================================================================
