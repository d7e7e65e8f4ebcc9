-------------------------- MODULE StrIsSameProofs ---------------------------
(***************************************************************************)
(* strIsSame decides equality up to case, for strings of every length.     *)
(***************************************************************************)
EXTENDS StrIsSame, TLAPS

\* A character of a string is a code below its length and 0 from there on.
LEMMA Characters ==
  ASSUME NEW s \in String
  PROVE  /\ Len(s) \in Nat
         /\ \A k \in Nat : At(s, k) \in 0..127
         /\ \A k \in Nat : At(s, k) = 0 <=> k >= Len(s)
<1>1. PICK n \in 0..MaxLen : s \in [1..n -> Code]
  BY DEF String
<1>2. s \in Seq(Code) /\ Len(s) = n /\ n \in Nat
  BY <1>1, MaxLenAssumption
<1>3. \A k \in Nat : k < n => s[k + 1] \in 1..127
  <2>1. \A k \in Nat : k < n => k + 1 \in 1..n
    BY <1>2
  <2>2. \A k \in Nat : k < n => s[k + 1] \in Code
    BY <1>1, <2>1
  <2> QED BY <2>2, CodeAssumption
<1>4. ASSUME NEW k \in Nat
      PROVE  At(s, k) \in 0..127 /\ (At(s, k) = 0 <=> k >= Len(s))
  <2>1. CASE k < n
    <3>1. At(s, k) = s[k + 1] /\ s[k + 1] \in 1..127
      BY <2>1, <1>2, <1>3 DEF At
    <3>2. At(s, k) \in 1..127
      BY <3>1
    <3>3. At(s, k) \in 0..127 /\ At(s, k) # 0
      BY <3>2
    <3>4. ~(k >= Len(s))
      BY <2>1, <1>2
    <3> QED BY <3>3, <3>4
  <2>2. CASE ~(k < n)
    <3>1. At(s, k) = 0
      BY <2>2, <1>2 DEF At
    <3> QED BY <3>1, <2>2, <1>2
  <2> QED BY <2>1, <2>2
<1> QED BY <1>2, <1>4

\* The test of the loop is equality of the folded characters.
LEMMA CharactersAgree ==
  ASSUME NEW a \in 1..127, NEW b \in 1..127, nAa \in BOOLEAN
  PROVE  SameChar(a, b) <=> Fold(a) = Fold(b)
BY DEF SameChar, Fold, Letter, Aanum

\* Folding keeps the terminating 0 apart from every character.
LEMMA FoldZero ==
  ASSUME NEW a \in 0..127, nAa \in BOOLEAN
  PROVE  Fold(a) = 0 <=> a = 0
BY DEF Fold

LEMMA InitInv == Init => Inv
BY NumAssumption DEF Init, Inv, TypeOK, Compared, SameIffFolded, FirstDifference

\* The function returns the position after i, where the strings differ.
LEMMA Located ==
  ASSUME i \in Nat, Compared, Fold(At(AA, i)) # Fold(At(BB, i)),
         res' = i + 1, UNCHANGED <<AA, BB, nAa, i>>
  PROVE  FirstDifference'
<1>1. (i + 1) - 2 = i - 1 /\ (i + 1) - 1 = i
  OBVIOUS
<1>2. \A k \in 0..(i - 1) : Fold(At(AA, k)) = Fold(At(BB, k))
  BY DEF Compared
<1>3. \A k \in 0..((i + 1) - 2) : Fold(At(AA, k)) = Fold(At(BB, k))
  BY <1>1, <1>2
<1>4. Fold(At(AA, (i + 1) - 1)) # Fold(At(BB, (i + 1) - 1))
  BY <1>1
<1> QED BY <1>3, <1>4 DEF FirstDifference, Fold, At

LEMMA Unequal ==
  ASSUME i \in Nat, Field(AA)[i] # Field(BB)[i],
         res' = i + 1, UNCHANGED <<AA, BB, nAa, i>>
  PROVE  SameIffFolded'
<1>1. Field(AA) # Field(BB)
  OBVIOUS
<1>2. Field(AA)' # Field(BB)'
  BY <1>1 DEF Field, Fold, At
<1>3. res' # 0
  OBVIOUS
<1> QED BY <1>2, <1>3 DEF SameIffFolded

LEMMA StepInv == Inv /\ [Next]_vars => Inv'
<1> SUFFICES ASSUME Inv, [Next]_vars PROVE Inv'
  OBVIOUS
<1> USE NumAssumption
<1> DEFINE Agree(k) == /\ At(AA, k) # 0 /\ At(BB, k) # 0
                       /\ Fold(At(AA, k)) = Fold(At(BB, k))
<1>1. TypeOK /\ Compared /\ SameIffFolded /\ FirstDifference
  BY DEF Inv
<1>2. /\ \A k \in Nat : At(AA, k) \in 0..127 /\ At(BB, k) \in 0..127
      /\ \A k \in Nat : At(AA, k) = 0 <=> k >= Len(AA)
      /\ \A k \in Nat : At(BB, k) = 0 <=> k >= Len(BB)
      /\ Len(AA) \in Nat /\ Len(BB) \in Nat
  BY <1>1, Characters DEF TypeOK
<1>3. i \in Nat /\ nAa \in BOOLEAN
  BY <1>1 DEF TypeOK
<1>4. CASE Compare
  <2>1. At(AA, i) \in 1..127 /\ At(BB, i) \in 1..127
    BY <1>2, <1>3, <1>4 DEF Compare
  <2>2. CASE SameChar(At(AA, i), At(BB, i))
    <3>1. Fold(At(AA, i)) = Fold(At(BB, i))
      BY <2>1, <2>2, <1>3, CharactersAgree, Zenon
    <3>2. i' = i + 1 /\ UNCHANGED <<AA, BB, nAa, res>> /\ i < num /\ res = -1
      BY <1>4, <2>2 DEF Compare, More
    <3>3. TypeOK'
      BY <3>2, <1>1 DEF TypeOK
    <3>4. Compared'
      <4>1. \A k \in 0..i : Agree(k)
        BY <3>1, <2>1, <1>1, <1>3 DEF Compared
      <4>2. i' - 1 = i
        BY <1>3, <3>2
      <4> HIDE DEF Agree
      <4>3. \A k : Agree(k)' <=> Agree(k)
        BY <3>2 DEF Agree, Fold, At
      <4>4. Compared' <=> \A k \in 0..(i' - 1) : Agree(k)'
        BY DEF Compared, Agree
      <4> QED BY <4>1, <4>2, <4>3, <4>4
    <3> QED BY <3>2, <3>3, <3>4, <1>1 DEF Inv, SameIffFolded, FirstDifference
  <2>3. CASE ~SameChar(At(AA, i), At(BB, i))
    <3>1. Fold(At(AA, i)) # Fold(At(BB, i))
      BY <2>1, <2>3, <1>3, CharactersAgree, Zenon
    <3>2. res' = i + 1 /\ UNCHANGED <<AA, BB, nAa, i>> /\ i < num /\ res = -1
      BY <1>4, <2>3 DEF Compare, More
    <3>3. TypeOK' /\ Compared'
      BY <3>2, <1>1 DEF TypeOK, Compared, Fold, At
    <3>4. FirstDifference'
      BY <3>1, <3>2, <1>1, <1>3, Located
    <3>5. Field(AA)[i] # Field(BB)[i]
      BY <3>1, <3>2, <1>3 DEF Field
    <3>6. SameIffFolded'
      BY <3>2, <3>5, <1>3, Unequal
    <3> QED BY <3>3, <3>4, <3>6 DEF Inv
  <2> QED BY <2>2, <2>3
<1>5. CASE Finish
  <2>1. UNCHANGED <<AA, BB, nAa, i>> /\ res = -1
    BY <1>5 DEF Finish
  <2>2. TypeOK' /\ Compared'
    BY <2>1, <1>5, <1>1 DEF TypeOK, Compared, Finish, Fold, At
  <2>3. CASE res' = 0
    <3>1. i = num \/ (At(AA, i) = 0 /\ At(BB, i) = 0)
      BY <1>5, <2>3, <1>3 DEF Finish
    <3>2. \A k \in 0..(num - 1) : Fold(At(AA, k)) = Fold(At(BB, k))
      <4> SUFFICES ASSUME NEW k \in 0..(num - 1)
                   PROVE  Fold(At(AA, k)) = Fold(At(BB, k))
        OBVIOUS
      <4>1. CASE k < i
        BY <4>1, <1>1, <1>3 DEF Compared
      <4>2. CASE k >= i
        <5>1. k \in Nat /\ i # num
          BY <4>2, <1>3
        <5>2. At(AA, i) = 0 /\ At(BB, i) = 0
          BY <3>1, <5>1
        <5>3. i >= Len(AA) /\ i >= Len(BB)
          BY <5>2, <1>2, <1>3
        <5>4. k >= Len(AA) /\ k >= Len(BB)
          BY <5>3, <4>2, <1>2, <1>3, <5>1
        <5> QED BY <5>4, <1>2, <5>1
      <4> QED BY <4>1, <4>2, <1>3
    <3>3. Field(AA) = Field(BB)
      BY <3>2 DEF Field
    <3>4. Field(AA)' = Field(BB)'
      BY <3>3, <2>1 DEF Field, Fold, At
    <3> QED BY <2>2, <2>3, <3>4 DEF Inv, SameIffFolded, FirstDifference
  <2>4. CASE res' = i + 1 /\ i # num /\ (At(AA, i) # 0 \/ At(BB, i) # 0)
    <3>1. At(AA, i) \in 0..127 /\ At(BB, i) \in 0..127
          /\ (At(AA, i) = 0 \/ At(BB, i) = 0)
      BY <1>5, <2>4, <1>2, <1>3 DEF Finish
    <3>2. Fold(At(AA, i)) # Fold(At(BB, i))
      BY <3>1, <2>4, <1>3, FoldZero
    <3>3. i \in 0..(num - 1)
      BY <2>4, <1>1 DEF TypeOK
    <3>4. Field(AA)[i] # Field(BB)[i]
      BY <3>2, <3>3 DEF Field
    <3>5. SameIffFolded'
      BY <3>4, <2>4, <2>1, <1>3, Unequal
    <3>6. FirstDifference'
      BY <3>2, <2>4, <2>1, <1>1, <1>3, Located
    <3> QED BY <2>2, <3>5, <3>6 DEF Inv
  <2>5. CASE i = num \/ (At(AA, i) = 0 /\ At(BB, i) = 0)
    BY <1>5, <2>5, <2>3 DEF Finish
  <2>6. CASE ~(i = num \/ (At(AA, i) = 0 /\ At(BB, i) = 0))
    BY <1>5, <2>6, <2>4 DEF Finish
  <2> QED BY <2>5, <2>6
<1>6. CASE UNCHANGED vars
  <2>1. UNCHANGED <<AA, BB, nAa, i, res>>
    BY <1>6 DEF vars
  <2>2. TypeOK' /\ Compared'
    BY <2>1, <1>1 DEF TypeOK, Compared, Fold, At
  <2>3. SameIffFolded'
    BY <2>1, <1>1, ZenonT(40) DEF SameIffFolded, Field, Fold, At
  <2>4. FirstDifference'
    BY <2>1, <1>1 DEF FirstDifference, Fold, At
  <2> QED BY <2>2, <2>3, <2>4 DEF Inv
<1> QED BY <1>4, <1>5, <1>6 DEF Next, Returned

\* For strings of every length and every bound num, strIsSame answers 0
\* exactly when the two names are equal up to case.
THEOREM DecidesEquality == Spec => []SameIffFolded
<1>1. Inv => SameIffFolded
  BY DEF Inv
<1> QED BY <1>1, InitInv, StepInv, PTL DEF Spec

\* For strings of every length, a positive result of strIsSame is the position
\* of the first difference.
THEOREM LocatesDifference == Spec => []FirstDifference
<1>1. Inv => FirstDifference
  BY DEF Inv
<1> QED BY <1>1, InitInv, StepInv, PTL DEF Spec

\* strIsSame compares nothing behind the shorter of its bound and the two
\* terminating zeros: the index and the result stay in their ranges.
THEOREM StaysInBounds == Spec => []TypeOK
<1>1. Inv => TypeOK
  BY DEF Inv
<1> QED BY <1>1, InitInv, StepInv, PTL DEF Spec

=============================================================================
