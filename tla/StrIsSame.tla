----------------------------- MODULE StrIsSame ------------------------------
(***************************************************************************)
(* strIsSame of src/main.c, which toSetCycdata uses to find the library of *)
(* a configuration block: the loop over two C strings, one character a     *)
(* step.  A string is the sequence of its character codes; reading it at   *)
(* its length gives the terminating 0.                                     *)
(***************************************************************************)
EXTENDS Integers, Sequences

CONSTANTS
  Code,     \* the character codes that occur
  MaxLen,   \* length of the longest string
  num       \* the most characters that are compared

ASSUME CodeAssumption == Code \subseteq 1..127
ASSUME MaxLenAssumption == MaxLen \in Nat
ASSUME NumAssumption == num \in Nat \ {0}

String == UNION {[1..n -> Code] : n \in 0..MaxLen}

VARIABLES
  AA, BB,   \* the two strings
  nAa,      \* ignore the case
  i,        \* characters compared so far
  res       \* the result, -1 while the function runs

vars == <<AA, BB, nAa, i, res>>

At(s, k) == IF k < Len(s) THEN s[k + 1] ELSE 0

Init ==
  /\ AA \in String /\ BB \in String
  /\ nAa \in BOOLEAN
  /\ i = 0 /\ res = -1

Aanum == IF nAa THEN 32 ELSE 0

\* Mutant: only a lower bound on the codes whose case is ignored.
LetterFrom(c) == c >= 65

\* The codes whose case is ignored: 'A' to 'z'.
Letter(c) == c >= 65 /\ c <= 122

\* The characters a and b count as equal.
SameChar(a, b) ==
  \/ a = b
  \/ (a + Aanum = b \/ a = b + Aanum) /\ Letter(a) /\ Letter(b)

\* The loop's bound (mutant: one too many).
MoreByOne == i <= num
More == i < num

\* One round of the loop.
Compare ==
  /\ res = -1 /\ More /\ At(AA, i) # 0 /\ At(BB, i) # 0
  /\ IF SameChar(At(AA, i), At(BB, i)) THEN i' = i + 1 /\ res' = res
                                       ELSE i' = i /\ res' = i + 1
  /\ UNCHANGED <<AA, BB, nAa>>

\* Mutant: the position of the end of the shorter string is one too large.
FinishLate ==
  /\ res = -1 /\ (i = num \/ At(AA, i) = 0 \/ At(BB, i) = 0)
  /\ res' = IF i = num \/ (At(AA, i) = 0 /\ At(BB, i) = 0) THEN 0 ELSE i + 2
  /\ UNCHANGED <<AA, BB, nAa, i>>

\* After the loop: num characters were equal, or one string has ended.
Finish ==
  /\ res = -1 /\ (i = num \/ At(AA, i) = 0 \/ At(BB, i) = 0)
  /\ res' = IF i = num \/ (At(AA, i) = 0 /\ At(BB, i) = 0) THEN 0 ELSE i + 1
  /\ UNCHANGED <<AA, BB, nAa, i>>

Returned == res # -1 /\ UNCHANGED vars

Next == Compare \/ Finish \/ Returned

Spec == Init /\ [][Next]_vars

-----------------------------------------------------------------------------
TypeOK ==
  /\ AA \in String /\ BB \in String /\ nAa \in BOOLEAN
  /\ i \in 0..num /\ res \in -1..num

\* The lower-case form of a code.
Fold(c) == IF nAa /\ c \in 65..90 THEN c + 32 ELSE c

\* What a name field of num bytes holds: the folded string, padded with 0.
Field(s) == [k \in 0..(num - 1) |-> Fold(At(s, k))]

\* strIsSame returns 0 exactly for two strings whose first num characters are
\* the same up to the case of ASCII letters: a block finds the library of its
\* name, and neither a prefix nor a character next to the letters passes.
SameIffFolded == res # -1 => (res = 0 <=> Field(AA) = Field(BB))

\* A positive result is the position of the first difference.
FirstDifference ==
  res > 0 => /\ \A k \in 0..(res - 2) : Fold(At(AA, k)) = Fold(At(BB, k))
             /\ Fold(At(AA, res - 1)) # Fold(At(BB, res - 1))

-----------------------------------------------------------------------------
\* The characters before i are equal and none of them ends a string.
Compared ==
  \A k \in 0..(i - 1) : /\ At(AA, k) # 0 /\ At(BB, k) # 0
                       /\ Fold(At(AA, k)) = Fold(At(BB, k))

Inv == TypeOK /\ Compared /\ SameIffFolded /\ FirstDifference

=============================================================================
