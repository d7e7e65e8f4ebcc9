----------------------------- MODULE TrimSpace ------------------------------
(***************************************************************************)
(* trimspace of src/main.c, which loadFile applies to every line it reads: *)
(* the text is cleared from its end, then moved to the front in place.     *)
(* The buffer is loadFile's chartem: zeroed, then filled by fgets with a   *)
(* text shorter than itself, so that num never cuts the text.              *)
(***************************************************************************)
EXTENDS Integers, Sequences

CONSTANTS
  Code,     \* the character codes that occur
  Size      \* bytes of the buffer

ASSUME CodeAssumption == Code \subseteq 1..127
ASSUME SizeAssumption == Size \in Nat \ {0}

Blank == {13, 10, 32}

VARIABLES
  text,        \* the text before the call
  dat,         \* the buffer
  i, j, k,     \* the function's indexes
  pc           \* the loop it is in

vars == <<text, dat, i, j, k, pc>>

Byte == 0..(Size - 1)

\* Character x of the text, 0 behind its end.
At(x) == IF x < Len(text) THEN text[x + 1] ELSE 0

Init ==
  /\ text \in UNION {[1..n -> Code] : n \in 0..(Size - 1)}
  /\ dat = [x \in Byte |-> At(x)]
  /\ i = Len(text) - 1 /\ j = 0 /\ k = 0
  /\ pc = "tail"

\* Clear a blank at the end.
TrimTail ==
  /\ pc = "tail" /\ i >= 0 /\ dat[i] \in Blank
  /\ dat' = [dat EXCEPT ![i] = 0]
  /\ i' = i - 1
  /\ UNCHANGED <<text, j, k, pc>>

\* The end of the text is found; without a leading space that is all.
TailEnd ==
  /\ pc = "tail" /\ ~(i >= 0 /\ dat[i] \in Blank)
  /\ pc' = IF i <= 0 \/ dat[0] # 32 THEN "done" ELSE "skip"
  /\ UNCHANGED <<text, dat, i, j, k>>

\* Look for the first character that is not a space.
Skip ==
  /\ pc = "skip"
  /\ IF dat[j] # 32 THEN pc' = "shift" /\ j' = j
                    ELSE pc' = pc /\ j' = j + 1
  /\ UNCHANGED <<text, dat, i, k>>

\* Mutant: one byte too many is moved.
MoveLong == j <= i + 1
Moving == j <= i

Shift ==
  /\ pc = "shift"
  /\ IF Moving THEN /\ dat' = [dat EXCEPT ![k] = dat[j]]
                    /\ k' = k + 1 /\ j' = j + 1 /\ pc' = pc
               ELSE pc' = "clear" /\ UNCHANGED <<dat, k, j>>
  /\ UNCHANGED <<text, i>>

\* Clear what is left behind the moved text (mutant: one byte is left).
ClearShort == k < i
Clearing == k <= i

Clear ==
  /\ pc = "clear"
  /\ IF Clearing THEN dat' = [dat EXCEPT ![k] = 0] /\ k' = k + 1 /\ pc' = pc
                 ELSE pc' = "done" /\ UNCHANGED <<dat, k>>
  /\ UNCHANGED <<text, i, j>>

Returned == pc = "done" /\ UNCHANGED vars

Next == TrimTail \/ TailEnd \/ Skip \/ Shift \/ Clear \/ Returned

Spec == Init /\ [][Next]_vars

-----------------------------------------------------------------------------
TypeOK ==
  /\ text \in UNION {[1..n -> Code] : n \in 0..(Size - 1)}
  /\ dat \in [Byte -> Code \cup {0}]
  /\ i \in -1..(Size - 2) /\ j \in Byte /\ k \in Byte
  /\ pc \in {"tail", "skip", "shift", "clear", "done"}

\* The stripped text is what is left of text between character f and
\* character l: blanks of all kinds go at the end, only spaces at the front.
Strips(f, l) ==
  /\ \A x \in Byte : x < f => At(x) = 32
  /\ \A x \in Byte : x > l /\ x < Len(text) => At(x) \in Blank
  /\ f <= l => At(f) # 32 /\ At(l) \notin Blank

\* trimspace leaves the text without its trailing blanks and leading spaces,
\* ended by zeros to the end of the buffer: no character of the old text is
\* lost, doubled or left behind it by the move in place.
Trimmed ==
  pc = "done" =>
    \E f \in 0..Size, l \in -1..(Size - 1) :
      /\ Strips(f, l)
      /\ \A x \in Byte : dat[x] = IF f + x <= l THEN At(f + x) ELSE 0

-----------------------------------------------------------------------------
(***************************************************************************)
(* The loop invariant.                                                     *)
(***************************************************************************)
\* From byte n on the buffer is as the first loop left it.
Kept(n) == \A x \in Byte : x >= n => dat[x] = IF x <= i THEN At(x) ELSE 0

\* The bytes before n are as trimspace leaves them if the text starts at f.
Moved(f, n) == \A x \in Byte : x < n => dat[x] = IF f + x <= i THEN At(f + x) ELSE 0

\* The text starts at f.
Found(f) == f \in 0..i /\ At(f) # 32 /\ \A x \in Byte : x < f => At(x) = 32

\* The read index j is never behind the write index k, so the move in place reads
\* what the first loop left.
LoopInv ==
  /\ i < Len(text) /\ \A x \in Byte : x > i /\ x < Len(text) => At(x) \in Blank
  /\ pc \in {"skip", "shift", "clear"} => i >= 0 /\ At(i) \notin Blank
  /\ pc = "tail" => j = 0 /\ k = 0 /\ Kept(0)
  /\ pc = "skip" => k = 0 /\ Kept(0) /\ j <= i /\ \A x \in Byte : x < j => At(x) = 32
  /\ pc = "shift" => Found(j - k) /\ j <= i + 1 /\ Kept(k) /\ Moved(j - k, k)
  /\ pc = "clear" => /\ k <= i + 1 /\ Kept(k)
                     /\ \E f \in 0..i : Found(f) /\ f + k > i /\ Moved(f, k)

Inv == TypeOK /\ LoopInv /\ Trimmed

=============================================================================
