-------------------------- MODULE TrimSpaceProofs ---------------------------
(***************************************************************************)
(* trimspace strips its buffer in place, for buffers of every size.        *)
(***************************************************************************)
EXTENDS TrimSpace, TLAPS

USE SizeAssumption DEF Byte

\* A character of the text is a code below its length and 0 from there on.
LEMMA Characters ==
  ASSUME text \in UNION {[1..n -> Code] : n \in 0..(Size - 1)}
  PROVE  Len(text) \in 0..(Size - 1) /\ \A x \in Nat : At(x) \in Code \cup {0}
<1>1. PICK n \in 0..(Size - 1) : text \in [1..n -> Code]
  OBVIOUS
<1>2. Len(text) = n
  BY <1>1
<1>3. ASSUME NEW x \in Nat PROVE At(x) \in Code \cup {0}
  <2>1. CASE x < n
    <3>1. x + 1 \in 1..n
      BY <2>1
    <3> QED BY <1>1, <1>2, <2>1, <3>1 DEF At
  <2>2. CASE ~(x < n)
    BY <1>2, <2>2 DEF At
  <2> QED BY <2>1, <2>2
<1> QED BY <1>2, <1>3

LEMMA InitInv == Init => Inv
<1> SUFFICES ASSUME Init PROVE Inv
  OBVIOUS
<1>1. /\ text \in UNION {[1..n -> Code] : n \in 0..(Size - 1)} /\ dat = [x \in Byte |-> At(x)]
      /\ i = Len(text) - 1 /\ j = 0 /\ k = 0 /\ pc = "tail"
  BY DEF Init
<1>2. Len(text) \in 0..(Size - 1) /\ \A x \in Nat : At(x) \in Code \cup {0}
  BY <1>1, Characters
<1>3. TypeOK
  BY <1>1, <1>2 DEF TypeOK
<1>4. \A x \in Byte : x > i => At(x) = 0 /\ ~(x < Len(text))
  BY <1>1, <1>2 DEF At
<1>5. Kept(0)
  BY <1>1, <1>4 DEF Kept
<1>6. LoopInv
  BY <1>1, <1>2, <1>4, <1>5 DEF LoopInv
<1> QED BY <1>1, <1>3, <1>6 DEF Inv, Trimmed

\* A step that leaves the text alone leaves its characters alone.
LEMMA SameText ==
  ASSUME text' = text
  PROVE  \A x : At(x)' = At(x)
BY DEF At

\* The first loop: a blank is cut off.
LEMMA TailStep ==
  ASSUME Inv, TrimTail
  PROVE  Inv'
<1>1. /\ TypeOK /\ pc = "tail" /\ i \in Nat /\ i < Len(text) /\ dat[i] \in Blank /\ Kept(0) /\ j = 0 /\ k = 0
      /\ dat' = [dat EXCEPT ![i] = 0] /\ i' = i - 1 /\ UNCHANGED <<text, j, k, pc>>
  BY DEF Inv, LoopInv, TrimTail, TypeOK
<1>2. Len(text) \in 0..(Size - 1) /\ i \in Byte
  BY <1>1, Characters DEF TypeOK
<1>3. TypeOK'
  BY <1>1, <1>2 DEF TypeOK
<1>4. At(i) \in Blank
  BY <1>1, <1>2 DEF Kept
<1>5. /\ dat'[i] = 0 /\ \A x \in Byte : x # i => dat'[x] = dat[x]
  BY <1>1, <1>2 DEF TypeOK
<1>6. Kept(0)'
  BY <1>1, <1>2, <1>5, SameText DEF Kept
<1>7. \A x \in Byte : x > i' /\ x < Len(text) => At(x) \in Blank
  BY <1>1, <1>2, <1>4 DEF Inv, LoopInv
<1>8. LoopInv'
  BY <1>1, <1>2, <1>6, <1>7, SameText DEF LoopInv
<1> QED BY <1>1, <1>3, <1>8 DEF Inv, Trimmed

\* The text behind its last blank is what trimspace returns, if it starts at f.
LEMMA Done ==
  ASSUME Inv, UNCHANGED <<text, dat, i, j, k>>, NEW f \in 0..Size,
         \A x \in Byte : x < f => At(x) = 32,
         f <= i => At(f) # 32 /\ At(i) \notin Blank,
         \A x \in Byte : dat[x] = IF f + x <= i THEN At(f + x) ELSE 0,
         pc' = "done"
  PROVE  Inv'
<1>1. TypeOK /\ i \in -1..(Size - 1)
  BY DEF Inv, TypeOK
<1>2. TypeOK'
  BY <1>1 DEF TypeOK
<1>3. Strips(f, i)
  BY DEF Strips, Inv, LoopInv
<1>4. Strips(f, i)'
  BY <1>3, SameText DEF Strips
<1>5. \A x \in Byte : dat'[x] = IF f + x <= i' THEN At(f + x)' ELSE 0
  BY SameText
<1>6. Trimmed'
  BY <1>1, <1>4, <1>5 DEF Trimmed
<1>7. LoopInv'
  BY SameText DEF Inv, LoopInv
<1> QED BY <1>2, <1>6, <1>7 DEF Inv

\* The end of the first loop.
LEMMA TailEndStep ==
  ASSUME Inv, TailEnd
  PROVE  Inv'
<1>1. /\ TypeOK /\ pc = "tail" /\ ~(i >= 0 /\ dat[i] \in Blank) /\ Kept(0) /\ j = 0 /\ k = 0 /\ i < Len(text)
      /\ UNCHANGED <<text, dat, i, j, k>>
      /\ pc' = IF i <= 0 \/ dat[0] # 32 THEN "done" ELSE "skip"
  BY DEF Inv, LoopInv, TailEnd
<1>2. Len(text) \in 0..(Size - 1) /\ i \in -1..(Size - 2)
  BY <1>1, Characters DEF TypeOK
<1>3. i >= 0 => i \in Byte /\ At(i) \notin Blank
  BY <1>1, <1>2 DEF Kept
<1>4. 0 \in Byte /\ (i >= 0 => dat[0] = At(0))
  BY <1>1, <1>2 DEF Kept
<1>5. CASE i <= 0 \/ dat[0] # 32
  <2>1. i >= 0 => At(0) # 32
    BY <1>2, <1>3, <1>4, <1>5 DEF Blank
  <2>2. \A x \in Byte : dat[x] = IF 0 + x <= i THEN At(0 + x) ELSE 0
    BY <1>1 DEF Kept
  <2> QED BY <1>1, <1>2, <1>3, <1>5, <2>1, <2>2, Done
<1>6. CASE ~(i <= 0 \/ dat[0] # 32)
  <2>1. TypeOK' /\ pc' = "skip" /\ i >= 0
    BY <1>1, <1>2, <1>6 DEF TypeOK
  <2>2. Kept(0)'
    BY <1>1, SameText DEF Kept
  <2>3. LoopInv'
    BY <1>1, <1>2, <1>3, <2>1, <2>2, SameText DEF Inv, LoopInv
  <2> QED BY <2>1, <2>3 DEF Inv, Trimmed
<1> QED BY <1>5, <1>6

\* The second loop: the first character that is not a space.
LEMMA SkipStep ==
  ASSUME Inv, Skip
  PROVE  Inv'
<1>1. /\ TypeOK /\ pc = "skip" /\ i >= 0 /\ At(i) \notin Blank /\ k = 0 /\ Kept(0) /\ j <= i
      /\ (\A x \in Byte : x < j => At(x) = 32) /\ UNCHANGED <<text, dat, i, k>>
      /\ i < Len(text)
  BY DEF Inv, LoopInv, Skip
<1>2. i \in 0..(Size - 2) /\ j \in Byte /\ i \in Byte
  BY <1>1 DEF TypeOK
<1>3. dat[j] = At(j)
  BY <1>1, <1>2 DEF Kept
<1>4. Kept(0)'
  BY <1>1, SameText DEF Kept
<1>5. CASE dat[j] # 32 /\ pc' = "shift" /\ j' = j
  <2>1. TypeOK'
    BY <1>1, <1>5 DEF TypeOK
  <2>2. j' - k' = j
    BY <1>1, <1>2, <1>5
  <2>3. Found(j)
    BY <1>1, <1>2, <1>3, <1>5 DEF Found
  <2>4. Found(j - k)'
    BY <1>1, <2>2, <2>3, SameText DEF Found
  <2>5. Kept(k)' /\ Moved(j - k, k)'
    <3>1. k' = 0 /\ \A x \in Byte : ~(x < 0)
      BY <1>1, SizeAssumption DEF Byte
    <3>2. Kept(k)'
      BY <1>4, <3>1 DEF Kept
    <3>3. Moved(j - k, k)'
      BY <3>1 DEF Moved
    <3> QED BY <3>2, <3>3
  <2>6. LoopInv'
    BY <1>1, <1>2, <1>5, <2>4, <2>5, SameText DEF Inv, LoopInv
  <2> QED BY <1>5, <2>1, <2>6 DEF Inv, Trimmed
<1>6. CASE dat[j] = 32 /\ pc' = pc /\ j' = j + 1
  <2>1. j # i
    BY <1>1, <1>3, <1>6 DEF Blank
  <2>2. j' <= i /\ j' \in Byte
    BY <1>1, <1>2, <1>6, <2>1
  <2>3. TypeOK'
    BY <1>1, <1>6, <2>2 DEF TypeOK
  <2>4. \A x \in Byte : x < j' => At(x) = 32
    <3>1. At(j) = 32
      BY <1>3, <1>6
    <3>2. \A x \in Byte : x < j' => x < j \/ x = j
      BY <1>2, <1>6
    <3> HIDE DEF Byte
    <3> QED BY <1>1, <3>1, <3>2
  <2>5. LoopInv'
    BY <1>1, <1>4, <1>6, <2>2, <2>4, SameText DEF Inv, LoopInv
  <2> QED BY <1>1, <1>6, <2>3, <2>5 DEF Inv, Trimmed
<1> QED BY <1>5, <1>6 DEF Skip

\* The third loop: the text is moved to the front.
LEMMA ShiftStep ==
  ASSUME Inv, Shift
  PROVE  Inv'
<1> DEFINE f == j - k
<1>1. /\ TypeOK /\ pc = "shift" /\ i >= 0 /\ At(i) \notin Blank /\ Found(f) /\ j <= i + 1 /\ Kept(k)
      /\ Moved(f, k) /\ i < Len(text) /\ UNCHANGED <<text, i>>
  BY DEF Inv, LoopInv, Shift
<1>2. i \in 0..(Size - 2) /\ j \in Byte /\ k \in Byte /\ f \in 0..i
  BY <1>1 DEF TypeOK, Found
<1>3. CASE Moving /\ dat' = [dat EXCEPT ![k] = dat[j]] /\ k' = k + 1 /\ j' = j + 1 /\ pc' = pc
  <2>1. j <= i /\ k <= j /\ j' - k' = f /\ f + k = j
    BY <1>2, <1>3 DEF Moving
  <2>2. dat[j] = At(j)
    BY <1>1, <1>2, <2>1 DEF Kept
  <2>3. j' \in Byte /\ k' \in Byte /\ j' <= i + 1
    BY <1>2, <1>3, <2>1
  <2>4. TypeOK'
    BY <1>1, <1>2, <1>3, <2>3 DEF TypeOK
  <2>5. dat'[k] = At(j) /\ \A x \in Byte : x # k => dat'[x] = dat[x]
    BY <1>1, <1>2, <1>3, <2>2 DEF TypeOK
  <2>6. Found(j - k)'
    BY <1>1, <2>1, SameText DEF Found
  <2>7. Kept(k)'
    BY <1>1, <1>2, <1>3, <2>5, SameText DEF Kept
  <2>8. \A x \in Byte : x < k + 1 => dat'[x] = IF f + x <= i THEN At(f + x) ELSE 0
    BY <1>1, <1>2, <2>1, <2>5 DEF Moved
  <2>9. Moved(j - k, k)'
    BY <1>1, <1>3, <2>1, <2>8, SameText DEF Moved
  <2>10. LoopInv'
    BY <1>1, <1>3, <2>3, <2>6, <2>7, <2>9, SameText DEF Inv, LoopInv
  <2> QED BY <1>1, <1>3, <2>4, <2>10 DEF Inv, Trimmed
<1>4. CASE ~Moving /\ pc' = "clear" /\ UNCHANGED <<dat, k, j>>
  <2>1. TypeOK'
    BY <1>1, <1>4 DEF TypeOK
  <2>2. f + k > i /\ k <= i + 1
    BY <1>1, <1>2, <1>4 DEF Moving
  <2>3. Kept(k)'
    BY <1>1, <1>4, SameText DEF Kept
  <2>4. Found(f)' /\ Moved(f, k)'
    BY <1>1, <1>4, SameText DEF Found, Moved
  <2>5. LoopInv'
    BY <1>1, <1>2, <1>4, <2>2, <2>3, <2>4, SameText DEF Inv, LoopInv
  <2> QED BY <1>4, <2>1, <2>5 DEF Inv, Trimmed
<1> QED BY <1>3, <1>4 DEF Shift

\* The fourth loop: what the move has left behind is cleared.
LEMMA ClearStep ==
  ASSUME Inv, Clear
  PROVE  Inv'
<1>1. /\ TypeOK /\ pc = "clear" /\ i >= 0 /\ At(i) \notin Blank /\ k <= i + 1 /\ Kept(k)
      /\ i < Len(text) /\ UNCHANGED <<text, i, j>>
  BY DEF Inv, LoopInv, Clear
<1>2. PICK f \in 0..i : Found(f) /\ f + k > i /\ Moved(f, k)
  BY <1>1 DEF Inv, LoopInv
<1>3. i \in 0..(Size - 2) /\ k \in Byte
  BY <1>1 DEF TypeOK
<1>4. CASE Clearing /\ dat' = [dat EXCEPT ![k] = 0] /\ k' = k + 1 /\ pc' = pc
  <2>1. k <= i /\ k' \in Byte /\ k' <= i + 1 /\ f + k' > i
    BY <1>2, <1>3, <1>4 DEF Clearing
  <2>2. dat'[k] = 0 /\ \A x \in Byte : x # k => dat'[x] = dat[x]
    BY <1>1, <1>3, <1>4 DEF TypeOK
  <2>3. TypeOK'
    BY <1>1, <1>3, <1>4, <2>1 DEF TypeOK
  <2>4. Kept(k)'
    BY <1>1, <1>3, <1>4, <2>2, SameText DEF Kept
  <2>5. \A x \in Byte : x < k + 1 => dat'[x] = IF f + x <= i THEN At(f + x) ELSE 0
    BY <1>2, <1>3, <2>2 DEF Moved
  <2>6. Found(f)' /\ Moved(f, k)'
    BY <1>1, <1>2, <1>4, <2>5, SameText DEF Found, Moved
  <2>7. LoopInv'
    BY <1>1, <1>4, <2>1, <2>4, <2>6, SameText DEF Inv, LoopInv
  <2> QED BY <1>1, <1>4, <2>3, <2>7 DEF Inv, Trimmed
<1>5. CASE ~Clearing /\ pc' = "done" /\ UNCHANGED <<dat, k>>
  <2>1. k = i + 1
    BY <1>1, <1>3, <1>5 DEF Clearing
  <2>2. \A x \in Byte : dat[x] = IF f + x <= i THEN At(f + x) ELSE 0
    BY <1>1, <1>2, <1>3, <2>1 DEF Kept, Moved
  <2>3. f \in 0..Size
    BY <1>2, <1>3
  <2> QED BY <1>1, <1>2, <1>5, <2>2, <2>3, Done DEF Found
<1> QED BY <1>4, <1>5 DEF Clear

LEMMA StepInv == Inv /\ [Next]_vars => Inv'
<1> SUFFICES ASSUME Inv, [Next]_vars PROVE Inv'
  OBVIOUS
<1>1. CASE UNCHANGED vars
  BY <1>1 DEF vars, Inv, TypeOK, LoopInv, Trimmed, Strips, Kept, Moved, Found, At
<1> QED BY <1>1, TailStep, TailEndStep, SkipStep, ShiftStep, ClearStep DEF Next, Returned

\* The invariant of trimspace's four loops, for buffers of every size: at each of
\* their iterations the bytes before the write index are those of the result and
\* those from it on are still the ones the first loop left.
THEOREM TrimInvariant == Spec => []Inv
BY InitInv, StepInv, PTL DEF Spec

\* trimspace reads and writes inside its buffer, whatever the text.
THEOREM StaysInBuffer == Spec => []TypeOK
<1>1. Inv => TypeOK
  BY DEF Inv
<1> QED BY TrimInvariant, <1>1, PTL

\* For buffers of every size and every text, trimspace leaves the text without its
\* trailing blanks and leading spaces, ended by zeros.
THEOREM Strip == Spec => []Trimmed
<1>1. Inv => Trimmed
  BY DEF Inv
<1> QED BY TrimInvariant, <1>1, PTL

=============================================================================
