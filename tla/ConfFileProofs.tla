--------------------------- MODULE ConfFileProofs ---------------------------
(***************************************************************************)
(* loadFile, readFile and freeFiledate for files of every length: the      *)
(* buffer is never overrun, the blocks made are those of the file, at      *)
(* least one, and each structure is freed once.                            *)
(***************************************************************************)
EXTENDS ConfFileProps, SequenceTheorems, TLAPS

\* Storing a string of length n leaves the byte behind it inside the buffer.
LEMMA StoreFits ==
  ASSUME NEW e, NEW n \in 0..(Block - 2), Store(e, n),
         wherenow \in Nat, maxsize \in Nat, wherenow < maxsize
  PROVE  /\ wherenow' \in Nat /\ maxsize' \in Nat
         /\ pc' = pc => wherenow' < maxsize'
         /\ pc' \in {pc, "null"}
         /\ \/ head' = Append(head, e)
            \/ head' = head /\ wherenow' = wherenow /\ pc' = "null"
BY BlockAssumption DEF Store, NoRoom

LEMMA AppendFirst ==
  ASSUME NEW S, NEW s \in Seq(S), NEW e \in S
  PROVE  /\ Append(s, e) \in Seq(S) /\ Append(s, e) # << >>
         /\ s # << >> => Append(s, e)[1] = s[1]
         /\ s = << >> => Append(s, e)[1] = e
OBVIOUS

\* A function on the domain of a sequence is a sequence of the same length.
LEMMA SameDomain ==
  ASSUME NEW S, NEW s \in Seq(S)
  PROVE  /\ s \in [1..Len(s) -> S]
         /\ \A t \in [1..Len(s) -> S] : t \in Seq(S) /\ Len(t) = Len(s)
<1>1. s \in [1..Len(s) -> S] /\ Len(s) \in Nat
  OBVIOUS
<1>2. ASSUME NEW t \in [1..Len(s) -> S] PROVE t \in Seq(S) /\ Len(t) = Len(s)
  BY <1>1
<1> QED BY <1>1, <1>2

LEMMA InitConf == Init => ConfInv
<1> SUFFICES ASSUME Init PROVE ConfInv
  OBVIOUS
<1>1. PICK n \in 0..MaxLines : file \in [1..n -> Line]
  BY DEF Init
<1>2. file \in Seq(Line) /\ Len(file) \in Nat
  BY <1>1, MaxLinesAssumption
<1>3. BytesInv
  BY <1>2 DEF Init, BytesInv
<1>4. HeadInv
  BY DEF Init, HeadInv
<1>5. BlockInv
  BY DEF Init, BlockInv
<1> QED BY <1>3, <1>4, <1>5 DEF ConfInv

\* What a step of loadFile that stores entry e of length n does.
LEMMA StoreStep ==
  ASSUME ConfInv, pc = "fgets", NEW e \in Line \cup {Separator}, NEW n \in 0..(Block - 2),
         Store(e, n), e = Separator => iswrite,
         UNCHANGED fileVars, UNCHANGED readVars, pos' \in 0..Len(file),
         iswrite' \in BOOLEAN, iswrite' => e # Separator
  PROVE  ConfInv'
<1>1. /\ wherenow' \in Nat /\ maxsize' \in Nat
      /\ pc' = pc => wherenow' < maxsize'
      /\ pc' \in {pc, "null"}
      /\ \/ head' = Append(head, e)
         \/ head' = head /\ wherenow' = wherenow /\ pc' = "null"
  BY StoreFits DEF ConfInv, BytesInv
<1>2. UNCHANGED <<file, at, isnest, filehead, onehead>>
  BY DEF fileVars, readVars
<1>3. BytesInv'
  BY <1>1, <1>2 DEF ConfInv, BytesInv
<1>4. HeadInv'
  <2>1. head \in Seq(Line \cup {Separator}) /\ (iswrite => head # << >>)
        /\ (head # << >> => head[1] # Separator) /\ (wherenow # 0 => head # << >>)
    BY DEF ConfInv, HeadInv
  <2>2. CASE head' = Append(head, e)
    <3>1. head' \in Seq(Line \cup {Separator}) /\ head' # << >> /\ head'[1] # Separator
      BY <2>1, <2>2, AppendFirst
    <3> QED BY <1>1, <3>1 DEF HeadInv
  <2>3. CASE head' = head /\ wherenow' = wherenow /\ pc' = "null"
    BY <2>1, <2>3 DEF HeadInv
  <2> QED BY <1>1, <2>2, <2>3
<1>5. BlockInv'
  BY <1>1, <1>2 DEF ConfInv, BlockInv
<1> QED BY <1>3, <1>4, <1>5 DEF ConfInv

-----------------------------------------------------------------------------
(***************************************************************************)
(* Every step preserves ConfInv.                                           *)
(***************************************************************************)
\* The line loadFile reads next.
LEMMA NextLine ==
  ASSUME ConfInv, pos < Len(file)
  PROVE  file[pos + 1] \in Line /\ pos + 1 \in 0..Len(file)
BY DEF ConfInv, BytesInv

LEMMA LoadKeeps == ConfInv /\ LoadStep => ConfInv'
<1> SUFFICES ASSUME ConfInv, LoadStep PROVE ConfInv'
  OBVIOUS
<1>1. CASE Open
  <2>1. BytesInv'
    BY <1>1, BlockAssumption DEF ConfInv, BytesInv, BlockInv, HeadInv, Open, fileVars, readVars
  <2>2. HeadInv'
    BY <1>1 DEF ConfInv, HeadInv, Open
  <2>3. BlockInv'
    BY <1>1 DEF ConfInv, BlockInv, Open, readVars
  <2> QED BY <2>1, <2>2, <2>3 DEF ConfInv
<1>2. CASE SkipLine
  <2>1. BytesInv'
    BY <1>2, NextLine DEF ConfInv, BytesInv, SkipLine, fileVars
  <2>2. HeadInv'
    BY <1>2 DEF ConfInv, HeadInv, SkipLine
  <2>3. BlockInv'
    BY <1>2 DEF ConfInv, BlockInv, SkipLine, readVars
  <2> QED BY <2>1, <2>2, <2>3 DEF ConfInv
<1>3. CASE StoreBlank
  <2>1. 1 \in 0..(Block - 2)
    BY BlockAssumption
  <2>2. /\ pc = "fgets" /\ iswrite /\ iswrite' = FALSE /\ pos' \in 0..Len(file)
        /\ Store(Separator, 1) /\ UNCHANGED fileVars /\ UNCHANGED readVars
    BY <1>3, NextLine DEF StoreBlank, fileVars
  <2> QED BY <2>1, <2>2, StoreStep
<1>4. CASE StoreLine
  <2> DEFINE l == file[pos + 1]
  <2>1. l \in Line /\ LenOf[l] \in 0..(Block - 2) /\ l # Separator
    BY <1>4, NextLine, LineAssumption, SeparatorAssumption DEF StoreLine
  <2>2. /\ pc = "fgets" /\ iswrite' = TRUE /\ pos' \in 0..Len(file)
        /\ Store(l, LenOf[l]) /\ UNCHANGED fileVars /\ UNCHANGED readVars
    BY <1>4, NextLine DEF StoreLine, fileVars
  <2> HIDE DEF l
  <2> QED BY <2>1, <2>2, StoreStep
<1>5. CASE ReadFails
  <2>1. CASE iswrite
    <3>1. 1 \in 0..(Block - 2)
      BY BlockAssumption
    <3>2. /\ pc = "fgets" /\ iswrite' = FALSE /\ pos' \in 0..Len(file)
          /\ Store(Separator, 1) /\ UNCHANGED fileVars /\ UNCHANGED readVars
      BY <1>5, <2>1 DEF ReadFails, ConfInv, BytesInv
    <3> QED BY <2>1, <3>1, <3>2, StoreStep
  <2>2. CASE ~iswrite
    <3>1. BytesInv'
      BY <1>5, <2>2 DEF ConfInv, BytesInv, ReadFails, fileVars
    <3>2. HeadInv'
      BY <1>5, <2>2 DEF ConfInv, HeadInv, ReadFails
    <3>3. BlockInv'
      BY <1>5, <2>2 DEF ConfInv, BlockInv, ReadFails, readVars
    <3> QED BY <3>1, <3>2, <3>3 DEF ConfInv
  <2> QED BY <2>1, <2>2
<1>6. CASE Eof
  <2>1. BytesInv'
    BY <1>6 DEF ConfInv, BytesInv, Eof, fileVars, loadVars
  <2>2. HeadInv'
    BY <1>6 DEF ConfInv, HeadInv, Eof, loadVars
  <2>3. BlockInv'
    BY <1>6 DEF ConfInv, BlockInv, HeadInv, Eof, HasText, loadVars, readVars
  <2> QED BY <2>1, <2>2, <2>3 DEF ConfInv
<1> QED BY <1>1, <1>2, <1>3, <1>4, <1>5, <1>6 DEF LoadStep

\* Hanging the pairs on the last block changes nothing else in the list.
LEMMA SetDateKeeps ==
  ASSUME filehead \in Seq([name : Nat, date : Seq(Nat)]), onehead \in Seq(Nat)
  PROVE  /\ SetDate \in Seq([name : Nat, date : Seq(Nat)])
         /\ filehead # << >> => SetDate # << >>
         /\ Len(SetDate) = Len(filehead) /\ DOMAIN SetDate = DOMAIN filehead
         /\ \A x \in DOMAIN filehead :
              /\ SetDate[x].name = filehead[x].name
              /\ SetDate[x].date = IF x = Len(filehead) THEN onehead ELSE filehead[x].date
<1> DEFINE B == [name : Nat, date : Seq(Nat)]
<1>0. filehead \in [1..Len(filehead) -> B]
  BY SameDomain
<1>1. /\ DOMAIN SetDate = 1..Len(filehead)
      /\ \A x \in 1..Len(filehead) :
           SetDate[x] = IF x = Len(filehead) THEN [filehead[x] EXCEPT !.date = onehead]
                                             ELSE filehead[x]
  BY <1>0 DEF SetDate
<1>2. SetDate = [x \in 1..Len(filehead) |-> SetDate[x]]
  BY <1>0 DEF SetDate
<1>3. \A b \in B : /\ [b EXCEPT !.date = onehead] \in B
                   /\ [b EXCEPT !.date = onehead].name = b.name
                   /\ [b EXCEPT !.date = onehead].date = onehead
  OBVIOUS
<1> HIDE DEF B
<1>4. \A x \in 1..Len(filehead) : SetDate[x] \in B
  BY <1>0, <1>1, <1>3
<1>5. SetDate \in [1..Len(filehead) -> B]
  BY <1>2, <1>4
<1>6. SetDate \in Seq(B) /\ Len(SetDate) = Len(filehead)
  BY <1>5, SameDomain DEF B
<1>7. filehead # << >> => SetDate # << >>
  BY <1>6 DEF B
<1>8. \A x \in 1..Len(filehead) :
        /\ SetDate[x].name = filehead[x].name
        /\ SetDate[x].date = IF x = Len(filehead) THEN onehead ELSE filehead[x].date
  <2> TAKE x \in 1..Len(filehead)
  <2>1. filehead[x] \in B
    BY <1>0
  <2>2. CASE x = Len(filehead)
    <3>1. SetDate[x] = [filehead[x] EXCEPT !.date = onehead]
      BY <1>1, <2>2
    <3> QED BY <1>3, <2>1, <2>2, <3>1
  <2>3. CASE x # Len(filehead)
    BY <1>1, <2>3
  <2> QED BY <2>2, <2>3
<1>9. DOMAIN filehead = 1..Len(filehead)
  BY <1>0
<1> QED BY <1>1, <1>6, <1>7, <1>8, <1>9 DEF B

\* The steps of readFile leave what loadFile has made alone.
LEMMA ReadKeepsLoad ==
  ASSUME ConfInv, UNCHANGED fileVars, UNCHANGED loadVars,
         pc' \in {"read", "bad", "ok", "freed"}, pc \in {"read", "ok"},
         pc' = "read" => pc = "read"
  PROVE  BytesInv' /\ HeadInv'
<1>1. BytesInv'
  BY DEF ConfInv, BytesInv, fileVars, loadVars
<1>2. HeadInv'
  BY DEF ConfInv, HeadInv, loadVars
<1> QED BY <1>1, <1>2

LEMMA ReadKeeps == ConfInv /\ (ReadStep \/ FreeFiledate) => ConfInv'
<1> SUFFICES ASSUME ConfInv, ReadStep \/ FreeFiledate PROVE ConfInv'
  OBVIOUS
<1> DEFINE B == [name : Nat, date : Seq(Nat)]
<1>a. /\ at \in Nat /\ filehead \in Seq(B) /\ onehead \in Seq(Nat)
      /\ head \in Seq(Line \cup {Separator})
      /\ head # << >> => head[1] # Separator
  BY DEF ConfInv, BlockInv, HeadInv
<1>1. CASE ReadSeparator
  <2>1. at # 0
    BY <1>1, <1>a DEF ReadSeparator
  <2>2. filehead # << >>
    BY <1>1, <2>1 DEF ReadSeparator, ConfInv, BlockInv
  <2>3. BlockInv'
    BY <1>1, <1>a, <2>2, SetDateKeeps
    DEF ReadSeparator, ConfInv, BlockInv, NextAt, loadVars
  <2> QED BY <1>1, <2>3, ReadKeepsLoad DEF ReadSeparator, ConfInv
<1>2. CASE ReadName
  <2>2. [name |-> at + 1, date |-> << >>] \in B
    BY <1>a
  <2>3. filehead' \in Seq(B) /\ filehead' # << >>
    <3>1. filehead' = Append(filehead, [name |-> at + 1, date |-> << >>])
      BY <1>2 DEF ReadName
    <3> HIDE DEF B
    <3> QED BY <1>a, <2>2, <3>1, AppendFirst
  <2>4. BlockInv'
    BY <1>2, <1>a, <2>3 DEF ReadName, ConfInv, BlockInv, loadVars
  <2> QED BY <1>2, <2>4, ReadKeepsLoad DEF ReadName, ConfInv
<1>3. CASE ReadPair
  <2>2. onehead' \in Seq(Nat)
    BY <1>3, <1>a, AppendFirst DEF ReadPair
  <2>3. BlockInv'
    BY <1>3, <1>a, <2>2 DEF ReadPair, ConfInv, BlockInv, loadVars
  <2> QED BY <1>3, <2>3, ReadKeepsLoad DEF ReadPair, ConfInv
<1>4. CASE ReadBad
  <2>1. BlockInv'
    BY <1>4, <1>a DEF ReadBad, ConfInv, BlockInv, loadVars
  <2> QED BY <1>4, <2>1, ReadKeepsLoad DEF ReadBad, ConfInv
<1>5. CASE ReadEnd
  <2>1. at # 0
    BY <1>5, <1>a DEF ReadEnd, ConfInv, BlockInv
  <2>2. filehead # << >>
    BY <1>5, <2>1 DEF ReadEnd, ConfInv, BlockInv
  <2>3. BlockInv'
    BY <1>5, <1>a, <2>2, SetDateKeeps DEF ReadEnd, ConfInv, BlockInv, loadVars
  <2> QED BY <1>5, <2>3, ReadKeepsLoad DEF ReadEnd, ConfInv
<1>6. CASE FreeFiledate
  <2>1. BlockInv'
    BY <1>6, <1>a DEF FreeFiledate, ConfInv, BlockInv, loadVars
  <2> QED BY <1>6, <2>1, ReadKeepsLoad DEF FreeFiledate, ConfInv
<1> QED BY <1>1, <1>2, <1>3, <1>4, <1>5, <1>6 DEF ReadStep

LEMMA StutterKeeps == ConfInv /\ UNCHANGED vars => ConfInv'
<1> SUFFICES ASSUME ConfInv, UNCHANGED vars PROVE ConfInv'
  OBVIOUS
<1>1. BytesInv'
  BY DEF vars, fileVars, loadVars, ConfInv, BytesInv
<1>2. HeadInv'
  BY DEF vars, loadVars, ConfInv, HeadInv
<1>3. BlockInv'
  BY DEF vars, loadVars, readVars, ConfInv, BlockInv
<1> QED BY <1>1, <1>2, <1>3 DEF ConfInv

LEMMA ConfAlways == Spec => []ConfInv
<1>1. ConfInv /\ [Next]_vars => ConfInv'
  BY LoadKeeps, ReadKeeps, StutterKeeps DEF Next, Returned
<1> QED BY InitConf, <1>1, PTL DEF Spec

-----------------------------------------------------------------------------
(***************************************************************************)
(* The structures readFile allocates.                                      *)
(***************************************************************************)
LEMMA AppendSet ==
  ASSUME NEW S, NEW s \in Seq(S), NEW e \in S
  PROVE  /\ Len(Append(s, e)) = Len(s) + 1 /\ Len(s) \in Nat
         /\ DOMAIN s = 1..Len(s) /\ DOMAIN Append(s, e) = 1..(Len(s) + 1)
         /\ Append(s, e)[Len(s) + 1] = e /\ \A n \in DOMAIN s : Append(s, e)[n] = s[n]
         /\ \A x : x \in ToSet(Append(s, e)) <=> x \in ToSet(s) \/ x = e
<1>1. /\ Append(s, e) \in Seq(S) /\ Len(Append(s, e)) = Len(s) + 1
      /\ Append(s, e)[Len(s) + 1] = e
      /\ \A n \in 1..Len(s) : Append(s, e)[n] = s[n]
  BY AppendProperties
<1>2. DOMAIN s = 1..Len(s) /\ DOMAIN Append(s, e) = 1..(Len(s) + 1) /\ Len(s) \in Nat
  BY <1>1, LenProperties
<1>3. /\ \A n \in DOMAIN Append(s, e) : n \in DOMAIN s \/ n = Len(s) + 1
      /\ Len(s) + 1 \in DOMAIN Append(s, e) /\ \A n \in DOMAIN s : n \in DOMAIN Append(s, e)
  BY <1>2
<1>4. \A x : x \in ToSet(Append(s, e)) <=> x \in ToSet(s) \/ x = e
  BY <1>1, <1>2, <1>3 DEF ToSet
<1> QED BY <1>1, <1>2, <1>4

LEMMA EmptySet == (\A x : x \notin ToSet(<< >>)) /\ \A x : x \notin Structures(<< >>)
BY DEF ToSet, Structures

\* What is hung on the blocks and what will be, block by block.
LEMMA HeldAll ==
  ASSUME NEW S, filehead \in Seq(S), filehead # << >>
  PROVE  \A x : x \in Structures(filehead) \/ x \in ToSet(onehead)
                  <=> \E n \in DOMAIN filehead : x \in Held(n)
<1>1. Len(filehead) \in DOMAIN filehead
  BY EmptySeq, LenProperties
<1>2. \A x : x \in Structures(filehead) <=> \E n \in DOMAIN filehead : x \in Freed(filehead[n])
  BY DEF Structures
<1>3. \A x, n : x \in Held(n) <=> x \in Freed(filehead[n]) \/ (n = Len(filehead) /\ x \in ToSet(onehead))
  BY DEF Held
<1> QED BY <1>1, <1>2, <1>3

\* SetDate hangs on each block what it holds.
LEMMA SetDateHangs ==
  ASSUME ConfInv, HangInv, pc = "read", filehead # << >>
  PROVE  \A n \in DOMAIN filehead : Freed(SetDate[n]) = Held(n)
<1>1. /\ filehead \in Seq([name : Nat, date : Seq(Nat)]) /\ onehead \in Seq(Nat)
      /\ filehead[Len(filehead)].date \in {onehead, << >>}
  BY DEF ConfInv, BlockInv, HangInv
<1> TAKE n \in DOMAIN filehead
<1>2. /\ SetDate[n].name = filehead[n].name
      /\ SetDate[n].date = IF n = Len(filehead) THEN onehead ELSE filehead[n].date
  BY <1>1, SetDateKeeps
<1>3. CASE n = Len(filehead)
  <2>1. \A x : x \in ToSet(filehead[n].date) => x \in ToSet(onehead)
    BY <1>1, <1>3, EmptySet
  <2> QED BY <1>2, <1>3, <2>1 DEF Freed, Held
<1>4. CASE n # Len(filehead)
  BY <1>2, <1>4 DEF Freed, Held
<1> QED BY <1>3, <1>4

LEMMA LoadHangs == ConfInv /\ HangInv /\ LoadStep => HangInv'
<1> SUFFICES ASSUME ConfInv, HangInv, LoadStep PROVE HangInv'
  OBVIOUS
<1>1. /\ pc \in {"open", "fgets"} /\ pc' \in {"fgets", "null", "read"}
      /\ UNCHANGED <<at, isnest, filehead, onehead, allocated>>
  BY DEF LoadStep, Open, SkipLine, StoreBlank, StoreLine, ReadFails, Eof, Store, readVars
<1>2. allocated = {} /\ filehead = << >> /\ onehead = << >>
  BY <1>1 DEF HangInv
<1>3. allocated' = Structures(filehead') \cup ToSet(onehead')
  BY <1>1, <1>2, EmptySet
<1>4. FreedAll' /\ HungOnce'
  BY <1>1 DEF FreedAll, HungOnce
<1>5. filehead' = << >> /\ onehead' = << >> /\ allocated' = {} /\ DOMAIN filehead' = {}
  BY <1>1, <1>2
<1> QED BY <1>1, <1>3, <1>4, <1>5 DEF HangInv

\* While readFile reads there is a block unless it has read nothing.
LEMMA Reading ==
  ASSUME ConfInv, HangInv, pc = "read"
  PROVE  /\ filehead \in Seq([name : Nat, date : Seq(Nat)]) /\ onehead \in Seq(Nat) /\ at \in Nat
         /\ \A x : x \in allocated <=> x \in Structures(filehead) \/ x \in ToSet(onehead)
         /\ (filehead = << >> => at = 0 /\ isnest) /\ at + 1 \notin allocated
         /\ at + 1 \in Nat /\ allocated \cup {at + 1} \subseteq 1..(at + 1)
         /\ head # << >> /\ head[1] # Separator
<1>1. at \in Nat /\ allocated \subseteq 1..at
  BY DEF ConfInv, BlockInv, HangInv
<1>2. at + 1 \notin allocated /\ at + 1 \in Nat /\ allocated \cup {at + 1} \subseteq 1..(at + 1)
  BY <1>1
<1>3. \A x : x \in allocated <=> x \in Structures(filehead) \/ x \in ToSet(onehead)
  BY DEF HangInv
<1> QED BY <1>2, <1>3 DEF ConfInv, BlockInv, HeadInv

LEMMA SeparatorHangs == ConfInv /\ HangInv /\ ReadSeparator => HangInv'
<1> SUFFICES ASSUME ConfInv, HangInv, ReadSeparator PROVE HangInv'
  OBVIOUS
<1>1. /\ pc = "read" /\ pc' = "read" /\ head[at + 1] = Separator /\ filehead' = SetDate
      /\ isnest' = TRUE /\ at' = at + 1 /\ UNCHANGED <<onehead, allocated>>
  BY DEF ReadSeparator, NextAt
<1>2. filehead # << >>
  BY <1>1, Reading
<1>3. /\ DOMAIN filehead' = DOMAIN filehead /\ Len(filehead') = Len(filehead) /\ filehead' # << >>
      /\ \A n \in DOMAIN filehead : n = Len(filehead) => filehead'[n].date = onehead
  BY <1>1, <1>2, Reading, SetDateKeeps
<1>4. \A n \in DOMAIN filehead : Freed(filehead'[n]) = Held(n)
  BY <1>1, <1>2, SetDateHangs
<1>5. \A n \in DOMAIN filehead : Held(n)' = Held(n)
  BY <1>1, <1>3, <1>4 DEF Held, Freed
<1>6. allocated' = Structures(filehead') \cup ToSet(onehead')
  <2>1. \A x : x \in Structures(filehead') <=> \E n \in DOMAIN filehead : x \in Held(n)
    BY <1>3, <1>4 DEF Structures
  <2>2. \A x : x \in allocated <=> \E n \in DOMAIN filehead : x \in Held(n)
    BY <1>1, <1>2, Reading, HeldAll
  <2>3. \A x : x \in ToSet(onehead) => x \in allocated
    BY <1>1, Reading
  <2> QED BY <1>1, <2>1, <2>2, <2>3
<1>7. Len(filehead) \in DOMAIN filehead
  BY <1>1, <1>2, Reading, EmptySeq, LenProperties
<1>8. filehead'[Len(filehead')].date = onehead'
  BY <1>1, <1>3, <1>7
<1>9. \A m, n \in DOMAIN filehead' : m # n => Held(m)' \cap Held(n)' = {}
  BY <1>1, <1>3, <1>5 DEF HangInv
<1>10. allocated' \subseteq 1..at'
  BY <1>1, Reading
<1>11. FreedAll' /\ HungOnce'
  BY <1>1 DEF FreedAll, HungOnce
<1> QED BY <1>1, <1>3, <1>6, <1>8, <1>9, <1>10, <1>11 DEF HangInv

LEMMA NameHangs == ConfInv /\ HangInv /\ ReadName => HangInv'
<1> SUFFICES ASSUME ConfInv, HangInv, ReadName PROVE HangInv'
  OBVIOUS
<1> DEFINE b == [name |-> at + 1, date |-> << >>]
<1>1. /\ pc = "read" /\ pc' = "read" /\ isnest /\ isnest' = FALSE /\ filehead' = Append(filehead, b)
      /\ onehead' = << >> /\ at' = at + 1 /\ allocated' = allocated \cup {at + 1}
  BY DEF ReadName
<1>2. b \in [name : Nat, date : Seq(Nat)]
  BY <1>1, Reading
<1>3. b.date = << >> /\ \A x : x \in Freed(b) <=> x = at + 1
  BY EmptySet DEF Freed
<1> HIDE DEF b
<1>4. /\ Len(filehead') = Len(filehead) + 1 /\ Len(filehead) \in Nat
      /\ DOMAIN filehead = 1..Len(filehead) /\ DOMAIN filehead' = 1..(Len(filehead) + 1)
      /\ filehead'[Len(filehead) + 1] = b /\ \A n \in DOMAIN filehead : filehead'[n] = filehead[n]
  BY <1>1, <1>2, Reading, AppendSet
<1>5. /\ \A n \in DOMAIN filehead' : n \in DOMAIN filehead \/ n = Len(filehead')
      /\ Len(filehead') \in DOMAIN filehead' /\ \A n \in DOMAIN filehead : n \in DOMAIN filehead'
      /\ \A n \in DOMAIN filehead : n # Len(filehead')
  BY <1>4
<1>6. \A x : x \in ToSet(onehead) => x \in Structures(filehead)
  <2>1. CASE filehead = << >>
    BY <1>1, <2>1, EmptySet DEF HangInv
  <2>2. CASE filehead # << >>
    <3>1. filehead[Len(filehead)].date = onehead
      BY <1>1, <2>2 DEF HangInv
    <3>2. Len(filehead) \in DOMAIN filehead
      BY <1>1, <2>2, Reading, EmptySeq, LenProperties
    <3> QED BY <3>1, <3>2 DEF Structures, Freed
  <2> QED BY <2>1, <2>2
<1>7. \A x : x \in Structures(filehead') <=> x \in Structures(filehead) \/ x = at + 1
  <2>1. \A x : x \in Structures(filehead') <=> \E n \in DOMAIN filehead' : x \in Freed(filehead'[n])
    BY DEF Structures
  <2>2. \A x : x \in Structures(filehead) <=> \E n \in DOMAIN filehead : x \in Freed(filehead[n])
    BY DEF Structures
  <2> QED BY <1>3, <1>4, <1>5, <2>1, <2>2
<1>8. allocated' = Structures(filehead') \cup ToSet(onehead')
  BY <1>1, <1>6, <1>7, Reading, EmptySet
<1>9. filehead' # << >> /\ filehead'[Len(filehead')].date = << >>
  BY <1>3, <1>4
<1>10. \A n \in DOMAIN filehead' : Held(n)' = Freed(filehead'[n])
  BY <1>1, EmptySet DEF Held, Freed
<1>11. ASSUME NEW n \in DOMAIN filehead PROVE at + 1 \notin Freed(filehead[n])
  BY <1>1, <1>11, Reading DEF Structures
<1>12. \A m, n \in DOMAIN filehead : m # n => Freed(filehead[m]) \cap Freed(filehead[n]) = {}
  BY <1>1 DEF HangInv, Held
<1>13. ASSUME NEW m \in DOMAIN filehead', NEW n \in DOMAIN filehead', m # n
       PROVE  Held(m)' \cap Held(n)' = {}
  <2>1. CASE m \in DOMAIN filehead /\ n \in DOMAIN filehead
    BY <1>4, <1>10, <1>12, <1>13, <2>1
  <2>2. CASE m \in DOMAIN filehead /\ n = Len(filehead')
    BY <1>3, <1>4, <1>10, <1>11, <2>2
  <2>3. CASE n \in DOMAIN filehead /\ m = Len(filehead')
    BY <1>3, <1>4, <1>10, <1>11, <2>3
  <2> QED BY <1>5, <1>13, <2>1, <2>2, <2>3
<1>14. allocated' \subseteq 1..at'
  BY <1>1, Reading
<1>15. FreedAll' /\ HungOnce'
  BY <1>1 DEF FreedAll, HungOnce
<1> QED BY <1>1, <1>8, <1>9, <1>13, <1>14, <1>15 DEF HangInv

LEMMA PairHangs == ConfInv /\ HangInv /\ ReadPair => HangInv'
<1> SUFFICES ASSUME ConfInv, HangInv, ReadPair PROVE HangInv'
  OBVIOUS
<1>1. /\ pc = "read" /\ pc' = "read" /\ ~isnest /\ onehead' = Append(onehead, at + 1)
      /\ at' = at + 1 /\ allocated' = allocated \cup {at + 1} /\ UNCHANGED <<isnest, filehead>>
  BY DEF ReadPair
<1>2. filehead # << >>
  BY <1>1, Reading
<1>3. \A x : x \in ToSet(onehead') <=> x \in ToSet(onehead) \/ x = at + 1
  <2>1. onehead \in Seq(Nat) /\ at + 1 \in Nat
    BY <1>1, Reading
  <2>2. \A x : x \in ToSet(Append(onehead, at + 1)) <=> x \in ToSet(onehead) \/ x = at + 1
    BY <2>1, AppendSet
  <2> QED BY <1>1, <2>2
<1>4. allocated' = Structures(filehead') \cup ToSet(onehead')
  BY <1>1, <1>3, Reading
<1>5. \A n \in DOMAIN filehead : \A x :
        x \in Held(n)' <=> x \in Held(n) \/ (n = Len(filehead) /\ x = at + 1)
  BY <1>1, <1>3 DEF Held, Freed
<1>6. \A n \in DOMAIN filehead : at + 1 \notin Held(n)
  BY <1>1, <1>2, Reading, HeldAll
<1>7. \A m, n \in DOMAIN filehead' : m # n => Held(m)' \cap Held(n)' = {}
  BY <1>1, <1>5, <1>6 DEF HangInv
<1>8. allocated' \subseteq 1..at'
  BY <1>1, Reading
<1>9. FreedAll' /\ HungOnce'
  BY <1>1 DEF FreedAll, HungOnce
<1> QED BY <1>1, <1>2, <1>4, <1>7, <1>8, <1>9 DEF HangInv

LEMMA EndHangs == ConfInv /\ HangInv /\ ReadEnd => HangInv'
<1> SUFFICES ASSUME ConfInv, HangInv, ReadEnd PROVE HangInv'
  OBVIOUS
<1>1. /\ pc = "read" /\ pc' = "ok" /\ at = Len(head) /\ filehead' = SetDate
      /\ UNCHANGED <<at, isnest, onehead, allocated>>
  BY DEF ReadEnd
<1>2. filehead # << >>
  <2>1. head \in Seq(Line \cup {Separator}) /\ head # << >>
    BY <1>1, Reading DEF ConfInv, HeadInv
  <2>2. at # 0
    BY <1>1, <2>1, EmptySeq
  <2> QED BY <1>1, <2>2, Reading
<1>3. DOMAIN filehead' = DOMAIN filehead
  BY <1>1, Reading, SetDateKeeps
<1>4. \A n \in DOMAIN filehead : Freed(filehead'[n]) = Held(n)
  BY <1>1, <1>2, SetDateHangs
<1>5. allocated' = Structures(filehead')
  <2>1. \A x : x \in Structures(filehead') <=> \E n \in DOMAIN filehead : x \in Held(n)
    BY <1>3, <1>4 DEF Structures
  <2>2. \A x : x \in allocated <=> \E n \in DOMAIN filehead : x \in Held(n)
    BY <1>1, <1>2, Reading, HeldAll
  <2> QED BY <1>1, <2>1, <2>2
<1>6. \A m, n \in DOMAIN filehead' : m # n => Freed(filehead'[m]) \cap Freed(filehead'[n]) = {}
  BY <1>1, <1>3, <1>4 DEF HangInv
<1>7. FreedAll' /\ HungOnce'
  BY <1>1, <1>6 DEF FreedAll, HungOnce, Freed
<1>8. allocated' \subseteq 1..at'
  BY <1>1 DEF HangInv
<1> QED BY <1>1, <1>5, <1>7, <1>8 DEF HangInv

\* A bad line: what is not hung stays.  gameover: nothing does.
LEMMA FreeHangs == ConfInv /\ HangInv /\ (ReadBad \/ FreeFiledate) => HangInv'
<1> SUFFICES ASSUME ConfInv, HangInv, ReadBad \/ FreeFiledate PROVE HangInv'
  OBVIOUS
<1>1. /\ pc' \in {"bad", "freed"} /\ at' = at /\ onehead' = onehead
      /\ allocated' = allocated \ Structures(filehead)
  BY DEF ReadBad, FreeFiledate
<1>2. CASE pc = "read" /\ pc' = "bad"
  <2>1. \A x \in allocated' : x \in ToSet(onehead)
    BY <1>1, <1>2, Reading
  <2>2. FreedAll'
    BY <1>1, <1>2, <2>1 DEF FreedAll
  <2> QED BY <1>1, <1>2, <2>2 DEF HangInv, HungOnce
<1>3. CASE pc = "ok" /\ pc' = "freed"
  <2>1. allocated' = {}
    BY <1>1, <1>3 DEF HangInv
  <2>2. FreedAll'
    BY <1>3, <2>1 DEF FreedAll
  <2> QED BY <1>3, <2>1, <2>2 DEF HangInv, HungOnce
<1> QED BY <1>2, <1>3 DEF ReadBad, FreeFiledate

LEMMA StutterHangs == HangInv /\ UNCHANGED vars => HangInv'
<1> SUFFICES ASSUME HangInv, UNCHANGED vars PROVE HangInv'
  OBVIOUS
<1>1. UNCHANGED <<pc, at, isnest, filehead, onehead, allocated>>
  BY DEF vars, readVars
<1>2. \A n : Held(n)' = Held(n)
  BY <1>1 DEF Held
<1>3. FreedAll' /\ HungOnce'
  BY <1>1 DEF HangInv, FreedAll, HungOnce
<1> QED BY <1>1, <1>2, <1>3 DEF HangInv

LEMMA TypeStep ==
  ASSUME ConfInv, ConfInv', HangInv', TypeOK, [Next]_vars
  PROVE  TypeOK'
<1>1. /\ file \in UNION {[1..n -> Line] : n \in 0..MaxLines} /\ ending \in Endings
      /\ UNCHANGED <<file, ending>>
  BY DEF TypeOK, Next, LoadStep, ReadStep, Open, SkipLine, StoreBlank, StoreLine, ReadFails, Eof,
         ReadSeparator, ReadName, ReadPair, ReadBad, ReadEnd, FreeFiledate, Returned, vars, fileVars
<1>2. /\ pos' \in 0..Len(file') /\ head' \in Seq(Line \cup {Separator}) /\ wherenow' \in Nat
      /\ maxsize' \in Nat /\ filehead' \in Seq([name : Nat, date : Seq(Nat)])
      /\ onehead' \in Seq(Nat) /\ allocated' \subseteq 1..at'
  BY DEF ConfInv, BytesInv, HeadInv, BlockInv, HangInv
<1>3. /\ pc' \in {"open", "fgets", "null", "read", "bad", "ok", "freed"}
      /\ iswrite' \in BOOLEAN /\ isnest' \in BOOLEAN
  BY DEF TypeOK, Next, LoadStep, ReadStep, Open, SkipLine, StoreBlank, StoreLine, ReadFails, Eof, Store,
         ReadSeparator, ReadName, ReadPair, ReadBad, ReadEnd, FreeFiledate, Returned, vars, loadVars,
         readVars
<1>4. at' \in 0..Len(head')
  <2>1. at \in 0..Len(head) /\ Len(head) \in Nat /\ Len(head') \in Nat
    BY <1>2, LenProperties DEF TypeOK
  <2>2. CASE LoadStep
    <3>1. at' = 0
      BY <2>2 DEF ConfInv, BlockInv, LoadStep, Open, SkipLine, StoreBlank, StoreLine, ReadFails, Eof,
                  readVars
    <3> QED BY <2>1, <3>1
  <2>3. CASE ReadStep \/ FreeFiledate
    BY <2>1, <2>3 DEF ReadStep, ReadSeparator, ReadName, ReadPair, ReadBad, ReadEnd, FreeFiledate, NextAt,
                      loadVars
  <2>4. CASE UNCHANGED vars
    BY <2>1, <2>4 DEF vars, loadVars, readVars
  <2> QED BY <2>2, <2>3, <2>4 DEF Next, Returned
<1> QED BY <1>1, <1>2, <1>3, <1>4 DEF TypeOK

-----------------------------------------------------------------------------
(***************************************************************************)
(* What loadFile keeps of the file.                                        *)
(***************************************************************************)
LEMMA TextNotBlank == \A x : IsText(x) => ~Blank(x)
BY DEF IsText, Blank

\* The lines do not change.
LEMMA SameLines ==
  ASSUME UNCHANGED file
  PROVE  /\ \A x : (Blank(x)' <=> Blank(x)) /\ (IsText(x)' <=> IsText(x))
         /\ \A x, y : Joined(x, y)' <=> Joined(x, y)
<1>1. \A x : (Blank(x)' <=> Blank(x)) /\ (IsText(x)' <=> IsText(x))
  BY DEF Blank, IsText
<1>2. \A x, y : Joined(x, y)' <=> Joined(x, y)
  BY <1>1 DEF Joined
<1> QED BY <1>1, <1>2

\* The next line is stored: as its text, or as a separator after text.  Here n is
\* the number of strings in the buffer.
LEMMA StoreEntry ==
  ASSUME Loaded, pc = "fgets", pos \in Nat, NEW e, NEW n \in Nat,
         DOMAIN head = 1..n, DOMAIN head' = 1..(n + 1), Len(head) = n, Len(head') = n + 1,
         head # << >> <=> n # 0, head' # << >>,
         head'[n + 1] = e, \A i \in 1..n : head'[i] = head[i],
         from'[n + 1] = pos + 1, \A i \in 1..n : from'[i] = from[i], \A i \in 1..n : from[i] \in Nat,
         pos' = pos + 1, UNCHANGED <<file, pc>>, iswrite' <=> e # Separator,
         IF e = Separator THEN Blank(pos + 1) /\ iswrite
                          ELSE IsText(pos + 1) /\ e = file[pos + 1]
  PROVE  Loaded'
<1>1. /\ n \in Nat /\ DOMAIN head = 1..n /\ DOMAIN head' = 1..(n + 1) /\ Len(head') = n + 1
      /\ head'[n + 1] = e /\ \A i \in 1..n : head'[i] = head[i]
  OBVIOUS
<1>2. /\ from'[n + 1] = pos + 1 /\ \A i \in 1..n : from'[i] = from[i]
      /\ \A i \in 1..n : from[i] \in Nat
  OBVIOUS
<1>3. head' # << >>
  OBVIOUS
<1>4. /\ \A i \in 1..n : from[i] \in 1..pos
      /\ \A i \in 1..n : IF head[i] = Separator THEN Blank(from[i])
                         ELSE IsText(from[i]) /\ head[i] = file[from[i]]
      /\ \A i, j \in 1..n : i < j => from[i] < from[j]
      /\ \A i, j \in 1..n : i <= j /\ Unbroken(i, j) => Joined(from[i], from[j])
      /\ \A x \in 1..pos : IsText(x) => \E i \in 1..n : from[i] = x
      /\ iswrite <=> head # << >> /\ head[n] # Separator
      /\ iswrite => Joined(from[n], pos)
  BY DEF Loaded
<1>5. head # << >> <=> n # 0
  OBVIOUS
<1>6. \A i \in 1..(n + 1) : i \in 1..n \/ i = n + 1
  BY <1>1
<1>7. ASSUME NEW i \in 1..(n + 1)
      PROVE  /\ from'[i] \in 1..(pos + 1)
             /\ IF head'[i] = Separator THEN Blank(from'[i])
                ELSE IsText(from'[i]) /\ head'[i] = file[from'[i]]
  <2>1. CASE i \in 1..n
    BY <1>1, <1>2, <1>4, <2>1
  <2>2. CASE i = n + 1
    BY <1>1, <1>2, <2>2
  <2> QED BY <1>6, <2>1, <2>2
<1>8. ASSUME NEW i \in 1..(n + 1), NEW j \in 1..(n + 1), i < j
      PROVE  from'[i] < from'[j]
  <2>1. i \in 1..n
    BY <1>1, <1>8
  <2>2. CASE j \in 1..n
    BY <1>2, <1>4, <1>8, <2>1, <2>2
  <2>3. CASE j = n + 1
    <3>1. from'[j] = pos + 1 /\ from'[i] = from[i] /\ from[i] \in 1..pos
      BY <1>2, <1>4, <2>1, <2>3, Zenon
    <3> QED BY <3>1
  <2> QED BY <1>6, <2>2, <2>3
<1>9. ASSUME NEW i \in 1..(n + 1), NEW j \in 1..(n + 1), i <= j, Unbroken(i, j)'
      PROVE  Joined(from'[i], from'[j])
  <2>1. \A k \in i..j : head'[k] # Separator
    BY <1>9 DEF Unbroken
  <2>2. CASE j \in 1..n
    <3>1. Unbroken(i, j) /\ i \in 1..n
      BY <1>1, <1>9, <2>1, <2>2 DEF Unbroken
    <3> QED BY <1>2, <1>4, <1>9, <2>2, <3>1
  <2>3. CASE j = n + 1
    <3>1. e # Separator /\ ~Blank(pos + 1)
      <4>1. e # Separator
        BY <1>1, <1>9, <2>1, <2>3
      <4> QED BY <4>1, TextNotBlank
    <3>2. CASE i = n + 1
      <4>1. from'[i] = pos + 1 /\ from'[j] = pos + 1
        BY <1>2, <2>3, <3>2, Zenon
      <4> QED BY <3>1, <4>1 DEF Joined
    <3>3. CASE i \in 1..n
      <4>1. Unbroken(i, n) /\ head[n] # Separator /\ n \in 1..n
        BY <1>1, <2>1, <2>3, <3>3 DEF Unbroken
      <4>2. Joined(from[i], from[n]) /\ Joined(from[n], pos)
        BY <1>1, <1>4, <1>5, <3>3, <4>1
      <4>3. from[n] \in Nat /\ from[i] \in Nat
        BY <1>2, <3>3, <4>1
      <4>4. Joined(from[i], pos + 1)
        BY <3>1, <4>2, <4>3 DEF Joined
      <4> QED BY <1>2, <2>3, <3>3, <4>4
    <3> QED BY <1>6, <3>2, <3>3
  <2> QED BY <1>6, <2>2, <2>3
<1>10. ASSUME NEW x \in 1..(pos + 1), IsText(x) PROVE \E i \in 1..(n + 1) : from'[i] = x
  <2>1. CASE x \in 1..pos
    <3>1. PICK i \in 1..n : from[i] = x
      BY <1>4, <1>10, <2>1
    <3>2. i \in 1..(n + 1)
      BY <1>1
    <3> QED BY <1>2, <3>1, <3>2, Zenon
  <2>2. CASE x = pos + 1
    <3>1. n + 1 \in 1..(n + 1)
      BY <1>1
    <3> QED BY <1>2, <2>2, <3>1, Zenon
  <2> QED BY <2>1, <2>2
<1>11. iswrite' => Joined(pos + 1, pos + 1)
  BY TextNotBlank DEF Joined
<1>12. Joined(from'[n + 1], pos + 1) <=> Joined(pos + 1, pos + 1)
  BY <1>2
<1> QED BY <1>1, <1>3, <1>7, <1>8, <1>9, <1>10, <1>11, <1>12, <1>2, SameLines DEF Loaded

LEMMA StoreLoads ==
  ASSUME Loaded, from \in Seq(Nat), Len(from) = Len(head), pc = "fgets", pos \in Nat,
         head \in Seq(Line \cup {Separator}), NEW e \in Line \cup {Separator},
         head' = Append(head, e), from' = Append(from, pos + 1), pos' = pos + 1,
         UNCHANGED <<file, pc>>, iswrite' <=> e # Separator,
         IF e = Separator THEN Blank(pos + 1) /\ iswrite
                          ELSE IsText(pos + 1) /\ e = file[pos + 1]
  PROVE  Loaded'
<1> DEFINE n == Len(head)
<1>1. /\ n \in Nat /\ DOMAIN head = 1..n /\ DOMAIN head' = 1..(n + 1) /\ Len(head') = n + 1
      /\ head'[n + 1] = e /\ \A i \in 1..n : head'[i] = head[i]
  BY AppendSet
<1>2. /\ from'[n + 1] = pos + 1 /\ \A i \in 1..n : from'[i] = from[i]
      /\ \A i \in 1..n : from[i] \in Nat
  <2>1. pos + 1 \in Nat /\ \A i \in 1..n : from[i] \in Nat
    BY <1>1
  <2> QED BY <1>1, <2>1, AppendSet
<1>3. head' # << >> /\ (head # << >> <=> n # 0)
  BY <1>1
<1> QED BY <1>1, <1>2, <1>3, StoreEntry

\* The next line is skipped: a comment, or blank where no text is ahead of it.
LEMMA SkipLoads ==
  ASSUME Loaded, pc = "fgets", pos \in Nat, pos' = pos + 1, UNCHANGED <<file, pc, head, from, iswrite>>,
         ~IsText(pos + 1), Blank(pos + 1) => ~iswrite,
         from \in Seq(Nat), Len(from) = Len(head), head \in Seq(Line \cup {Separator})
  PROVE  Loaded'
<1>1. \A i, j : Unbroken(i, j)' <=> Unbroken(i, j)
  BY DEF Unbroken
<1>2. \A i \in DOMAIN head : from[i] \in 1..(pos + 1)
  BY DEF Loaded
<1>3. \A x \in 1..(pos + 1) : IsText(x) => \E i \in DOMAIN head : from[i] = x
  BY DEF Loaded
<1>4. iswrite => Joined(from[Len(head)], pos + 1)
  <2> SUFFICES ASSUME iswrite PROVE Joined(from[Len(head)], pos + 1)
    OBVIOUS
  <2>1. Joined(from[Len(head)], pos) /\ ~Blank(pos + 1) /\ head # << >>
    BY DEF Loaded
  <2>2. from[Len(head)] \in Nat
    BY <2>1
  <2> QED BY <2>1, <2>2 DEF Joined
<1> QED BY <1>1, <1>2, <1>3, <1>4, SameLines DEF Loaded

\* What a step that leaves the buffer alone leaves of Loaded.
LEMMA SameBuffer ==
  ASSUME Loaded, UNCHANGED <<file, pos, head, from>>,
         pc' \in {"open", "fgets"} => pc \in {"open", "fgets"} /\ iswrite' = iswrite
  PROVE  Loaded'
<1>1. \A i, j : Unbroken(i, j)' <=> Unbroken(i, j)
  BY DEF Unbroken
<1> QED BY <1>1, SameLines DEF Loaded

\* A step of loadFile that stores string e for the next line.
LEMMA StoreParses ==
  ASSUME Inv, pc = "fgets", NEW e \in Line \cup {Separator}, NEW k, Store(e, k),
         UNCHANGED <<file, ending>>,
         ending # "error" => /\ pos' = pos + 1 /\ (iswrite' <=> e # Separator)
                             /\ IF e = Separator THEN Blank(pos + 1) /\ iswrite
                                ELSE IsText(pos + 1) /\ e = file[pos + 1]
  PROVE  ParseInv'
<1>1. /\ from \in Seq(Nat) /\ Len(from) = Len(head) /\ pos \in Nat
      /\ head \in Seq(Line \cup {Separator}) /\ (ending # "error" => Loaded)
  BY DEF Inv, ParseInv, TypeOK
<1>2. CASE pc' = pc /\ head' = Append(head, e) /\ from' = Append(from, pos + 1)
  <2>1. from' \in Seq(Nat) /\ Len(from') = Len(head')
    <3>1. pos + 1 \in Nat
      BY <1>1
    <3>2. Append(from, pos + 1) \in Seq(Nat) /\ Len(Append(from, pos + 1)) = Len(from) + 1
      BY <1>1, <3>1, AppendProperties
    <3>3. Len(Append(head, e)) = Len(head) + 1
      BY <1>1, AppendProperties
    <3> QED BY <1>1, <1>2, <3>2, <3>3
  <2>2. ending' # "error" => Loaded'
    <3> SUFFICES ASSUME ending # "error" PROVE Loaded'
      OBVIOUS
    <3>1. pos' = pos + 1 /\ (iswrite' <=> e # Separator)
          /\ IF e = Separator THEN Blank(pos + 1) /\ iswrite ELSE IsText(pos + 1) /\ e = file[pos + 1]
      OBVIOUS
    <3> QED BY <1>1, <1>2, <3>1, StoreLoads
  <2> QED BY <1>2, <2>1, <2>2 DEF ParseInv, ParseRight
<1>3. CASE pc' = "null" /\ head' = head /\ from' = from
  BY <1>1, <1>3 DEF ParseInv, ParseRight
<1> QED BY <1>2, <1>3 DEF Store

LEMMA LoadParses == Inv /\ LoadStep => ParseInv'
<1> SUFFICES ASSUME Inv, LoadStep PROVE ParseInv'
  OBVIOUS
<1>0. /\ from \in Seq(Nat) /\ Len(from) = Len(head) /\ pos \in Nat
      /\ head \in Seq(Line \cup {Separator}) /\ (pc # "null" /\ ending # "error" => Loaded)
      /\ file \in Seq(Line) /\ UNCHANGED <<file, ending>>
  BY DEF Inv, ParseInv, TypeOK, ConfInv, BytesInv, LoadStep, Open, SkipLine, StoreBlank, StoreLine,
         ReadFails, Eof, fileVars
<1>1. CASE Open
  <2>1. UNCHANGED <<pos, head, from, iswrite>> /\ pc = "open" /\ pc' \in {"fgets", "null"}
    BY <1>1 DEF Open
  <2>2. ending' # "error" => Loaded'
    BY <1>0, <2>1, SameBuffer
  <2> QED BY <1>0, <2>1, <2>2 DEF ParseInv, ParseRight
<1>2. CASE SkipLine
  <2>1. UNCHANGED <<head, from, iswrite, pc>> /\ pc = "fgets" /\ pos' = pos + 1
        /\ ~IsText(pos + 1) /\ (Blank(pos + 1) => ~iswrite)
    BY <1>2 DEF SkipLine, IsText, Blank
  <2>2. ending' # "error" => Loaded'
    BY <1>0, <2>1, SkipLoads
  <2> QED BY <1>0, <2>1, <2>2 DEF ParseInv, ParseRight
<1>3. CASE StoreBlank
  <2>1. /\ pc = "fgets" /\ Store(Separator, 1) /\ pos' = pos + 1 /\ iswrite' = FALSE
        /\ Blank(pos + 1) /\ iswrite
    BY <1>3 DEF StoreBlank, Blank
  <2> QED BY <1>0, <2>1, StoreParses
<1>4. CASE StoreLine
  <2> DEFINE l == file[pos + 1]
  <2>1. l \in Line /\ l # Separator
    BY <1>4, <1>0, SeparatorAssumption DEF StoreLine
  <2>2. /\ pc = "fgets" /\ Store(l, LenOf[l]) /\ pos' = pos + 1 /\ iswrite' = TRUE
        /\ IsText(pos + 1)
    BY <1>4 DEF StoreLine, IsText
  <2>3. l = file[pos + 1]
    OBVIOUS
  <2> HIDE DEF l
  <2> QED BY <1>0, <2>1, <2>2, <2>3, StoreParses
<1>5. CASE ReadFails
  <2>1. pc = "fgets" /\ ending = "error"
    BY <1>5 DEF ReadFails
  <2>2. CASE iswrite
    <3>1. Store(Separator, 1)
      BY <1>5, <2>2 DEF ReadFails
    <3> QED BY <1>0, <2>1, <3>1, StoreParses
  <2>3. CASE ~iswrite
    BY <1>0, <1>5, <2>1, <2>3 DEF ReadFails, ParseInv, ParseRight
  <2> QED BY <2>2, <2>3
<1>6. CASE Eof
  <2>1. /\ UNCHANGED <<pos, head, from, iswrite, at, isnest, filehead, onehead>>
        /\ pc = "fgets" /\ pc' \in {"read", "null"} /\ pos = Len(file) /\ ending # "error"
    BY <1>6 DEF Eof, loadVars, readVars
  <2>2. Loaded'
    BY <1>0, <2>1, SameBuffer
  <2>3. at' = 0 /\ isnest' /\ filehead' = << >> /\ DOMAIN filehead' = {} /\ DOMAIN Names' = {}
    BY <2>1 DEF Inv, ConfInv, BlockInv, HangInv, Names
  <2>4. 1..at' = {}
    BY <2>3
  <2>5. Opened' = {}
    BY <2>4 DEF Opened
  <2>6. Orders(Names, Opened)'
    BY <2>3, <2>5 DEF Orders
  <2>7. Collected'
    BY <2>3, <2>4, <2>6 DEF Collected
  <2> QED BY <1>0, <2>1, <2>2, <2>7 DEF ParseInv, ParseRight
<1> QED BY <1>1, <1>2, <1>3, <1>4, <1>5, <1>6 DEF LoadStep

-----------------------------------------------------------------------------
(***************************************************************************)
(* What readFile makes of the buffer.                                      *)
(***************************************************************************)
LEMMA OrdersDef ==
  ASSUME NEW s, NEW S
  PROVE  Orders(s, S) <=> /\ \A i, j \in DOMAIN s : i < j => s[i] < s[j]
                          /\ \A x : x \in S <=> \E i \in DOMAIN s : s[i] = x
<1>1. {s[i] : i \in DOMAIN s} = S <=> \A x : x \in S <=> \E i \in DOMAIN s : s[i] = x
  OBVIOUS
<1> QED BY <1>1 DEF Orders

\* t is s and behind it e, which is larger than all of s.
LEMMA LongerOrders ==
  ASSUME NEW s, NEW t, NEW n \in Nat, NEW e \in Nat, NEW S, NEW T,
         DOMAIN s = 1..n, DOMAIN t = 1..(n + 1), \A i \in 1..n : t[i] = s[i], t[n + 1] = e,
         Orders(s, S), \A x \in S : x < e, \A x : x \in T <=> x \in S \/ x = e
  PROVE  Orders(t, T)
<1>1. /\ \A i, j \in 1..n : i < j => s[i] < s[j]
      /\ \A x : x \in S <=> \E i \in 1..n : s[i] = x
  BY OrdersDef
<1>2. \A i \in 1..(n + 1) : i \in 1..n \/ i = n + 1
  OBVIOUS
<1>3. ASSUME NEW i \in 1..(n + 1), NEW j \in 1..(n + 1), i < j PROVE t[i] < t[j]
  <2>1. i \in 1..n
    BY <1>3
  <2>2. CASE j \in 1..n
    BY <1>1, <1>3, <2>1, <2>2
  <2>3. CASE j = n + 1
    BY <1>1, <2>1, <2>3
  <2> QED BY <1>2, <2>2, <2>3
<1>4. n + 1 \in 1..(n + 1) /\ \A i \in 1..n : i \in 1..(n + 1)
  OBVIOUS
<1>5. \A x : x \in T <=> \E i \in 1..(n + 1) : t[i] = x
  BY <1>1, <1>2, <1>4
<1> QED BY <1>3, <1>5, OrdersDef

\* One more string is passed.
LEMMA Passed ==
  ASSUME at \in Nat, at' = at + 1, UNCHANGED head
  PROVE  /\ \A i, j : Unbroken(i, j)' <=> Unbroken(i, j)
         /\ \A i : Opens(i)' <=> Opens(i)
         /\ \A x : x \in Opened' <=> x \in Opened \/ (x = at + 1 /\ Opens(at + 1))
         /\ \A p, x : x \in Span(p)' <=>
              x \in Span(p) \/ (x = at + 1 /\ at + 1 > p /\ Unbroken(p, at + 1))
<1>1. (\A i, j : Unbroken(i, j)' <=> Unbroken(i, j)) /\ \A i : Opens(i)' <=> Opens(i)
  BY DEF Unbroken, Opens
<1>2. \A x : x \in 1..at' <=> x \in 1..at \/ x = at + 1
  OBVIOUS
<1>3. \A x : x \in Opened' <=> x \in Opened \/ (x = at + 1 /\ Opens(at + 1))
  BY <1>1, <1>2 DEF Opened
<1>4. \A p, x : x \in Span(p)' <=>
        x \in Span(p) \/ (x = at + 1 /\ at + 1 > p /\ Unbroken(p, at + 1))
  BY <1>1, <1>2 DEF Span
<1> QED BY <1>1, <1>3, <1>4

\* What holds while readFile reads.
LEMMA Gathering ==
  ASSUME Inv, pc = "read"
  PROVE  /\ at \in Nat /\ at <= Len(head) /\ DOMAIN head = 1..Len(head) /\ Len(head) \in Nat
         /\ filehead \in Seq([name : Nat, date : Seq(Nat)]) /\ onehead \in Seq(Nat)
         /\ DOMAIN filehead = 1..Len(filehead) /\ Len(filehead) \in Nat
         /\ (filehead = << >> => at = 0 /\ isnest) /\ (filehead # << >> <=> Len(filehead) # 0)
         /\ isnest <=> at = 0 \/ head[at] = Separator
         /\ ~isnest => Unbroken(filehead[Len(filehead)].name, at)
         /\ Orders(Names, Opened)
         /\ \A n \in DOMAIN filehead : Orders(Pairs(n), Span(filehead[n].name))
         /\ \A i \in 1..at : head[i] # Separator /\ ~Opens(i) => KindOf[head[i]] = "pair"
         /\ \A n \in DOMAIN filehead : filehead[n].name \in 1..at /\ Opens(filehead[n].name)
         /\ \A m, n \in DOMAIN filehead : m < n => filehead[m].name < filehead[n].name
<1>1. /\ at \in Nat /\ at <= Len(head) /\ DOMAIN head = 1..Len(head) /\ Len(head) \in Nat
      /\ filehead \in Seq([name : Nat, date : Seq(Nat)]) /\ onehead \in Seq(Nat)
      /\ DOMAIN filehead = 1..Len(filehead) /\ Len(filehead) \in Nat
  BY LenProperties DEF Inv, TypeOK
<1>2. (filehead = << >> => at = 0 /\ isnest) /\ (filehead # << >> <=> Len(filehead) # 0)
  BY <1>1, EmptySeq DEF Inv, ConfInv, BlockInv
<1>3. Collected
  BY DEF Inv, ParseInv
<1>4. /\ \A m, n \in DOMAIN filehead : m < n => Names[m] < Names[n]
      /\ \A x : x \in Opened <=> \E n \in DOMAIN filehead : Names[n] = x
  <2>1. DOMAIN Names = DOMAIN filehead
    BY DEF Names
  <2> QED BY <1>3, <2>1, OrdersDef DEF Collected
<1>5. \A n \in DOMAIN filehead : Names[n] = filehead[n].name
  BY DEF Names
<1>6. \A n \in DOMAIN filehead : filehead[n].name \in Opened
  BY <1>4, <1>5
<1>7. \A n \in DOMAIN filehead : filehead[n].name \in 1..at /\ Opens(filehead[n].name)
  BY <1>6 DEF Opened
<1> QED BY <1>1, <1>2, <1>3, <1>4, <1>5, <1>7 DEF Collected

\* The string passed is no pair of a block, or one by its form.
LEMMA PassedKind ==
  ASSUME Inv, pc = "read", at' = at + 1, UNCHANGED head,
         head[at + 1] = Separator \/ Opens(at + 1) \/ KindOf[head[at + 1]] = "pair"
  PROVE  \A k \in 1..at' : head'[k] # Separator /\ ~Opens(k)' => KindOf[head'[k]] = "pair"
<1> TAKE k \in 1..at'
<1>1. at \in Nat /\ (Opens(k)' <=> Opens(k))
  BY Passed, Gathering
<1>2. CASE k \in 1..at
  BY <1>1, <1>2, Gathering
<1>3. CASE k = at + 1
  BY <1>1, <1>3
<1> QED BY <1>1, <1>2, <1>3

LEMMA SeparatorCollects == Inv /\ ReadSeparator => Collected'
<1> SUFFICES ASSUME Inv, ReadSeparator PROVE Collected'
  OBVIOUS
<1>1. /\ pc = "read" /\ at < Len(head) /\ head[at + 1] = Separator /\ filehead' = SetDate
      /\ isnest' = TRUE /\ at' = at + 1 /\ UNCHANGED <<onehead, head>>
  BY DEF ReadSeparator, NextAt, loadVars
<1>2. /\ DOMAIN filehead' = DOMAIN filehead /\ Len(filehead') = Len(filehead)
      /\ \A n \in DOMAIN filehead : filehead'[n].name = filehead[n].name
      /\ \A n \in DOMAIN filehead :
           filehead'[n].date = IF n = Len(filehead) THEN onehead ELSE filehead[n].date
  BY <1>1, Gathering, SetDateKeeps
<1>3. Names' = Names
  BY <1>2 DEF Names
<1>4. \A n \in DOMAIN filehead : Pairs(n)' = Pairs(n)
  BY <1>1, <1>2 DEF Pairs
<1>5. ~Opens(at + 1) /\ \A p : p < at + 1 /\ p \in Nat => ~Unbroken(p, at + 1)
  BY <1>1, Gathering DEF Opens, Unbroken
<1>6. \A x : x \in Opened' <=> x \in Opened
  BY <1>1, <1>5, Passed, Gathering
<1>7. \A n \in DOMAIN filehead : \A x : x \in Span(filehead[n].name)' <=> x \in Span(filehead[n].name)
  BY <1>1, <1>2, <1>5, Passed, Gathering
<1>8. Orders(Names', Opened')
  <2>1. Opened' = Opened
    BY <1>6
  <2> QED BY <1>1, <1>3, <2>1, Gathering
<1>9. \A n \in DOMAIN filehead : Orders(Pairs(n)', Span(filehead[n].name)')
  <2> TAKE n \in DOMAIN filehead
  <2>1. Span(filehead[n].name)' = Span(filehead[n].name)
    BY <1>7
  <2> QED BY <1>1, <1>4, <2>1, Gathering
<1>10. \A k \in 1..at' : head'[k] # Separator /\ ~Opens(k)' => KindOf[head'[k]] = "pair"
  BY <1>1, PassedKind
<1>11. isnest' <=> at' = 0 \/ head'[at'] = Separator
  BY <1>1
<1> QED BY <1>1, <1>2, <1>8, <1>9, <1>10, <1>11 DEF Collected

LEMMA NameCollects == Inv /\ ReadName => Collected'
<1> SUFFICES ASSUME Inv, ReadName PROVE Collected'
  OBVIOUS
<1> DEFINE b == [name |-> at + 1, date |-> << >>]
           L == Len(filehead)
<1>1. /\ pc = "read" /\ at < Len(head) /\ head[at + 1] # Separator /\ isnest /\ isnest' = FALSE
      /\ filehead' = Append(filehead, b) /\ onehead' = << >> /\ at' = at + 1 /\ UNCHANGED head
  BY DEF ReadName, loadVars
<1>2. b \in [name : Nat, date : Seq(Nat)] /\ b.name = at + 1
  BY <1>1, Gathering
<1> HIDE DEF b
<1>3. /\ Len(filehead') = L + 1 /\ L \in Nat /\ DOMAIN filehead = 1..L
      /\ DOMAIN filehead' = 1..(L + 1) /\ filehead'[L + 1] = b
      /\ \A n \in 1..L : filehead'[n] = filehead[n]
  BY <1>1, <1>2, Gathering, AppendSet
<1>4. \A n \in 1..(L + 1) : n \in 1..L \/ n = L + 1
  BY <1>3
<1>5. Opens(at + 1) /\ Unbroken(at + 1, at + 1)
  BY <1>1, Gathering DEF Opens, Unbroken
<1>6. \A p \in 1..at : ~Unbroken(p, at + 1)
  BY <1>1, Gathering DEF Unbroken
<1>7. Orders(Names', Opened')
  <2>1. /\ DOMAIN Names = 1..L /\ DOMAIN Names' = 1..(L + 1) /\ Names'[L + 1] = at + 1
        /\ \A n \in 1..L : Names'[n] = Names[n]
    BY <1>2, <1>3 DEF Names
  <2>2. Orders(Names, Opened) /\ at + 1 \in Nat
    BY <1>1, Gathering
  <2>3. \A x : x \in Opened' <=> x \in Opened \/ x = at + 1
    BY <1>1, <1>5, Passed, Gathering
  <2>4. \A x \in Opened : x < at + 1
    BY <1>1, Gathering DEF Opened
  <2> QED BY <1>3, <2>1, <2>2, <2>3, <2>4, LongerOrders
<1>8. ASSUME NEW n \in 1..(L + 1) PROVE Orders(Pairs(n)', Span(filehead[n].name)')
  <2>1. CASE n = L + 1
    <3>1. Pairs(n)' = << >>
      BY <1>1, <1>3, <2>1 DEF Pairs
    <3>2. filehead'[n].name = at + 1
      BY <1>2, <1>3, <2>1
    <3>3. \A x : x \notin Span(filehead[n].name)'
      BY <1>1, <3>2, Gathering DEF Span
    <3> QED BY <3>1, <3>3, OrdersDef
  <2>2. CASE n \in 1..L
    <3>1. filehead'[n] = filehead[n] /\ n # L + 1 /\ L # 0
      BY <1>3, <2>2
    <3>2. Pairs(n)' = Pairs(n)
      <4>1. Pairs(n)' = filehead[n].date
        BY <1>3, <3>1 DEF Pairs
      <4>2. CASE n = L
        <5>1. filehead # << >>
          BY <1>1, <3>1, Gathering
        <5>2. filehead[L].date = onehead
          BY <1>1, <5>1 DEF Inv, HangInv
        <5> QED BY <4>1, <4>2, <5>2 DEF Pairs
      <4>3. CASE n # L
        BY <4>1, <4>3 DEF Pairs
      <4> QED BY <4>2, <4>3
    <3>3. \A x : x \in Span(filehead[n].name)' <=> x \in Span(filehead[n].name)
      <4>1. filehead[n].name \in 1..at
        BY <1>1, <1>3, <2>2, Gathering
      <4> QED BY <1>1, <1>6, <3>1, <4>1, Passed, Gathering
    <3>4. Span(filehead[n].name)' = Span(filehead[n].name)
      BY <3>3
    <3> QED BY <1>1, <1>3, <2>2, <3>2, <3>4, Gathering
  <2> QED BY <1>4, <2>1, <2>2
<1>9. \A k \in 1..at' : head'[k] # Separator /\ ~Opens(k)' => KindOf[head'[k]] = "pair"
  BY <1>1, <1>5, PassedKind
<1>10. isnest' <=> at' = 0 \/ head'[at'] = Separator
  BY <1>1, Gathering
<1>11. Unbroken(filehead[Len(filehead)].name, at)'
  <2>1. filehead'[Len(filehead')].name = at + 1
    BY <1>2, <1>3
  <2> QED BY <1>1, <1>5, <2>1, Passed, Gathering
<1> QED BY <1>3, <1>7, <1>8, <1>9, <1>10, <1>11 DEF Collected

LEMMA PairCollects == Inv /\ ReadPair => Collected'
<1> SUFFICES ASSUME Inv, ReadPair PROVE Collected'
  OBVIOUS
<1> DEFINE L == Len(filehead)
<1>1. /\ pc = "read" /\ at < Len(head) /\ head[at + 1] # Separator /\ ~isnest
      /\ KindOf[head[at + 1]] = "pair" /\ onehead' = Append(onehead, at + 1) /\ at' = at + 1
      /\ UNCHANGED <<head, filehead, isnest>>
  BY DEF ReadPair, loadVars
<1>2. /\ L \in Nat /\ L # 0 /\ DOMAIN filehead = 1..L /\ at # 0 /\ head[at] # Separator
      /\ Unbroken(filehead[L].name, at)
  BY <1>1, Gathering
<1>L. L = Len(filehead)
  OBVIOUS
<1> HIDE DEF L
<1>3. ~Opens(at + 1)
  BY <1>1, <1>2, Gathering DEF Opens
<1>4. Orders(Names', Opened')
  <2>1. Opened' = Opened
    BY <1>1, <1>3, Passed, Gathering
  <2>2. Names' = Names
    BY <1>1 DEF Names
  <2> QED BY <1>1, <2>1, <2>2, Gathering
<1>5. Unbroken(filehead[L].name, at + 1)
  <2>1. at \in Nat /\ filehead[L].name \in Nat
    <3>1. L \in DOMAIN filehead
      BY <1>2
    <3>2. \A m \in DOMAIN filehead : filehead[m].name \in 1..at
      BY <1>1, Gathering
    <3>3. at \in Nat
      BY <1>1, Gathering
    <3> QED BY <3>1, <3>2, <3>3
  <2> QED BY <1>1, <1>2, <2>1 DEF Unbroken
<1>6. ASSUME NEW n \in 1..L PROVE Orders(Pairs(n)', Span(filehead[n].name)')
  <2> DEFINE p == filehead[n].name
  <2>1. p \in 1..at /\ filehead'[n].name = p /\ Orders(Pairs(n), Span(p))
    BY <1>1, <1>2, Gathering
  <2>2. CASE n = L
    <3>1. Pairs(n) = onehead /\ Pairs(n)' = Append(onehead, at + 1)
      BY <1>1, <1>L, <2>2 DEF Pairs
    <3>2. onehead \in Seq(Nat) /\ at + 1 \in Nat
      BY <1>1, Gathering
    <3>3. \A x : x \in Span(p)' <=> x \in Span(p) \/ x = at + 1
      <4>1. at \in Nat
        BY <1>1, Gathering
      <4>2. at + 1 > p /\ Unbroken(p, at + 1)
        BY <1>5, <2>1, <2>2, <4>1
      <4>3. \A x : x \in Span(p)' <=>
              x \in Span(p) \/ (x = at + 1 /\ at + 1 > p /\ Unbroken(p, at + 1))
        BY <1>1, <4>1, Passed
      <4> QED BY <4>2, <4>3
    <3>4. \A x \in Span(p) : x < at + 1
      BY <1>1, Gathering DEF Span
    <3> DEFINE k == Len(onehead)
               q == Append(onehead, at + 1)
    <3>5. k \in Nat /\ DOMAIN onehead = 1..k /\ DOMAIN q = 1..(k + 1)
          /\ q[k + 1] = at + 1 /\ \A m \in 1..k : q[m] = onehead[m]
      BY <3>2, AppendSet
    <3>6. Orders(onehead, Span(p))
      BY <2>1, <3>1
    <3> HIDE DEF k, q, p
    <3>7. Orders(q, Span(p)')
      BY <3>2, <3>3, <3>4, <3>5, <3>6, LongerOrders
    <3> QED BY <1>1, <3>1, <3>7 DEF q, p
  <2>3. CASE n # L
    <3>1. Pairs(n)' = Pairs(n)
      BY <1>1, <1>L, <2>3 DEF Pairs
    <3> DEFINE r == filehead[L].name
    <3>2. p < r /\ r \in 1..at /\ Opens(r)
      <4>1. L \in DOMAIN filehead /\ n \in DOMAIN filehead /\ n < L
        BY <1>2, <2>3
      <4> QED BY <1>1, <4>1, Gathering
    <3> HIDE DEF p, r
    <3>3. r - 1 \in p..(at + 1) /\ head[r - 1] = Separator
      <4>1. at \in Nat /\ p \in 1..at
        BY <1>1, <2>1, Gathering
      <4> QED BY <3>2, <4>1 DEF Opens
    <3>4. ~Unbroken(p, at + 1)
      BY <3>3 DEF Unbroken
    <3>5. \A x : x \in Span(p)' <=> x \in Span(p)
      BY <1>1, <2>1, <3>4, Passed, Gathering DEF p
    <3>6. Span(p)' = Span(p)
      BY <3>5
    <3> QED BY <2>1, <3>1, <3>6 DEF p
  <2> QED BY <2>2, <2>3
<1>7. \A k \in 1..at' : head'[k] # Separator /\ ~Opens(k)' => KindOf[head'[k]] = "pair"
  BY <1>1, PassedKind
<1>8. isnest' <=> at' = 0 \/ head'[at'] = Separator
  BY <1>1, Gathering
<1>9. Unbroken(filehead[Len(filehead)].name, at)'
  BY <1>1, <1>L, <1>5, Passed, Gathering
<1> QED BY <1>1, <1>L, <1>2, <1>4, <1>6, <1>7, <1>8, <1>9 DEF Collected

-----------------------------------------------------------------------------
(***************************************************************************)
(* From positions in the buffer to lines of the file.                      *)
(***************************************************************************)
LEMMA BufferIsFile ==
  ASSUME Inv, pc = "read"
  PROVE  /\ DOMAIN head = 1..Len(head) /\ Len(head) \in Nat
         /\ DOMAIN file = 1..Len(file) /\ Len(file) \in Nat
         /\ \A i \in DOMAIN head : from[i] \in DOMAIN file /\ from[i] \in Nat
         /\ \A i \in DOMAIN head : IF head[i] = Separator THEN Blank(from[i])
                                   ELSE IsText(from[i]) /\ head[i] = file[from[i]]
         /\ \A i, j \in DOMAIN head : i < j <=> from[i] < from[j]
         /\ \A i, j \in DOMAIN head : i <= j /\ Unbroken(i, j) => Joined(from[i], from[j])
         /\ \A x \in DOMAIN file : IsText(x) => \E i \in DOMAIN head : from[i] = x /\ head[i] # Separator
<1>1. DOMAIN head = 1..Len(head) /\ Len(head) \in Nat /\ DOMAIN file = 1..Len(file) /\ Len(file) \in Nat
  BY LenProperties DEF Inv, TypeOK, ConfInv, BytesInv
<1>2. Loaded /\ pos = Len(file)
  BY DEF Inv, ParseInv
<1>3. /\ \A i \in DOMAIN head : from[i] \in DOMAIN file /\ from[i] \in Nat
      /\ \A i \in DOMAIN head : IF head[i] = Separator THEN Blank(from[i])
                                ELSE IsText(from[i]) /\ head[i] = file[from[i]]
      /\ \A i, j \in DOMAIN head : i < j => from[i] < from[j]
      /\ \A i, j \in DOMAIN head : i <= j /\ Unbroken(i, j) => Joined(from[i], from[j])
      /\ \A x \in DOMAIN file : IsText(x) => \E i \in DOMAIN head : from[i] = x
  BY <1>1, <1>2 DEF Loaded
<1>4. ASSUME NEW i \in DOMAIN head, NEW j \in DOMAIN head, from[i] < from[j] PROVE i < j
  <2>1. i \in Nat /\ j \in Nat /\ from[i] \in Nat /\ from[j] \in Nat
    BY <1>1, <1>3
  <2>2. ~(j < i)
    BY <1>3, <1>4, <2>1
  <2>3. i # j
    BY <1>4, <2>1
  <2> QED BY <2>1, <2>2, <2>3
<1>5. \A x \in DOMAIN file : IsText(x) => \E i \in DOMAIN head : from[i] = x /\ head[i] # Separator
  BY <1>3, TextNotBlank
<1> QED BY <1>1, <1>3, <1>4, <1>5

\* Two texts belong to one block of the file if no separator comes between them.
LEMMA JoinedIffUnbroken ==
  ASSUME Inv, pc = "read", NEW i \in DOMAIN head, NEW j \in DOMAIN head, i <= j
  PROVE  Joined(from[i], from[j]) <=> Unbroken(i, j)
<1>1. ASSUME Joined(from[i], from[j]) PROVE Unbroken(i, j)
  <2> SUFFICES ASSUME NEW k \in i..j PROVE head[k] # Separator
    BY DEF Unbroken
  <2>1. i \in Nat /\ j \in Nat /\ k \in DOMAIN head
    BY BufferIsFile
  <2>2. k \in Nat /\ (i < k \/ i = k) /\ (k < j \/ k = j)
    BY <2>1
  <2>3. from[i] \in Nat /\ from[k] \in Nat /\ from[j] \in Nat
    BY <2>1, BufferIsFile
  <2>4. from[i] <= from[k]
    BY <2>1, <2>2, <2>3, BufferIsFile
  <2>5. from[k] <= from[j]
    BY <2>1, <2>2, <2>3, BufferIsFile
  <2>6. from[k] \in from[i]..from[j]
    BY <2>3, <2>4, <2>5
  <2>7. ~Blank(from[k])
    BY <1>1, <2>6 DEF Joined
  <2> QED BY <2>1, <2>7, BufferIsFile
<1> QED BY <1>1, BufferIsFile

LEMMA BeginsIffOpens ==
  ASSUME Inv, pc = "read", NEW i \in DOMAIN head, head[i] # Separator
  PROVE  Begins(from[i]) <=> Opens(i)
<1>1. i \in Nat /\ i >= 1 /\ from[i] \in Nat /\ IsText(from[i])
  BY BufferIsFile
<1>2. ASSUME Opens(i), NEW y \in 1..(from[i] - 1), IsText(y) PROVE ~Joined(y, from[i])
  <2>1. y \in DOMAIN file /\ y < from[i]
    <3>1. from[i] \in 1..Len(file) /\ Len(file) \in Nat /\ DOMAIN file = 1..Len(file)
      BY BufferIsFile
    <3> QED BY <3>1
  <2>2. PICK j \in DOMAIN head : from[j] = y /\ head[j] # Separator
    BY <1>2, <2>1, BufferIsFile
  <2>3. j < i /\ j \in Nat /\ j >= 1
    BY <2>1, <2>2, BufferIsFile
  <2>4. head[i - 1] = Separator /\ i - 1 \in j..i
    BY <1>1, <1>2, <2>3 DEF Opens
  <2>5. ~Unbroken(j, i)
    BY <2>4 DEF Unbroken
  <2>6. j <= i
    BY <1>1, <2>3
  <2> QED BY <2>2, <2>5, <2>6, JoinedIffUnbroken
<1>3. ASSUME ~Opens(i) PROVE ~Begins(from[i])
  <2> DEFINE j == i - 1
  <2>1. i > 1 /\ head[j] # Separator
    BY <1>1, <1>3 DEF Opens
  <2>2. j \in DOMAIN head /\ j < i /\ j <= i
    <3>1. i \in 1..Len(head) /\ Len(head) \in Nat /\ DOMAIN head = 1..Len(head)
      BY BufferIsFile
    <3> QED BY <2>1, <3>1
  <2>3. Unbroken(j, i)
    BY <1>1, <2>1 DEF Unbroken
  <2> HIDE DEF j
  <2>4. Joined(from[j], from[i]) /\ IsText(from[j]) /\ from[j] < from[i] /\ from[j] \in Nat
        /\ from[j] \in DOMAIN file
    BY <2>1, <2>2, <2>3, BufferIsFile
  <2>5. from[j] >= 1
    BY <2>4, BufferIsFile
  <2>6. from[j] \in 1..(from[i] - 1)
    BY <1>1, <2>4, <2>5
  <2> QED BY <2>4, <2>6 DEF Begins
<1> QED BY <1>1, <1>2, <1>3 DEF Begins

\* A list of positions of texts, in order, is the list of their lines.
LEMMA OrdersLists ==
  ASSUME Inv, pc = "read", NEW s, NEW S, NEW T, Orders(s, S),
         \A i \in S : i \in DOMAIN head /\ head[i] # Separator,
         \A x : x \in T <=> \E i \in S : from[i] = x
  PROVE  Lists(s, T)
<1>1. /\ \A i, j \in DOMAIN s : i < j => s[i] < s[j]
      /\ \A x : x \in S <=> \E i \in DOMAIN s : s[i] = x
  BY OrdersDef
<1>2. \A i \in DOMAIN s : s[i] \in DOMAIN head /\ head[s[i]] # Separator
  BY <1>1
<1>3. \A i, j \in DOMAIN s : i < j => from[s[i]] < from[s[j]]
  BY <1>1, <1>2, BufferIsFile
<1>4. \A x : x \in T <=> \E i \in DOMAIN s : from[s[i]] = x
  BY <1>1
<1>5. {from[s[i]] : i \in DOMAIN s} = T
  BY <1>4
<1>6. \A i \in DOMAIN s : head[s[i]] = file[from[s[i]]]
  BY <1>2, BufferIsFile
<1> QED BY <1>3, <1>5, <1>6 DEF Lists

\* The buffer read to its end, the blocks made are those of the file.
LEMMA AllRead ==
  ASSUME Inv, pc = "read", at = Len(head)
  PROVE  /\ WellFormed
         /\ Lists(Names, {x \in DOMAIN file : Begins(x)})
         /\ \A n \in DOMAIN filehead : Lists(Pairs(n), Follow(from[filehead[n].name]))
<1>0. 1..at = DOMAIN head
  BY BufferIsFile
<1>1. WellFormed
  <2> SUFFICES ASSUME NEW x \in DOMAIN file, IsText(x), ~Begins(x) PROVE KindOf[file[x]] = "pair"
    BY DEF WellFormed
  <2>1. PICK i \in DOMAIN head : from[i] = x /\ head[i] # Separator
    BY BufferIsFile
  <2>2. ~Opens(i)
    BY <2>1, BeginsIffOpens
  <2>3. KindOf[head[i]] = "pair"
    BY <1>0, <2>1, <2>2, Gathering
  <2>4. head[i] = file[x]
    BY <2>1, BufferIsFile
  <2> QED BY <2>3, <2>4
<1>2. Lists(Names, {x \in DOMAIN file : Begins(x)})
  <2> DEFINE T == {x \in DOMAIN file : Begins(x)}
  <2>1. \A i \in Opened : i \in DOMAIN head /\ head[i] # Separator /\ Opens(i)
    BY <1>0 DEF Opened, Opens
  <2>2. ASSUME NEW i \in Opened PROVE from[i] \in T
    <3>1. Begins(from[i])
      BY <2>1, BeginsIffOpens
    <3>2. from[i] \in DOMAIN file
      BY <2>1, BufferIsFile
    <3> QED BY <3>1, <3>2
  <2>3. ASSUME NEW x \in T PROVE \E i \in Opened : from[i] = x
    <3>1. x \in DOMAIN file /\ Begins(x) /\ IsText(x)
      BY <2>3 DEF Begins
    <3>2. PICK i \in DOMAIN head : from[i] = x /\ head[i] # Separator
      BY <3>1, BufferIsFile
    <3>3. Opens(i)
      BY <3>1, <3>2, BeginsIffOpens
    <3>4. i \in Opened
      BY <1>0, <3>3 DEF Opened
    <3> QED BY <3>2, <3>4
  <2>4. Orders(Names, Opened)
    BY Gathering
  <2> HIDE DEF T
  <2>5. \A x : x \in T <=> \E i \in Opened : from[i] = x
    BY <2>2, <2>3
  <2>6. Lists(Names, T)
    BY <2>1, <2>4, <2>5, OrdersLists
  <2> QED BY <2>6 DEF T
<1>3. ASSUME NEW n \in DOMAIN filehead PROVE Lists(Pairs(n), Follow(from[filehead[n].name]))
  <2> DEFINE p == filehead[n].name
  <2>1. p \in DOMAIN head /\ p \in Nat /\ Orders(Pairs(n), Span(p))
    BY <1>0, Gathering
  <2> HIDE DEF p
  <2>2. ASSUME NEW j \in Span(p)
        PROVE  j \in DOMAIN head /\ j > p /\ p <= j /\ Unbroken(p, j) /\ head[j] # Separator
    <3>1. j \in DOMAIN head /\ j > p /\ Unbroken(p, j) /\ j \in 1..at
      BY <1>0 DEF Span
    <3>2. j \in p..j /\ p <= j
      BY <2>1, <3>1
    <3>3. head[j] # Separator
      BY <3>1, <3>2 DEF Unbroken
    <3> QED BY <3>1, <3>2, <3>3
  <2>3. ASSUME NEW j \in Span(p) PROVE from[j] \in Follow(from[p])
    <3>1. Joined(from[p], from[j])
      BY <2>1, <2>2, <2>3, JoinedIffUnbroken
    <3>2. from[j] \in DOMAIN file /\ IsText(from[j])
      BY <2>2, <2>3, BufferIsFile
    <3>3. from[p] < from[j]
      BY <2>1, <2>2, <2>3, BufferIsFile
    <3>4. from[p] \in Nat /\ from[j] \in Nat
      BY <2>1, <2>2, <2>3, BufferIsFile
    <3>5. from[j] > from[p]
      BY <3>3, <3>4
    <3> QED BY <3>1, <3>2, <3>5 DEF Follow
  <2>4. ASSUME NEW x \in Follow(from[p]) PROVE \E j \in Span(p) : from[j] = x
    <3>1. x \in DOMAIN file /\ x > from[p] /\ IsText(x) /\ Joined(from[p], x)
      BY <2>4 DEF Follow
    <3>2. PICK j \in DOMAIN head : from[j] = x
      BY <3>1, BufferIsFile
    <3>3. from[p] \in Nat /\ from[j] \in Nat /\ j \in Nat
      BY <2>1, <3>2, BufferIsFile
    <3>4. from[p] < from[j]
      BY <3>1, <3>2, <3>3
    <3>5. p < j
      BY <2>1, <3>2, <3>4, BufferIsFile
    <3>6. p <= j /\ j > p
      BY <2>1, <3>3, <3>5
    <3>7. Unbroken(p, j)
      BY <2>1, <3>1, <3>2, <3>6, JoinedIffUnbroken
    <3>8. j \in Span(p)
      BY <1>0, <3>2, <3>6, <3>7 DEF Span
    <3> QED BY <3>2, <3>8
  <2>5. \A x : x \in Follow(from[p]) <=> \E j \in Span(p) : from[j] = x
    BY <2>3, <2>4
  <2>6. Lists(Pairs(n), Follow(from[p]))
    BY <2>1, <2>2, <2>5, OrdersLists
  <2> QED BY <2>6 DEF p
<1> QED BY <1>1, <1>2, <1>3

\* The reference depends on the file and the buffer only.
LEMMA SameReference ==
  ASSUME UNCHANGED <<file, head, from>>
  PROVE  /\ WellFormed' <=> WellFormed
         /\ \A x : Begins(x)' <=> Begins(x)
         /\ \A x : Follow(x)' = Follow(x)
         /\ \A s, S : Lists(s, S)' <=> Lists(s, S)
<1>1. \A x : Begins(x)' <=> Begins(x)
  BY SameLines DEF Begins
<1>2. \A x : Follow(x)' = Follow(x)
  BY SameLines DEF Follow
<1>3. WellFormed' <=> WellFormed
  BY <1>1, SameLines DEF WellFormed
<1>4. \A s, S : Lists(s, S)' <=> Lists(s, S)
  BY DEF Lists
<1> QED BY <1>1, <1>2, <1>3, <1>4

LEMMA EndParses == Inv /\ ReadEnd => ParseRight'
<1> SUFFICES ASSUME Inv, ReadEnd PROVE ParseRight'
  OBVIOUS
<1>1. /\ pc = "read" /\ at = Len(head) /\ filehead' = SetDate /\ pc' = "ok"
      /\ UNCHANGED <<file, head, from>>
  BY DEF ReadEnd, fileVars, loadVars
<1>2. /\ DOMAIN filehead' = DOMAIN filehead
      /\ \A n \in DOMAIN filehead : filehead'[n].name = filehead[n].name
      /\ \A n \in DOMAIN filehead : filehead'[n].date = Pairs(n)
  BY <1>1, Gathering, SetDateKeeps DEF Pairs
<1>3. Names' = Names
  BY <1>2 DEF Names
<1>4. WellFormed'
  BY <1>1, AllRead, SameReference
<1>5. Lists(Names, {x \in DOMAIN file : Begins(x)})'
  <2> DEFINE T == {x \in DOMAIN file : Begins(x)}
  <2>1. T' = T
    BY <1>1, SameReference
  <2>2. Lists(Names, T)
    BY <1>1, AllRead
  <2> HIDE DEF T
  <2>3. Lists(Names, T)'
    BY <1>1, <1>3, <2>1, <2>2 DEF Lists
  <2> QED BY <2>3 DEF T
<1>6. ASSUME NEW n \in DOMAIN filehead
      PROVE  Lists(filehead[n].date, Follow(from[filehead[n].name]))'
  <2>1. Follow(from[filehead[n].name])' = Follow(from[filehead[n].name])
    <3>1. (from[filehead[n].name])' = from[filehead[n].name]
      BY <1>1, <1>2, <1>6
    <3>2. \A x : Follow(x)' = Follow(x)
      BY <1>1, SameReference
    <3> QED BY <3>1, <3>2 DEF Follow
  <2>2. Lists(Pairs(n), Follow(from[filehead[n].name]))
    BY <1>1, <1>6, AllRead
  <2> QED BY <1>1, <1>2, <1>6, <2>1, <2>2 DEF Lists
<1> QED BY <1>1, <1>2, <1>4, <1>5, <1>6 DEF ParseRight

\* A string readFile refuses is a line of the file that is no pair and begins no
\* block.
LEMMA BadParses == Inv /\ ReadBad => ParseRight'
<1> SUFFICES ASSUME Inv, ReadBad PROVE ParseRight'
  OBVIOUS
<1> DEFINE i == at + 1
<1>1. /\ pc = "read" /\ at < Len(head) /\ head[i] # Separator /\ ~isnest /\ KindOf[head[i]] # "pair"
      /\ pc' = "bad" /\ UNCHANGED <<file, head, from>>
  BY DEF ReadBad, fileVars, loadVars
<1>2. at \in Nat /\ at # 0 /\ head[at] # Separator /\ i \in DOMAIN head
  BY <1>1, Gathering
<1>3. ~Opens(i)
  BY <1>2 DEF Opens
<1> HIDE DEF i
<1>4. ~Begins(from[i])
  BY <1>1, <1>2, <1>3, BeginsIffOpens
<1>5. from[i] \in DOMAIN file /\ IsText(from[i]) /\ head[i] = file[from[i]]
  BY <1>1, <1>2, BufferIsFile
<1>6. ~WellFormed
  BY <1>1, <1>4, <1>5 DEF WellFormed
<1> QED BY <1>1, <1>6, SameReference DEF ParseRight

\* The steps of readFile and freeFiledate.
LEMMA ReadParses == Inv /\ (ReadStep \/ FreeFiledate) => ParseInv'
<1> SUFFICES ASSUME Inv, ReadStep \/ FreeFiledate PROVE ParseInv'
  OBVIOUS
<1>1. /\ UNCHANGED <<file, ending, pos, iswrite, head, from>>
      /\ pc \in {"read", "ok"} /\ pc' \in {"read", "ok", "bad", "freed"}
  BY DEF ReadStep, ReadSeparator, ReadName, ReadPair, ReadBad, ReadEnd, FreeFiledate, fileVars, loadVars
<1>2. from' \in Seq(Nat) /\ Len(from') = Len(head') /\ pos' = Len(file') /\ ending' # "error"
  BY <1>1 DEF Inv, ParseInv
<1>3. Loaded'
  <2>1. Loaded
    BY <1>1 DEF Inv, ParseInv
  <2> QED BY <1>1, <2>1, SameBuffer
<1>4. pc' = "read" => Collected'
  BY SeparatorCollects, NameCollects, PairCollects DEF ReadStep, ReadBad, ReadEnd, FreeFiledate
<1>5. ParseRight'
  <2>1. CASE ReadEnd
    BY <2>1, EndParses
  <2>2. CASE ReadBad
    BY <2>2, BadParses
  <2>3. CASE ~ReadEnd /\ ~ReadBad
    <3>1. pc' \in {"read", "freed"}
      BY <2>3 DEF ReadStep, ReadSeparator, ReadName, ReadPair, FreeFiledate
    <3> QED BY <3>1 DEF ParseRight
  <2> QED BY <2>1, <2>2, <2>3
<1> QED BY <1>2, <1>3, <1>4, <1>5 DEF ParseInv

LEMMA StutterParses == ParseInv /\ UNCHANGED vars => ParseInv'
<1> SUFFICES ASSUME ParseInv, UNCHANGED vars PROVE ParseInv'
  OBVIOUS
<1>1. UNCHANGED <<file, ending, pc, pos, iswrite, head, from, at, isnest, filehead, onehead>>
  BY DEF vars, fileVars, loadVars, readVars
<1>2. Loaded => Loaded'
  BY <1>1, SameBuffer
<1>3. Collected => Collected'
  BY <1>1 DEF Collected, Unbroken, Opens, Opened, Span, Pairs, Names, Orders
<1>4. ParseRight => ParseRight'
  BY <1>1 DEF ParseRight, WellFormed, Lists, Follow, Begins, Joined, IsText, Blank, Names
<1> QED BY <1>1, <1>2, <1>3, <1>4 DEF ParseInv

LEMMA InitParses == Init => ParseInv
<1> SUFFICES ASSUME Init PROVE ParseInv
  OBVIOUS
<1>1. pc = "open" /\ pos = 0 /\ iswrite = FALSE /\ head = << >> /\ from = << >>
  BY DEF Init
<1>2. from \in Seq(Nat) /\ Len(from) = Len(head) /\ DOMAIN head = {} /\ 1..pos = {}
  BY <1>1
<1>3. Loaded
  BY <1>1, <1>2 DEF Loaded
<1> QED BY <1>1, <1>2, <1>3 DEF ParseInv, ParseRight

\* The inductive invariant of loadFile, readFile and freeFiledate holds for every
\* file: the buffer and its bytes, how it follows the lines read, how the blocks
\* follow the strings passed, and what is allocated for them.
THEOREM ConfInvariant == Spec => []Inv
<1>1. Init => HangInv
  BY EmptySet DEF Init, HangInv, FreedAll, HungOnce
<1>2. Init => TypeOK
  <2> SUFFICES ASSUME Init PROVE TypeOK
    OBVIOUS
  <2>1. BytesInv /\ HeadInv /\ BlockInv
    BY InitConf DEF ConfInv
  <2>2. at \in 0..Len(head) /\ allocated \subseteq 1..at
    BY DEF Init
  <2>3. iswrite \in BOOLEAN /\ isnest \in BOOLEAN /\ pc = "open"
    BY DEF Init
  <2>4. file \in UNION {[1..n -> Line] : n \in 0..MaxLines} /\ ending \in Endings
    BY DEF Init
  <2> QED BY <2>1, <2>2, <2>3, <2>4 DEF TypeOK, BytesInv, HeadInv, BlockInv
<1>3. ConfInv /\ HangInv /\ [Next]_vars => HangInv'
  BY LoadHangs, SeparatorHangs, NameHangs, PairHangs, EndHangs, FreeHangs, StutterHangs
     DEF Next, ReadStep, Returned
<1>4. ConfInv /\ [Next]_vars => ConfInv'
  BY LoadKeeps, ReadKeeps, StutterKeeps DEF Next, Returned
<1>5. Inv /\ [Next]_vars => Inv'
  <2>1. Inv /\ [Next]_vars => ParseInv'
    BY LoadParses, ReadParses, StutterParses DEF Next, Returned, Inv
  <2> QED BY <1>3, <1>4, <2>1, TypeStep DEF Inv
<1>6. Init => Inv
  BY <1>1, <1>2, InitConf, InitParses DEF Inv
<1> QED BY <1>5, <1>6, PTL DEF Spec

-----------------------------------------------------------------------------
\* loadFile never writes past its buffer and the zero byte readFile stops at is
\* inside it, for files of any length, lines of any lengths that fgets can
\* return and any block size from 3 on.
THEOREM BufferAlwaysFits == Spec => []BufferFits
<1>1. ConfInv => BufferFits
  BY DEF ConfInv, BytesInv, BufferFits
<1> QED BY ConfAlways, <1>1, PTL

\* A configuration readFile accepts has at least one block, whatever the file
\* holds: what TimeDaemon assumes of a configuration.
THEOREM AcceptedNotEmpty == Spec => []NeverEmpty
<1>1. ConfInv => NeverEmpty
  BY DEF ConfInv, BlockInv, NeverEmpty
<1> QED BY ConfAlways, <1>1, PTL

\* readFile stays inside the strings loadFile has stored, and its structures are
\* made for strings it has passed.
THEOREM ReadsInside == Spec => []TypeOK
<1>1. Inv => TypeOK
  BY DEF Inv
<1> QED BY ConfInvariant, <1>1, PTL

\* freeFiledate leaves nothing of an accepted configuration allocated, and a
\* refused one leaves at most the pairs of the block with the bad line.
THEOREM FreesAll == Spec => []FreedAll
<1>1. Inv => FreedAll
  BY DEF Inv, HangInv
<1> QED BY ConfInvariant, <1>1, PTL

\* No structure of an accepted configuration is freed twice.
THEOREM FreesOnce == Spec => []HungOnce
<1>1. Inv => HungOnce
  BY DEF Inv, HangInv
<1> QED BY ConfInvariant, <1>1, PTL

\* The configuration the daemon works with is the one in the file, for every
\* file: the blocks of its complete lines, in order and each once; and a file
\* readFile refuses has a line that is no pair where a pair is expected.
THEOREM ParsesRight == Spec => []ParseRight
<1>1. Inv => ParseRight
  BY DEF Inv, ParseInv
<1> QED BY ConfInvariant, <1>1, PTL

=============================================================================
