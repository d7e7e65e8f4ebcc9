------------------------------ MODULE ConfFile ------------------------------
(***************************************************************************)
(* The configuration file of the daemon: loadFile, which copies the lines  *)
(* of the file into one growing buffer, and readFile and fetchInf, which   *)
(* split that buffer into blocks of key:value pairs, of src/main.c.        *)
(*                                                                         *)
(* A line is what one fgets returns and trimspace leaves of it; what counts*)
(* is its kind and its length.  The buffer is the sequence of the strings  *)
(* stored in it, each followed by a zero byte.  A filedate or onedate      *)
(* structure is known by the string in the buffer it was made for, to      *)
(* which a onedate points.                                                 *)
(***************************************************************************)
EXTENDS Integers, Sequences, SequencesExt

CONSTANTS
  Line,      \* the lines
  KindOf,    \* KindOf[l]: blank, comment (//), pair (key:value), other
  LenOf,     \* LenOf[l]: its length
  MaxLines,  \* lines of the longest file
  Block      \* bytes by which the buffer grows, and of fgets' buffer

Kinds == {"blank", "comment", "pair", "other"}

ASSUME BlockAssumption == Block \in Nat /\ Block >= 3
ASSUME MaxLinesAssumption == MaxLines \in Nat
\* fgets is given one byte less than its buffer has, and keeps one for the 0.
ASSUME LineAssumption ==
  /\ KindOf \in [Line -> Kinds]
  /\ LenOf \in [Line -> 0..(Block - 2)]
  /\ \A l \in Line : LenOf[l] = 0 <=> KindOf[l] = "blank"

\* How the file ends: behind a newline, in the middle of a line, or with reads
\* that fail and never report the end of the file.
Endings == {"newline", "partial", "error"}

\* The entry that separates two blocks in the buffer, a single space.
Separator == " "

ASSUME SeparatorAssumption == Separator \notin Line

VARIABLES
  file, ending,      \* the complete lines of the file, and what follows them
  pos,               \* lines read
  pc,
  iswrite,           \* the last line stored was not a separator
  head,              \* the strings in the buffer
  from,              \* history: the line of the file each of them was stored for
  wherenow, maxsize, \* bytes used and allocated
  at,                \* strings readFile has passed
  isnest,            \* the next string is the name of a block
  filehead,          \* the blocks: name and date, the pairs
  onehead,           \* the pairs of the block being read
  allocated          \* the filedate and onedate structures not freed

fileVars == <<file, ending>>
loadVars == <<pos, iswrite, head, from, wherenow, maxsize>>
readVars == <<at, isnest, filehead, onehead, allocated>>
vars == <<fileVars, pc, loadVars, readVars>>

Init ==
  /\ file \in UNION {[1..n -> Line] : n \in 0..MaxLines} /\ ending \in Endings
  /\ pc = "open" /\ pos = 0 /\ iswrite = FALSE
  /\ head = << >> /\ from = << >> /\ wherenow = 0 /\ maxsize = 0
  /\ at = 0 /\ isnest = TRUE /\ filehead = << >> /\ onehead = << >>
  /\ allocated = {}

-----------------------------------------------------------------------------
(***************************************************************************)
(* loadFile.                                                               *)
(***************************************************************************)
\* fopen and the first malloc, or a NULL result.
Open ==
  /\ pc = "open"
  /\ \/ maxsize' = Block /\ pc' = "fgets"
     \/ maxsize' = maxsize /\ pc' = "null"
  /\ UNCHANGED <<fileVars, pos, iswrite, head, from, wherenow, readVars>>

\* The rest of the buffer is too small for a string of length n (mutant: the
\* zero byte that ends the buffer is forgotten).
NoRoomExact(n) == n > maxsize - wherenow - 1
NoRoom(n) == n >= maxsize - wherenow - 1

\* Store a string of length n, in a larger copy of the buffer if need be; the
\* larger buffer may not be available, and loadFile then returns NULL.
Store(e, n) ==
  \/ /\ maxsize' = IF NoRoom(n) THEN maxsize + Block ELSE maxsize
     /\ head' = Append(head, e) /\ from' = Append(from, pos + 1)
     /\ wherenow' = wherenow + n + 1
     /\ pc' = pc
  \/ /\ NoRoom(n) /\ pc' = "null"
     /\ maxsize' = maxsize + Block
     /\ UNCHANGED <<head, from, wherenow>>

\* A comment, or a blank line that follows no text, is skipped.
SkipLine ==
  /\ pc = "fgets" /\ pos < Len(file)
  /\ LET c == KindOf[file[pos + 1]] IN c = "comment" \/ (c = "blank" /\ ~iswrite)
  /\ pos' = pos + 1
  /\ UNCHANGED <<fileVars, pc, iswrite, head, from, wherenow, maxsize, readVars>>

\* The first blank line after text is stored as a separator.
StoreBlank ==
  /\ pc = "fgets" /\ pos < Len(file)
  /\ KindOf[file[pos + 1]] = "blank" /\ iswrite
  /\ pos' = pos + 1 /\ iswrite' = FALSE
  /\ Store(Separator, 1)
  /\ UNCHANGED <<fileVars, readVars>>

StoreLine ==
  /\ pc = "fgets" /\ pos < Len(file)
  /\ KindOf[file[pos + 1]] \in {"pair", "other"}
  /\ pos' = pos + 1 /\ iswrite' = TRUE
  /\ Store(file[pos + 1], LenOf[file[pos + 1]])
  /\ UNCHANGED <<fileVars, readVars>>

\* A failed read leaves the line empty and is not the end of the file: the loop
\* takes it for a blank line, again and again.
ReadFails ==
  /\ pc = "fgets" /\ pos = Len(file) /\ ending = "error"
  /\ iswrite' = FALSE
  /\ IF iswrite THEN Store(Separator, 1) ELSE UNCHANGED <<pc, head, from, wherenow, maxsize>>
  /\ UNCHANGED <<fileVars, pos, readVars>>

\* Whether loadFile found any text (mutant: not asked).
AnyText == TRUE
HasText == wherenow # 0

\* The end of the file.  The text of a line without a newline has been read at
\* that point and is dropped.
Eof ==
  /\ pc = "fgets" /\ pos = Len(file) /\ ending # "error"
  /\ pc' = IF HasText THEN "read" ELSE "null"
  /\ UNCHANGED <<fileVars, loadVars, readVars>>

-----------------------------------------------------------------------------
(***************************************************************************)
(* readFile, fetchInf and freeFiledate.                                    *)
(***************************************************************************)
\* Hang the pairs read so far on the last block.
SetDate == [filehead EXCEPT ![Len(filehead)].date = onehead]

\* Mutants: the string is not passed, or one more is.
StayAt == at
SkipAt == at + 2
NextAt == at + 1

\* A separator ends the block.
ReadSeparator ==
  /\ pc = "read" /\ at < Len(head) /\ head[at + 1] = Separator
  /\ filehead' = SetDate
  /\ isnest' = TRUE
  /\ at' = NextAt
  /\ UNCHANGED <<fileVars, pc, loadVars, onehead, allocated>>

\* Mutant: the list of pairs is not emptied for the new block.
ReadNameKeeps ==
  /\ pc = "read" /\ at < Len(head) /\ head[at + 1] # Separator /\ isnest
  /\ isnest' = FALSE
  /\ filehead' = Append(filehead, [name |-> at + 1, date |-> << >>])
  /\ at' = at + 1
  /\ allocated' = allocated \cup {at + 1}
  /\ UNCHANGED <<fileVars, pc, loadVars, onehead>>

\* The first string of a block is its name.
ReadName ==
  /\ pc = "read" /\ at < Len(head) /\ head[at + 1] # Separator /\ isnest
  /\ isnest' = FALSE
  /\ filehead' = Append(filehead, [name |-> at + 1, date |-> << >>])
  /\ onehead' = << >>
  /\ at' = at + 1
  /\ allocated' = allocated \cup {at + 1}
  /\ UNCHANGED <<fileVars, pc, loadVars>>

\* fetchInf takes every other string, if it is a pair.
ReadPair ==
  /\ pc = "read" /\ at < Len(head) /\ head[at + 1] # Separator /\ ~isnest
  /\ KindOf[head[at + 1]] = "pair"
  /\ onehead' = Append(onehead, at + 1)
  /\ at' = at + 1
  /\ allocated' = allocated \cup {at + 1}
  /\ UNCHANGED <<fileVars, pc, loadVars, isnest, filehead>>

\* The structures freeFiledate frees: each block and the pairs hung on it
\* (mutant: the blocks only).
FreedBlock(b) == {b.name}
Freed(b) == {b.name} \cup ToSet(b.date)

Structures(bs) == UNION {Freed(bs[n]) : n \in DOMAIN bs}

\* A string that is no pair is an error.  The blocks are freed; the pairs of
\* the block being read are not hung on it yet and stay allocated.
ReadBad ==
  /\ pc = "read" /\ at < Len(head) /\ head[at + 1] # Separator /\ ~isnest
  /\ KindOf[head[at + 1]] # "pair"
  /\ allocated' = allocated \ Structures(filehead)
  /\ filehead' = << >>
  /\ pc' = "bad"
  /\ UNCHANGED <<fileVars, loadVars, at, isnest, onehead>>

\* The zero byte behind the last string ends the buffer.
ReadEnd ==
  /\ pc = "read" /\ at = Len(head)
  /\ filehead' = SetDate
  /\ pc' = "ok"
  /\ UNCHANGED <<fileVars, loadVars, at, isnest, onehead, allocated>>

\* gameover frees the configuration with freeFiledate.
FreeFiledate ==
  /\ pc = "ok"
  /\ allocated' = allocated \ Structures(filehead)
  /\ filehead' = << >>
  /\ pc' = "freed"
  /\ UNCHANGED <<fileVars, loadVars, at, isnest, onehead>>

Returned == pc \in {"null", "bad", "freed"} /\ UNCHANGED vars

LoadStep == Open \/ SkipLine \/ StoreBlank \/ StoreLine \/ ReadFails \/ Eof
ReadStep == ReadSeparator \/ ReadName \/ ReadPair \/ ReadBad \/ ReadEnd

Next == LoadStep \/ ReadStep \/ FreeFiledate \/ Returned

Spec == Init /\ [][Next]_vars

\* The functions run without waiting for anything.
FairSpec == Spec /\ WF_vars(LoadStep \/ ReadStep)

=============================================================================
