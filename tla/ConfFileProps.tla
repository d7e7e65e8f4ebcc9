--------------------------- MODULE ConfFileProps ----------------------------
(***************************************************************************)
(* What loadFile and readFile promise together.                            *)
(***************************************************************************)
EXTENDS ConfFile

TypeOK ==
  /\ file \in UNION {[1..n -> Line] : n \in 0..MaxLines} /\ ending \in Endings
  /\ pos \in 0..Len(file) /\ iswrite \in BOOLEAN /\ isnest \in BOOLEAN
  /\ pc \in {"open", "fgets", "null", "read", "bad", "ok", "freed"}
  /\ head \in Seq(Line \cup {Separator}) /\ at \in 0..Len(head)
  /\ wherenow \in Nat /\ maxsize \in Nat /\ allocated \subseteq 1..at
  /\ filehead \in Seq([name : Nat, date : Seq(Nat)]) /\ onehead \in Seq(Nat)

-----------------------------------------------------------------------------
(***************************************************************************)
(* The reference, by the numbers of the lines: the blocks of a file are    *)
(* its maximal runs of lines that are not blank, comments left out.        *)
(***************************************************************************)
Blank(x)  == KindOf[file[x]] = "blank"
IsText(x) == KindOf[file[x]] \in {"pair", "other"}

\* No blank line comes between lines x and y.
Joined(x, y) == \A z \in x..y : ~Blank(z)

\* Line x is the first of a block.
Begins(x) == IsText(x) /\ \A y \in 1..(x - 1) : IsText(y) => ~Joined(y, x)

\* The lines of the block that begins with line x, without x.
Follow(x) == {y \in DOMAIN file : y > x /\ IsText(y) /\ Joined(x, y)}

\* Every line of a block but the first is a pair.
WellFormed == \A x \in DOMAIN file : IsText(x) /\ ~Begins(x) => KindOf[file[x]] = "pair"

\* The strings at the positions in s are those stored for the lines in S, each
\* once and in the order of the file.
Lists(s, S) ==
  /\ \A i, j \in DOMAIN s : i < j => from[s[i]] < from[s[j]]
  /\ {from[s[i]] : i \in DOMAIN s} = S
  /\ \A i \in DOMAIN s : head[s[i]] = file[from[s[i]]]

Names == [n \in DOMAIN filehead |-> filehead[n].name]

-----------------------------------------------------------------------------
\* The configuration the daemon works with is the one in the file: the blocks,
\* their names and their pairs in order, from the complete lines of the file.
\* A file with a bad line is refused.
ParseRight ==
  /\ pc = "ok" => /\ WellFormed
                  /\ Lists(Names, {x \in DOMAIN file : Begins(x)})
                  /\ \A n \in DOMAIN filehead :
                       Lists(filehead[n].date, Follow(from[filehead[n].name]))
  /\ pc = "bad" => ~WellFormed

\* A configuration that is accepted has a block: main looks at readFile's result
\* only, and TimeDaemon takes a configuration to be a non-empty sequence.
NeverEmpty == pc = "ok" => filehead # << >>

\* The zero byte that ends the buffer is inside it, however the lengths of the
\* lines fall on the sizes of the buffer: readFile stops there.
BufferFits == pc \in {"fgets", "read"} => wherenow < maxsize

\* Freeing an accepted configuration frees everything that was allocated for it.
\* What readFile leaves allocated when it refuses a file are at most the pairs of
\* the block it was reading, which it had not hung on the block yet.
FreedAll ==
  /\ pc = "freed" => allocated = {}
  /\ pc = "bad" => allocated \subseteq ToSet(onehead)

\* No structure of an accepted configuration is hung in two places: freeFiledate
\* frees none twice.
HungOnce ==
  pc = "ok" => \A m, n \in DOMAIN filehead :
                 m # n => Freed(filehead[m]) \cap Freed(filehead[n]) = {}

\* Unless reads fail, loadFile and readFile return.
Terminates == (pc = "open" /\ ending # "error") ~> (pc \in {"null", "bad", "ok"})

-----------------------------------------------------------------------------
(***************************************************************************)
(* The inductive invariant of BufferFits and NeverEmpty.                   *)
(***************************************************************************)
BytesInv ==
  /\ file \in Seq(Line) /\ pos \in 0..Len(file)
  /\ wherenow \in Nat /\ maxsize \in Nat
  /\ pc \in {"fgets", "read"} => wherenow < maxsize

\* The buffer starts with a text, not with a separator.
HeadInv ==
  /\ head \in Seq(Line \cup {Separator})
  /\ wherenow # 0 => head # << >>
  /\ pc = "open" => wherenow = 0 /\ iswrite = FALSE
  /\ pc = "fgets" /\ iswrite => head # << >>
  /\ head # << >> => head[1] # Separator

\* readFile has made a block as soon as it has passed a string.
BlockInv ==
  /\ at \in Nat /\ filehead \in Seq([name : Nat, date : Seq(Nat)])
  /\ onehead \in Seq(Nat)
  /\ pc \in {"open", "fgets", "null"} => at = 0 /\ isnest
  /\ pc = "read" => head # << >>
  /\ pc \in {"read", "ok"} => (at = 0 /\ isnest /\ pc = "read") \/ filehead # << >>

ConfInv == BytesInv /\ HeadInv /\ BlockInv

-----------------------------------------------------------------------------
(***************************************************************************)
(* The inductive invariant of FreedAll and HungOnce.                       *)
(***************************************************************************)
\* The structures block n holds, the pairs still to be hung on it included.
Held(n) == Freed(filehead[n]) \cup (IF n = Len(filehead) THEN ToSet(onehead) ELSE {})

\* While readFile reads, what is allocated hangs on a block or will; the pairs
\* are hung on the last block as soon as the next string is a name.
HangInv ==
  /\ pc \in {"open", "fgets", "null"} => allocated = {} /\ filehead = << >> /\ onehead = << >>
  /\ pc = "read" =>
       /\ allocated = Structures(filehead) \cup ToSet(onehead)
       /\ filehead = << >> => onehead = << >>
       /\ filehead # << >> => filehead[Len(filehead)].date = IF isnest THEN onehead ELSE << >>
       /\ \A m, n \in DOMAIN filehead : m # n => Held(m) \cap Held(n) = {}
  /\ pc = "ok" => allocated = Structures(filehead)
  /\ allocated \subseteq 1..at /\ FreedAll /\ HungOnce

-----------------------------------------------------------------------------
(***************************************************************************)
(* The inductive invariant of ParseRight.                                  *)
(***************************************************************************)
\* No separator comes between strings i and j of the buffer; string i is the
\* first of a block.
Unbroken(i, j) == \A k \in i..j : head[k] # Separator
Opens(i) == head[i] # Separator /\ (i > 1 => head[i - 1] = Separator)

\* Of the strings passed, the names, and those that follow the name at p.
Opened  == {i \in 1..at : Opens(i)}
Span(p) == {j \in 1..at : j > p /\ Unbroken(p, j)}

\* The buffer holds the text of the lines read so far, with a separator where
\* blank lines come between them.
Loaded ==
  /\ \A i \in DOMAIN head : /\ from[i] \in 1..pos
                            /\ IF head[i] = Separator THEN Blank(from[i])
                               ELSE IsText(from[i]) /\ head[i] = file[from[i]]
  /\ \A i, j \in DOMAIN head : i < j => from[i] < from[j]
  /\ \A i, j \in DOMAIN head : i <= j /\ Unbroken(i, j) => Joined(from[i], from[j])
  /\ \A x \in 1..pos : IsText(x) => \E i \in DOMAIN head : from[i] = x
  /\ pc \in {"open", "fgets"} =>
       /\ iswrite <=> head # << >> /\ head[Len(head)] # Separator
       /\ iswrite => Joined(from[Len(head)], pos)

\* The pairs block n has got so far.
Pairs(n) == IF n = Len(filehead) THEN onehead ELSE filehead[n].date

\* The positions in s are those of the set S, in order.
Orders(s, S) == (\A i, j \in DOMAIN s : i < j => s[i] < s[j]) /\ {s[i] : i \in DOMAIN s} = S

\* The structures made so far are those of the strings passed so far.
Collected ==
  /\ isnest <=> at = 0 \/ head[at] = Separator
  /\ ~isnest => Unbroken(filehead[Len(filehead)].name, at)
  /\ Orders(Names, Opened)
  /\ \A n \in DOMAIN filehead : Orders(Pairs(n), Span(filehead[n].name))
  /\ \A i \in 1..at : head[i] # Separator /\ ~Opens(i) => KindOf[head[i]] = "pair"

ParseInv ==
  /\ from \in Seq(Nat) /\ Len(from) = Len(head)
  /\ pc \in {"read", "ok", "bad", "freed"} => pos = Len(file) /\ ending # "error"
  /\ pc # "null" /\ ending # "error" => Loaded
  /\ pc = "read" => Collected
  /\ ParseRight

Inv == TypeOK /\ ConfInv /\ HangInv /\ ParseInv

=============================================================================
