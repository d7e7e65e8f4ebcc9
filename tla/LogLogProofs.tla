---------------------------- MODULE LogLogProofs ----------------------------
(***************************************************************************)
(* The log library keeps its promises however its calls nest: for every    *)
(* number of lines, every size and every clock.                            *)
(***************************************************************************)
EXTENDS LogLog, SequenceTheorems, TLAPS

-----------------------------------------------------------------------------
(***************************************************************************)
(* Sequences.                                                              *)
(***************************************************************************)
LEMMA AppendSeq ==
  ASSUME NEW S, NEW s \in Seq(S), NEW x \in S
  PROVE  /\ Append(s, x) \in Seq(S) /\ Len(Append(s, x)) = Len(s) + 1
         /\ Append(s, x)[Len(s) + 1] = x
         /\ \A p \in 1..Len(s) : Append(s, x)[p] = s[p]
         /\ \A y : y \in ToSet(Append(s, x)) <=> y \in ToSet(s) \/ y = x
<1>1. /\ Append(s, x) \in Seq(S) /\ Len(Append(s, x)) = Len(s) + 1
      /\ Append(s, x)[Len(s) + 1] = x
      /\ \A p \in 1..Len(s) : Append(s, x)[p] = s[p]
  BY AppendProperties
<1>2. DOMAIN s = 1..Len(s) /\ DOMAIN Append(s, x) = 1..(Len(s) + 1) /\ Len(s) \in Nat
  BY <1>1, LenProperties
<1>3. \A p \in DOMAIN Append(s, x) : p \in DOMAIN s \/ p = Len(s) + 1
  BY <1>2
<1>4. Len(s) + 1 \in DOMAIN Append(s, x) /\ \A p \in DOMAIN s : p \in DOMAIN Append(s, x)
  BY <1>2
<1>5. \A y : y \in ToSet(Append(s, x)) => y \in ToSet(s) \/ y = x
  BY <1>1, <1>2, <1>3 DEF ToSet
<1>6. \A y : y \in ToSet(s) \/ y = x => y \in ToSet(Append(s, x))
  BY <1>1, <1>2, <1>4 DEF ToSet
<1> QED BY <1>1, <1>5, <1>6

LEMMA ConcatSeq ==
  ASSUME NEW S, NEW s \in Seq(S), NEW t \in Seq(S)
  PROVE  /\ s \o t \in Seq(S) /\ Len(s \o t) = Len(s) + Len(t)
         /\ \A y : y \in ToSet(s \o t) <=> y \in ToSet(s) \/ y \in ToSet(t)
<1>1. /\ s \o t \in Seq(S) /\ Len(s \o t) = Len(s) + Len(t)
      /\ \A p \in 1..(Len(s) + Len(t)) :
           (s \o t)[p] = IF p <= Len(s) THEN s[p] ELSE t[p - Len(s)]
  BY ConcatProperties
<1>2. /\ DOMAIN s = 1..Len(s) /\ DOMAIN t = 1..Len(t) /\ DOMAIN (s \o t) = 1..(Len(s) + Len(t))
      /\ Len(s) \in Nat /\ Len(t) \in Nat
  BY <1>1, LenProperties
<1>3. ASSUME NEW y, y \in ToSet(s \o t)
      PROVE  y \in ToSet(s) \/ y \in ToSet(t)
  <2>1. PICK p \in DOMAIN (s \o t) : y = (s \o t)[p]
    BY <1>3 DEF ToSet
  <2>2. CASE p <= Len(s)
    <3>1. p \in DOMAIN s /\ y = s[p]
      BY <1>1, <1>2, <2>1, <2>2
    <3> QED BY <3>1 DEF ToSet
  <2>3. CASE ~(p <= Len(s))
    <3>1. p - Len(s) \in DOMAIN t /\ y = t[p - Len(s)]
      BY <1>1, <1>2, <2>1, <2>3
    <3> QED BY <3>1 DEF ToSet
  <2> QED BY <2>2, <2>3
<1>4. ASSUME NEW y, y \in ToSet(s)
      PROVE  y \in ToSet(s \o t)
  <2>1. PICK p \in DOMAIN s : y = s[p]
    BY <1>4 DEF ToSet
  <2>2. p \in DOMAIN (s \o t) /\ y = (s \o t)[p]
    BY <1>1, <1>2, <2>1
  <2> QED BY <2>2 DEF ToSet
<1>5. ASSUME NEW y, y \in ToSet(t)
      PROVE  y \in ToSet(s \o t)
  <2>1. PICK p \in DOMAIN t : y = t[p]
    BY <1>5 DEF ToSet
  <2>2. Len(s) + p \in DOMAIN (s \o t) /\ y = (s \o t)[Len(s) + p]
    BY <1>1, <1>2, <2>1
  <2> QED BY <2>2 DEF ToSet
<1> QED BY <1>1, <1>3, <1>4, <1>5

LEMMA FrontSeq ==
  ASSUME NEW S, NEW s \in Seq(S), Len(s) >= 1
  PROVE  /\ Front(s) \in Seq(S) /\ Len(Front(s)) = Len(s) - 1
         /\ \A p \in 1..(Len(s) - 1) : Front(s)[p] = s[p]
         /\ \A y : y \in ToSet(s) <=> y \in ToSet(Front(s)) \/ y = s[Len(s)]
<1>1. Len(s) \in Nat /\ DOMAIN s = 1..Len(s)
  BY LenProperties
<1>2. /\ Front(s) \in Seq(S) /\ Len(Front(s)) = Len(s) - 1
      /\ \A p \in 1..(Len(s) - 1) : Front(s)[p] = s[p]
  BY <1>1 DEF Front
<1>3. DOMAIN Front(s) = 1..(Len(s) - 1)
  BY <1>2, LenProperties
<1>4. \A p \in DOMAIN s : p \in DOMAIN Front(s) \/ p = Len(s)
  BY <1>1, <1>3
<1>5. Len(s) \in DOMAIN s /\ \A p \in DOMAIN Front(s) : p \in DOMAIN s
  BY <1>1, <1>3
<1>6. \A y : y \in ToSet(s) => y \in ToSet(Front(s)) \/ y = s[Len(s)]
  BY <1>2, <1>3, <1>4 DEF ToSet
<1>7. \A y : y \in ToSet(Front(s)) \/ y = s[Len(s)] => y \in ToSet(s)
  BY <1>2, <1>3, <1>5 DEF ToSet
<1> QED BY <1>2, <1>6, <1>7

LEMMA EmptyLine == << >> \in Seq(Line) /\ Len(<< >>) = 0 /\ \A y : y \notin ToSet(<< >>)
BY DEF ToSet

\* A sequence without elements is the empty one.
LEMMA NoneWaits ==
  ASSUME NEW s \in Seq(Line), Len(s) = 0
  PROVE  s = << >>
BY EmptySeq

-----------------------------------------------------------------------------
(***************************************************************************)
(* Sizes.                                                                  *)
(***************************************************************************)
LEMMA Lengths == LineLen \in Nat /\ LineLen >= 1 /\ Kb \in Nat /\ Kb >= 1 /\ LineLen < Kb
BY SizeAssumption

\* Fewer lines fit where more do.
LEMMA FitsLess ==
  ASSUME NEW n \in Nat, NEW m \in Nat, n <= m, maxsize \in Int, old \in Nat, Fits(m)
  PROVE  Fits(n)
<1>1. n * LineLen <= m * LineLen /\ n * LineLen \in Nat /\ m * LineLen \in Nat
  BY Lengths
<1> QED BY <1>1, Lengths DEF Fits

\* Three lines fit on top of a file below the limit of isneedcp.
LEMMA FitsThree ==
  ASSUME NEW n \in Nat, maxsize \in Int, ~(n * LineLen >= Limit)
  PROVE  Fits(n + 3)
<1>1. (n + 3) * LineLen = n * LineLen + 3 * LineLen /\ n * LineLen \in Nat
  BY Lengths
<1> QED BY <1>1, Lengths DEF Fits, Limit

\* A size that fits is one an int can hold.
LEMMA SmallSize ==
  ASSUME Len(main) \in Nat, old \in Nat, maxsize \in Int, maxsize <= Kb * Kb, Rotates,
         Fits(Len(main))
  PROVE  AsInt(Size) = Len(main) * LineLen
<1> DEFINE n == Len(main)
<1>1. n * LineLen \in Nat /\ old * LineLen \in Nat /\ (n <= old => n * LineLen <= old * LineLen)
  BY Lengths
<1>2. Kb * Kb \in Nat /\ Half \in Nat /\ Kb * Kb + 2 * LineLen < Half
  BY Lengths, IntAssumption
<1>3. n * LineLen < Half
  <2>1. CASE n * LineLen <= maxsize + 2 * LineLen
    BY <1>1, <1>2, <2>1, Lengths
  <2>2. CASE n <= old
    BY <1>1, <1>2, <2>2, Lengths DEF Rotates
  <2> QED BY <2>1, <2>2 DEF Fits
<1> QED BY <1>3 DEF AsInt, Size

\* With rotation on, three lines fit in an empty file.
LEMMA FitsEmpty ==
  ASSUME NEW n \in 0..3, maxsize \in Int, Rotates
  PROVE  Fits(n)
<1>1. n * LineLen <= 3 * LineLen
  BY Lengths
<1> QED BY <1>1, Lengths DEF Fits, Rotates

\* What an earlier run has left counts as a size that fits.
LEMMA OldFits ==
  ASSUME LogInv, Len(main) = old, Len(buf) = 0, Count("write") = 0
  PROVE  Len(main) + Len(buf) + Count("write") <= old
<1>1. old \in Nat
  BY IntAssumption DEF LogInv, TypeOK
<1> QED BY <1>1

LEMMA NothingFits ==
  ASSUME NEW m \in Int, m >= Kb
  PROVE  0 * LineLen <= m + 2 * LineLen
BY Lengths

LEMMA Clamped ==
  ASSUME NEW size \in Int
  PROVE  Clamp(size) * Kb \in Int /\ Clamp(size) * Kb <= Kb * Kb
<1>1. Clamp(size) \in Int /\ Clamp(size) <= Kb
  BY Lengths DEF Clamp
<1> QED BY <1>1, Lengths

\* The frames at label l after one of them has moved.
LEMMA CountMoves ==
  ASSUME NEW c \in Frames, NEW l \in Pcs, NEW m \in Pcs, pc \in [Frames -> Pcs], Goto(c, m)
  PROVE  Count(l)' = Count(l) - (IF pc[c] = l THEN 1 ELSE 0) + (IF m = l THEN 1 ELSE 0)
BY DEF Goto, Count, Frames, Handlers

\* No frame is at two labels.
LEMMA Counts ==
  ASSUME pc \in [Frames -> Pcs]
  PROVE  /\ Count("write") \in 0..3 /\ Count("flush") \in 0..3
         /\ Count("write") + Count("flush") <= 3
         /\ \A c \in Frames : pc[c] \notin {"write", "flush"} => Count("write") + Count("flush") <= 2
         /\ Count("flush") > 0 => \E c \in Frames : pc[c] = "flush"
         /\ (\A c \in Frames : ~InLog(c)) => Count("write") = 0 /\ Count("flush") = 0
BY DEF Count, Frames, Handlers, InLog

-----------------------------------------------------------------------------
(***************************************************************************)
(* What the steps share.                                                   *)
(***************************************************************************)
LEMMA InitInv == Init => LogInv
<1> SUFFICES ASSUME Init PROVE LogInv
  OBVIOUS
<1>1. stack \in Seq(Frames) /\ Len(stack) = 1 /\ stack[1] = "main" /\ DOMAIN stack = {1}
  BY DEF Init, Frames
<1>2. TypeOK
  <2>1. /\ stack \in Seq(Frames) /\ Len(stack) >= 1 /\ stack[1] = "main" /\ IsInjective(stack)
    BY <1>1 DEF IsInjective
  <2>2. /\ main \in Seq(Line) /\ buf \in Seq(Line) /\ rotated \in [Second -> Seq(Line)]
    <3>1. old \in Nat /\ 0 \in Line
      BY IntAssumption, BoundAssumption DEF Init, Line
    <3>2. main \in Seq(Line)
      BY <3>1 DEF Init
    <3> QED BY <3>2, EmptyLine DEF Init
  <2>3. 0 <= Kb * Kb /\ 0 \in 0..(MaxLines + 1) /\ 1 \in Second /\ 0 \in 0..MaxTime
    BY BoundAssumption, Lengths DEF Second
  <2>4. pc \in [Frames -> Pcs] /\ line \in [Frames -> 0..(MaxLines + 1)] /\ name \in [Frames -> 0..MaxTime]
    BY <2>3 DEF Init, Pcs
  <2>5. /\ status \in {"running", "exited", "undefined"} /\ now \in Second /\ tim \in 0..MaxTime
        /\ tzlock \in Frames \cup {"none"} /\ ld \in {"none", "live", "freed"}
        /\ fg \in {"null", "open", "closed"} /\ maxsize \in Int /\ maxsize <= Kb * Kb
        /\ calls \in 0..(MaxLines + 1)
    BY <2>3 DEF Init
  <2>6. accepted \subseteq Line /\ clash \in BOOLEAN /\ failed \subseteq {"stat", "rename", "reopen"}
        /\ old \in OldLines
    BY DEF Init
  <2> QED BY <2>1, <2>2, <2>4, <2>5, <2>6 DEF TypeOK
<1>3. FrameInv /\ NameInv /\ FileInv
  <2>1. old \in Nat /\ Len(main) = old
    BY IntAssumption DEF Init
  <2>2. FrameInv /\ NameInv
    BY <1>1, BoundAssumption DEF Init, FrameInv, NameInv, InLog, Frames, Handlers
  <2>3. FileInv
    BY <2>1 DEF Init, FileInv, InLog, Frames, Handlers, Window
  <2> QED BY <2>2, <2>3
<1>4. BufInv
  BY EmptyLine DEF Init, BufInv, Count, Frames, Handlers
<1>5. SizeInv
  BY Lengths DEF Init, SizeInv, Rotates
<1>6. LinesKept /\ OneWindow
  BY DEF Init, LinesKept, OneWindow
<1> QED BY <1>2, <1>3, <1>4, <1>5, <1>6 DEF LogInv

\* The running frame is active.
LEMMA TopActive ==
  ASSUME LogInv
  PROVE  /\ Len(stack) \in Nat /\ DOMAIN stack = 1..Len(stack) /\ Len(stack) \in DOMAIN stack
         /\ Top = stack[Len(stack)] /\ Top \in Frames /\ Top \in ToSet(stack)
<1>1. stack \in Seq(Frames) /\ Len(stack) >= 1
  BY DEF LogInv, TypeOK
<1>2. Len(stack) \in Nat /\ DOMAIN stack = 1..Len(stack) /\ Len(stack) \in DOMAIN stack
  BY <1>1
<1>3. stack[Len(stack)] \in Frames
  BY <1>1, <1>2
<1> QED BY <1>2, <1>3 DEF Top, ToSet

\* What a frame knows at a label.
LEMMA Here ==
  ASSUME LogInv, NEW c \in Frames, NEW l, At(c, l)
  PROVE  /\ status = "running" /\ Top = c /\ pc[c] = l /\ ld \in {"live", "freed"}
         /\ l \notin {"out", "localtime", "release"} => ld = "live"
         /\ l \in {"close", "write", "flush"} => fg = "open"
BY DEF LogInv, TypeOK, At, Undefined

\* While the running frame is in logInf no other one is without a FILE.
LEMMA OthersHaveFile ==
  ASSUME LogInv, InLog(Top)
  PROVE  \A d \in Frames : d # Top => pc[d] \notin {"rename", "reopen"}
<1> SUFFICES ASSUME NEW d \in Frames, d # Top, pc[d] \in {"rename", "reopen"}
             PROVE  FALSE
  OBVIOUS
<1>1. d \in ToSet(stack)
  BY DEF LogInv, FrameInv, InLog
<1>2. PICK p \in DOMAIN stack : d = stack[p]
  BY <1>1 DEF ToSet
<1>3. p < Len(stack)
  BY <1>2, TopActive
<1>4. ~InLog(stack[Len(stack)])
  BY <1>2, <1>3, TopActive DEF LogInv, FrameInv
<1> QED BY <1>4, TopActive

\* A step of the running frame inside logInf leaves the frames in order.
LEMMA FrameMoves ==
  ASSUME LogInv, NEW c \in Frames, NEW l \in Pcs, Top = c, InLog(c), Goto(c, l),
         UNCHANGED <<stack, line, calls>>
  PROVE  FrameInv'
<1>1. pc \in [Frames -> Pcs] /\ stack \in Seq(Frames) /\ IsInjective(stack)
  BY DEF LogInv, TypeOK
<1>2. pc'[c] = l /\ \A d \in Frames : d # c => pc'[d] = pc[d]
  BY <1>1 DEF Goto
<1>3. (\A d \in Frames : InLog(d) => d \in ToSet(stack) /\ line[d] # 0)'
  BY <1>2 DEF LogInv, FrameInv, InLog, ToSet
<1>4. ASSUME NEW p \in DOMAIN stack, NEW q \in DOMAIN stack, p < q
      PROVE  pc'[stack[p]] \notin {"rename", "reopen"}
  <2>1. p # Len(stack)
    BY <1>4, TopActive
  <2>2. stack[p] # c /\ stack[p] \in Frames
    BY <2>1, <1>1, TopActive DEF IsInjective
  <2> QED BY <1>2, <2>2, OthersHaveFile
<1>5. (calls = MaxLines + 1 => line["usr1"] # 0)'
  BY DEF LogInv, FrameInv
<1> QED BY <1>3, <1>4, <1>5 DEF FrameInv

\* The promises about files hold where no file changes.
LEMMA FilesSame ==
  ASSUME LogInv, UNCHANGED fileVars
  PROVE  \A x : Stored(x)' <=> Stored(x)
BY DEF fileVars, Stored, ToSet

\* A step of logInf up to the write, which changes no file.
LEMMA QuietMove ==
  ASSUME LogInv, NEW c \in Frames, NEW l \in {"release", "stat", "name", "close", "write"},
         Top = c, pc[c] \in {"localtime", "release", "stat", "name"}, Goto(c, l),
         status = "running", ld # "none",
         UNCHANGED <<status, stack, line, logVars, fileVars, calls, accepted, clash>>,
         failed' \in {failed, failed \cup {"stat"}}
  PROVE  /\ FrameInv' /\ FileInv' /\ BufInv' /\ LinesKept' /\ OneWindow'
         /\ l # "write" => SizeInv'
<1>1. pc \in [Frames -> Pcs] /\ l \in Pcs /\ InLog(c) /\ c \in Frames
  BY DEF LogInv, TypeOK, Pcs, InLog
<1>2. pc'[c] = l /\ \A d \in Frames : d # c => pc'[d] = pc[d]
  BY <1>1 DEF Goto
<1>3. UNCHANGED <<status, stack, line, ld, fg, maxsize, buf, main, rotated, old, calls, accepted, clash>>
  BY DEF logVars, fileVars
<1>4. FrameInv'
  BY <1>1, <1>3, FrameMoves
<1>5. FileInv'
  BY <1>1, <1>2, <1>3 DEF LogInv, FileInv, Window, InLog
<1>6. \A x : Stored(x)' <=> Stored(x)
  BY FilesSame
<1>7. LinesKept' /\ OneWindow'
  BY <1>3, <1>6 DEF LogInv, LinesKept, OneWindow
<1>8. Count("flush")' = Count("flush")
  BY <1>1, CountMoves, Counts DEF Pcs
<1>9. BufInv'
  BY <1>2, <1>3, <1>6, <1>8 DEF LogInv, BufInv, ToSet
<1>10. ASSUME l # "write" PROVE SizeInv'
  <2>1. Count("write")' = Count("write")
    BY <1>1, <1>10, CountMoves, Counts DEF Pcs
  <2> QED BY <1>2, <1>3, <2>1 DEF LogInv, SizeInv, Rotates, Fits
<1> QED BY <1>4, <1>5, <1>7, <1>9, <1>10

-----------------------------------------------------------------------------
(***************************************************************************)
(* The steps around logInf.                                                *)
(***************************************************************************)
\* A step that at most ends the process.
LEMMA EndStep ==
  ASSUME LogInv, status' \in {"running", "exited", "undefined"},
         status' = "running" => status = "running", OneWindow',
         UNCHANGED <<frameVars, timeVars, logVars, fileVars, histVars>>
  PROVE  LogInv'
<1>1. UNCHANGED <<stack, pc, line, name, now, tim, tzlock, ld, fg, maxsize, buf, main, rotated, old,
                  calls, accepted, clash, failed>>
  BY DEF frameVars, timeVars, logVars, fileVars, histVars
<1>2. TypeOK'
  BY <1>1 DEF LogInv, TypeOK, IsInjective
<1>3. FrameInv' /\ NameInv' /\ FileInv'
  BY <1>1 DEF LogInv, FrameInv, NameInv, FileInv, InLog, ToSet
<1>4. \A x : Stored(x)' <=> Stored(x)
  BY FilesSame
<1>5. BufInv' /\ LinesKept'
  BY <1>1, <1>4 DEF LogInv, BufInv, LinesKept, Count, ToSet
<1>6. SizeInv'
  BY <1>1 DEF LogInv, SizeInv, Rotates, Count, Fits
<1> QED BY <1>2, <1>3, <1>5, <1>6 DEF LogInv

LEMMA LogInitStep ==
  ASSUME LogInv, LogInit
  PROVE  LogInv'
<1>1. CASE status' = "exited" /\ UNCHANGED <<ld, fg, maxsize>>
  BY <1>1, EndStep DEF LogInit, OneWindow, logVars
<1>2. ASSUME NEW size \in Sizes, ld' = "live", fg' = "open", status' = status,
             maxsize' = Clamp(size) * Kb
      PROVE  LogInv'
  <2>1. /\ UNCHANGED <<stack, pc, line, name, now, tim, tzlock, buf, main, rotated, old, calls, accepted,
                       clash, failed>>
        /\ status = "running" /\ ld = "none"
    BY DEF LogInit, frameVars, timeVars, fileVars, histVars
  <2>2. Len(main) = old /\ (\A c \in Frames : ~InLog(c)) /\ \A t \in Second : rotated[t] = << >>
    BY <2>1 DEF LogInv, FileInv
  <2>3. pc \in [Frames -> Pcs] /\ buf \in Seq(Line) /\ Len(buf) <= Count("flush")
    BY DEF LogInv, TypeOK, BufInv
  <2>4. Count("write") = 0 /\ Count("flush") = 0 /\ Len(buf) = 0
    BY <2>2, <2>3, Counts
  <2>5. maxsize' \in Int /\ maxsize' <= Kb * Kb
    BY <1>2, Clamped, SizeAssumption
  <2>6. TypeOK'
    BY <1>2, <2>1, <2>5 DEF LogInv, TypeOK, IsInjective
  <2>7. FrameInv' /\ NameInv'
    BY <2>1 DEF LogInv, FrameInv, NameInv, InLog, ToSet
  <2>8. FileInv'
    BY <1>2, <2>1, <2>2 DEF FileInv, InLog, Window
  <2>9. \A x : Stored(x)' <=> Stored(x)
    BY <2>1, FilesSame DEF fileVars
  <2>10. BufInv' /\ LinesKept'
    BY <1>2, <2>1, <2>9 DEF LogInv, BufInv, LinesKept, Count, ToSet
  <2>11. SizeInv'
    <3>1. ASSUME Rotates' PROVE Fits(0)'
      BY <3>1, <2>5, NothingFits DEF Fits, Rotates
    <3>2. Len(main)' + Len(buf)' + Count("write")' <= old' /\ \A t \in Second : Len(rotated[t])' = 0
      BY <2>1, <2>2, <2>4, OldFits DEF Count
    <3>3. ~\E c \in Frames : pc'[c] = "reopen"
      BY <2>1, <2>2 DEF InLog
    <3> QED BY <3>1, <3>2, <3>3 DEF SizeInv, Fits
  <2>12. OneWindow'
    BY <1>2, <2>1 DEF OneWindow
  <2> QED BY <2>6, <2>7, <2>8, <2>10, <2>11, <2>12 DEF LogInv
<1> QED BY <1>1, <1>2 DEF LogInit

LEMMA FaultStep ==
  ASSUME LogInv, NEW c \in Frames, Fault(c)
  PROVE  LogInv'
<1>1. /\ status = "running" /\ Top = c /\ status' = "undefined"
      /\ UNCHANGED <<frameVars, timeVars, logVars, fileVars, histVars>>
      /\ Undefined(c) \/ (pc[c] = "out" /\ ld = "freed")
  BY DEF Fault
<1>2. "reopen" \in failed \/ \E d \in Frames : d # Top /\ pc[d] = "null"
  <2>1. CASE ld = "freed"
    BY <2>1, <1>1 DEF LogInv, FileInv
  <2>2. CASE ld # "freed"
    <3>1. pc[c] \in {"close", "write", "flush"} /\ fg # "open" /\ InLog(c)
      BY <1>1, <2>2 DEF Undefined, InLog
    <3>2. ld = "live" /\ fg \in {"null", "closed"}
      <4>1. ld # "none"
        BY <3>1 DEF LogInv, FileInv
      <4> QED BY <2>2, <3>1, <4>1 DEF LogInv, TypeOK
    <3>3. CASE fg = "closed"
      BY <1>1, <3>1, <3>2, <3>3 DEF LogInv, FileInv
    <3>4. CASE fg = "null"
      BY <1>1, <3>1, <3>2, <3>4, OthersHaveFile DEF LogInv, FileInv
    <3> QED BY <3>2, <3>3, <3>4
  <2> QED BY <2>1, <2>2
<1>3. OneWindow'
  BY <1>1, <1>2 DEF OneWindow, Top, frameVars, histVars
<1> QED BY <1>1, <1>3, EndStep

LEMMA ClockStep ==
  ASSUME LogInv, Clock
  PROVE  LogInv'
<1>1. /\ UNCHANGED <<status, stack, pc, line, name, tim, tzlock, ld, fg, maxsize, buf, main, rotated, old,
                     calls, accepted, clash, failed>>
      /\ now < MaxTime /\ now' = now + 1
  BY DEF Clock, frameVars, logVars, fileVars, histVars
<1>2. now' \in Second
  BY <1>1, BoundAssumption DEF LogInv, TypeOK, Second
<1>3. TypeOK'
  BY <1>1, <1>2 DEF LogInv, TypeOK, IsInjective
<1>4. FrameInv' /\ NameInv' /\ FileInv'
  BY <1>1 DEF LogInv, FrameInv, NameInv, FileInv, InLog, ToSet
<1>5. \A x : Stored(x)' <=> Stored(x)
  BY <1>1, FilesSame DEF fileVars
<1>6. BufInv' /\ LinesKept'
  BY <1>1, <1>5 DEF LogInv, BufInv, LinesKept, Count, ToSet
<1>7. SizeInv' /\ OneWindow'
  BY <1>1 DEF LogInv, SizeInv, Rotates, Count, Fits, OneWindow, Top
<1> QED BY <1>3, <1>4, <1>6, <1>7 DEF LogInv

LEMMA InterruptStep ==
  ASSUME LogInv, NEW h \in Handlers, Interrupt(h)
  PROVE  LogInv'
<1>1. /\ UNCHANGED <<status, pc, name, now, tim, tzlock, ld, fg, maxsize, buf, main, rotated, old, calls,
                     accepted, clash, failed>>
      /\ status = "running" /\ h \notin ToSet(stack) /\ calls < MaxLines
      /\ stack' = Append(stack, h) /\ line' = [line EXCEPT ![h] = 0]
  BY DEF Interrupt, timeVars, logVars, fileVars, histVars
<1>2. /\ stack \in Seq(Frames) /\ Len(stack) >= 1 /\ stack[1] = "main" /\ IsInjective(stack)
      /\ h \in Frames /\ line \in [Frames -> 0..(MaxLines + 1)] /\ calls \in 0..(MaxLines + 1)
  BY DEF LogInv, TypeOK, Frames
<1>3. /\ stack' \in Seq(Frames) /\ Len(stack') = Len(stack) + 1 /\ stack'[Len(stack) + 1] = h
      /\ \A p \in 1..Len(stack) : stack'[p] = stack[p]
      /\ \A y : y \in ToSet(stack') <=> y \in ToSet(stack) \/ y = h
  BY <1>1, <1>2, AppendSeq
<1>4. /\ DOMAIN stack = 1..Len(stack) /\ DOMAIN stack' = 1..(Len(stack) + 1) /\ Len(stack) \in Nat
  BY <1>2, <1>3
<1>5. \A p \in DOMAIN stack' : (p \in DOMAIN stack /\ stack'[p] = stack[p]) \/ p = Len(stack) + 1
  BY <1>3, <1>4
<1>6. ~InLog(h)
  BY <1>1, <1>2 DEF LogInv, FrameInv
<1>7. TypeOK'
  <2>1. stack'[1] = "main" /\ Len(stack') >= 1
    BY <1>2, <1>3, <1>4
  <2>2. \A p \in DOMAIN stack : stack[p] # h
    BY <1>1 DEF ToSet
  <2>3. IsInjective(stack')
    BY <1>2, <1>3, <1>5, <2>2 DEF IsInjective
  <2>4. line' \in [Frames -> 0..(MaxLines + 1)]
    BY <1>1, <1>2, BoundAssumption
  <2> QED BY <1>1, <1>3, <2>1, <2>3, <2>4 DEF LogInv, TypeOK
<1>8. \A d \in Frames : d # h => line'[d] = line[d]
  BY <1>1, <1>2
<1>9. FrameInv'
  <2>1. (\A d \in Frames : InLog(d) => d \in ToSet(stack) /\ line[d] # 0)'
    BY <1>1, <1>3, <1>6, <1>8 DEF LogInv, FrameInv, InLog
  <2>2. ASSUME NEW p \in DOMAIN stack', NEW q \in DOMAIN stack', p < q,
               pc[stack'[p]] \in {"rename", "reopen"}
        PROVE  ~InLog(stack'[q])
    <3>1. CASE q = Len(stack) + 1
      BY <1>3, <1>6, <3>1
    <3>2. CASE q # Len(stack) + 1
      <4>1. p \in DOMAIN stack /\ q \in DOMAIN stack
        BY <1>4, <2>2, <3>2
      <4> QED BY <1>3, <1>4, <2>2, <4>1 DEF LogInv, FrameInv
    <3> QED BY <3>1, <3>2
  <2>3. calls' # MaxLines + 1
    BY <1>1, <1>2, BoundAssumption
  <2> QED BY <1>1, <2>1, <2>2, <2>3 DEF FrameInv, InLog
<1>10. NameInv' /\ FileInv'
  BY <1>1 DEF LogInv, NameInv, FileInv, InLog
<1>11. \A x : Stored(x)' <=> Stored(x)
  BY <1>1, FilesSame DEF fileVars
<1>12. BufInv'
  BY <1>1, <1>6, <1>8, <1>11 DEF LogInv, BufInv, Count, ToSet, InLog
<1>13. SizeInv' /\ LinesKept' /\ OneWindow'
  BY <1>1, <1>11 DEF LogInv, SizeInv, Rotates, Count, Fits, LinesKept, OneWindow
<1> QED BY <1>7, <1>9, <1>10, <1>12, <1>13 DEF LogInv

LEMMA HandlerReturnStep ==
  ASSUME LogInv, NEW h \in Handlers, HandlerReturn(h)
  PROVE  LogInv'
<1>1. /\ UNCHANGED <<status, pc, line, name, now, tim, tzlock, ld, fg, maxsize, buf, main, rotated, old,
                     calls, accepted, clash, failed>>
      /\ At(h, "out") /\ h # "main" /\ stack' = Front(stack)
  BY DEF HandlerReturn, timeVars, logVars, fileVars, histVars
<1>2. h \in Frames /\ status = "running" /\ Top = h /\ ~InLog(h)
  BY <1>1, Here DEF Frames, InLog
<1>3. /\ stack \in Seq(Frames) /\ Len(stack) >= 1 /\ stack[1] = "main" /\ IsInjective(stack)
  BY DEF LogInv, TypeOK
<1>4. stack[Len(stack)] = h /\ Len(stack) \in Nat /\ DOMAIN stack = 1..Len(stack)
  BY <1>2, TopActive
<1>5. Len(stack) # 1
  BY <1>1, <1>3, <1>4
<1>6. /\ stack' \in Seq(Frames) /\ Len(stack') = Len(stack) - 1
      /\ \A p \in 1..(Len(stack) - 1) : stack'[p] = stack[p]
      /\ \A y : y \in ToSet(stack) <=> y \in ToSet(stack') \/ y = h
  BY <1>1, <1>3, <1>4, FrontSeq
<1>7. DOMAIN stack' = 1..(Len(stack) - 1)
  BY <1>6
<1>8. \A p \in DOMAIN stack' : p \in DOMAIN stack /\ stack'[p] = stack[p]
  BY <1>4, <1>6, <1>7
<1>9. TypeOK'
  <2>1. stack'[1] = "main" /\ Len(stack') >= 1
    BY <1>3, <1>4, <1>5, <1>6
  <2>2. IsInjective(stack')
    BY <1>3, <1>8 DEF IsInjective
  <2> QED BY <1>1, <1>6, <2>1, <2>2 DEF LogInv, TypeOK
<1>10. FrameInv'
  BY <1>1, <1>2, <1>6, <1>8 DEF LogInv, FrameInv, InLog
<1>11. NameInv' /\ FileInv'
  BY <1>1 DEF LogInv, NameInv, FileInv, InLog
<1>12. \A x : Stored(x)' <=> Stored(x)
  BY <1>1, FilesSame DEF fileVars
<1>13. BufInv'
  BY <1>1, <1>12 DEF LogInv, BufInv, Count, ToSet
<1>14. SizeInv' /\ LinesKept' /\ OneWindow'
  BY <1>1, <1>2, <1>12 DEF LogInv, SizeInv, Rotates, Count, Fits, LinesKept, OneWindow
<1> QED BY <1>9, <1>10, <1>11, <1>13, <1>14 DEF LogInv

\* stdio writes its buffer to main.log: by fflush, by fclose.
LEMMA Flushed ==
  ASSUME LogInv, main' = main \o buf, buf' = << >>, rotated' = rotated
  PROVE  /\ main' \in Seq(Line) /\ buf' \in Seq(Line) /\ Len(buf') = 0
         /\ Len(main') = Len(main) + Len(buf)
         /\ \A x : Stored(x)' <=> Stored(x) \/ x \in ToSet(buf)
<1>1. main \in Seq(Line) /\ buf \in Seq(Line)
  BY DEF LogInv, TypeOK
<1>2. /\ main' \in Seq(Line) /\ Len(main') = Len(main) + Len(buf)
      /\ \A y : y \in ToSet(main') <=> y \in ToSet(main) \/ y \in ToSet(buf)
  BY <1>1, ConcatSeq
<1>3. \A x : Stored(x)' <=> Stored(x) \/ x \in ToSet(buf)
  BY <1>2 DEF Stored, ToSet
<1> QED BY <1>2, <1>3, EmptyLine

\* That takes no more room, and keeps every line.
LEMMA FlushedFits ==
  ASSUME LogInv, main' = main \o buf, buf' = << >>,
         UNCHANGED <<rotated, old, maxsize, failed>>, Count("write")' = Count("write"),
         (\E c \in Frames : pc'[c] = "reopen") => main' = main /\ \E c \in Frames : pc[c] = "reopen"
  PROVE  SizeInv'
<1>1. /\ Len(buf') = 0 /\ Len(main') = Len(main) + Len(buf)
      /\ Len(main) \in Nat /\ Len(buf) \in Nat /\ Count("write") \in 0..3
  <2>1. main \in Seq(Line) /\ buf \in Seq(Line) /\ pc \in [Frames -> Pcs]
    BY DEF LogInv, TypeOK
  <2> QED BY <2>1, Flushed, Counts
<1>2. Len(main)' + Len(buf)' + Count("write")' = Len(main) + Len(buf) + Count("write")
  BY <1>1
<1> QED BY <1>2 DEF LogInv, SizeInv, Rotates, Fits

LEMMA LogDelStep ==
  ASSUME LogInv, NEW c \in Frames, LogDel(c)
  PROVE  LogInv'
<1>1. /\ UNCHANGED <<stack, pc, line, name, now, tim, tzlock, maxsize, rotated, old, calls, accepted, clash,
                     failed>>
      /\ main' = IF fg = "open" THEN main \o buf ELSE main
      /\ buf' = << >> /\ ld' = "freed" /\ fg' = "null" /\ status' = "exited" /\ ld = "live"
  BY DEF LogDel, frameVars, timeVars, histVars
<1>2. main \in Seq(Line) /\ buf \in Seq(Line)
  BY DEF LogInv, TypeOK
<1>3. fg # "open" => main' = main /\ buf = << >> /\ main \o buf = main
  BY <1>1, <1>2, ConcatEmptySeq DEF LogInv, BufInv
<1>4. main' = main \o buf
  BY <1>1, <1>3
<1>5. /\ main' \in Seq(Line) /\ buf' \in Seq(Line) /\ Len(buf') = 0
      /\ \A x : Stored(x)' <=> Stored(x) \/ x \in ToSet(buf)
  BY <1>1, <1>4, Flushed
<1>6. TypeOK'
  BY <1>1, <1>5 DEF LogInv, TypeOK, IsInjective
<1>7. FrameInv' /\ NameInv' /\ FileInv'
  BY <1>1 DEF LogInv, FrameInv, NameInv, FileInv, InLog, ToSet
<1>8. BufInv'
  <2>1. Len(buf') <= Count("flush")'
    BY <1>1, <1>5, Counts DEF Count, LogInv, TypeOK
  <2>2. (~clash => \A d \in Frames : pc[d] = "flush" => Stored(line[d]))'
    BY <1>1, <1>5 DEF LogInv, BufInv
  <2> QED BY <1>1, <2>1, <2>2 DEF BufInv
<1>9. SizeInv'
  <2>1. Count("write")' = Count("write")
    BY <1>1 DEF Count
  <2>2. (\E d \in Frames : pc'[d] = "reopen") => main' = main /\ \E d \in Frames : pc[d] = "reopen"
    BY <1>1, <1>3 DEF LogInv, FileInv
  <2> QED BY <1>1, <1>4, <2>1, <2>2, FlushedFits
<1>10. LinesKept' /\ OneWindow'
  BY <1>1, <1>5 DEF LogInv, LinesKept, OneWindow
<1> QED BY <1>6, <1>7, <1>8, <1>9, <1>10 DEF LogInv

-----------------------------------------------------------------------------
(***************************************************************************)
(* The steps of logInf.                                                    *)
(***************************************************************************)
LEMMA CallStep ==
  ASSUME LogInv, NEW c \in Frames, Call(c)
  PROVE  LogInv'
<1>1. /\ UNCHANGED <<status, stack, name, now, tim, tzlock, ld, fg, maxsize, buf, main, rotated, old,
                     accepted, clash, failed>>
      /\ ld = "live" /\ calls' = calls + 1 /\ line' = [line EXCEPT ![c] = calls + 1]
      /\ IF c = "usr1" THEN ~Logged(c) ELSE calls < MaxLines
      /\ IF fg = "null" THEN pc' = pc ELSE Goto(c, "localtime")
  BY DEF Call, timeVars, logVars, fileVars
<1>2. status = "running" /\ Top = c /\ pc[c] = "out"
  BY Here DEF Call
<1>3. /\ pc \in [Frames -> Pcs] /\ line \in [Frames -> 0..(MaxLines + 1)]
      /\ calls \in 0..(MaxLines + 1) /\ stack \in Seq(Frames) /\ IsInjective(stack)
  BY DEF LogInv, TypeOK
<1>4. calls \in 0..MaxLines
  <2>1. CASE c = "usr1"
    BY <1>1, <1>3, <2>1, BoundAssumption DEF LogInv, FrameInv, Logged
  <2>2. CASE c # "usr1"
    BY <1>1, <1>3, <2>2, BoundAssumption
  <2> QED BY <2>1, <2>2
<1>5. calls' \in 0..(MaxLines + 1) /\ calls + 1 \in 0..(MaxLines + 1) /\ calls + 1 # 0
  BY <1>1, <1>4, BoundAssumption
<1>6. line'[c] = calls + 1 /\ \A d \in Frames : d # c => line'[d] = line[d]
  BY <1>1, <1>3
<1>7. pc'[c] \in {"out", "localtime"} /\ \A d \in Frames : d # c => pc'[d] = pc[d]
  BY <1>1, <1>2, <1>3 DEF Goto
<1>8. pc' \in [Frames -> Pcs]
  BY <1>1, <1>3 DEF Goto, Pcs
<1>9. TypeOK'
  <2>1. line' \in [Frames -> 0..(MaxLines + 1)]
    BY <1>1, <1>3, <1>5
  <2> QED BY <1>1, <1>5, <1>8, <2>1 DEF LogInv, TypeOK, IsInjective
<1>10. FrameInv'
  <2>1. (\A d \in Frames : InLog(d) => d \in ToSet(stack) /\ line[d] # 0)'
    BY <1>1, <1>2, <1>5, <1>6, <1>7, TopActive DEF LogInv, FrameInv, InLog, ToSet
  <2>2. (calls = MaxLines + 1 => line["usr1"] # 0)'
    <3>1. CASE c = "usr1"
      BY <1>5, <1>6, <3>1
    <3>2. CASE c # "usr1"
      BY <1>1, <1>4, <3>2, BoundAssumption
    <3> QED BY <3>1, <3>2
  <2>3. ASSUME NEW p \in DOMAIN stack, NEW q \in DOMAIN stack, p < q,
               pc'[stack[p]] \in {"rename", "reopen"}
        PROVE  pc'[stack[q]] = "out"
    <3>1. stack[p] \in Frames /\ stack[q] \in Frames
      BY <1>3
    <3>2. pc[stack[p]] \in {"rename", "reopen"}
      BY <2>3, <3>1, <1>2, <1>7
    <3>3. fg = "null"
      BY <1>1, <3>1, <3>2 DEF LogInv, FileInv
    <3> QED BY <1>1, <2>3, <3>2, <3>3 DEF LogInv, FrameInv, InLog
  <2> QED BY <1>1, <2>1, <2>2, <2>3 DEF FrameInv, InLog
<1>11. NameInv'
  BY <1>1, <1>7 DEF LogInv, NameInv
<1>12. FileInv'
  BY <1>1, <1>2, <1>7 DEF LogInv, FileInv, InLog, Window
<1>13. \A x : Stored(x)' <=> Stored(x)
  BY <1>1, FilesSame DEF fileVars
<1>14. Count("flush")' = Count("flush") /\ Count("write")' = Count("write")
  <2>1. CASE pc' = pc
    BY <2>1 DEF Count
  <2>2. CASE Goto(c, "localtime")
    BY <1>2, <1>3, <2>2 DEF Count, Goto, Frames, Handlers
  <2> QED BY <1>1, <2>1, <2>2
<1>15. BufInv'
  BY <1>1, <1>6, <1>7, <1>13, <1>14 DEF LogInv, BufInv, ToSet
<1>16. SizeInv' /\ LinesKept' /\ OneWindow'
  BY <1>1, <1>2, <1>7, <1>13, <1>14 DEF LogInv, SizeInv, Rotates, Fits, LinesKept, OneWindow
<1> QED BY <1>9, <1>10, <1>11, <1>12, <1>15, <1>16 DEF LogInv

LEMMA LocalTimeStep ==
  ASSUME LogInv, NEW c \in Frames, LocalTime(c)
  PROVE  LogInv'
<1>1. /\ UNCHANGED <<status, stack, line, name, now, logVars, fileVars, histVars>>
      /\ tzlock' = c /\ tim' = now /\ Goto(c, "release")
  BY DEF LocalTime
<1>2. status = "running" /\ Top = c /\ pc[c] = "localtime" /\ ld # "none"
  BY Here DEF LocalTime
<1>3. FrameInv' /\ FileInv' /\ BufInv' /\ LinesKept' /\ OneWindow' /\ SizeInv'
  BY <1>1, <1>2, QuietMove DEF histVars
<1>4. tim' \in Second /\ tim' \in 0..MaxTime
  BY <1>1, BoundAssumption DEF LogInv, TypeOK, Second
<1>5. TypeOK'
  BY <1>1, <1>4 DEF LogInv, TypeOK, Goto, Pcs, IsInjective, logVars, fileVars, histVars
<1>6. NameInv'
  BY <1>1, <1>4 DEF LogInv, TypeOK, NameInv, Goto
<1> QED BY <1>3, <1>5, <1>6 DEF LogInv

LEMMA ReleaseStep ==
  ASSUME LogInv, NEW c \in Frames, Release(c)
  PROVE  LogInv'
<1>1. /\ UNCHANGED <<status, stack, line, name, now, tim, logVars, fileVars, histVars>>
      /\ tzlock' = "none" /\ Goto(c, "stat")
  BY DEF Release
<1>2. status = "running" /\ Top = c /\ pc[c] = "release" /\ ld # "none"
  BY Here DEF Release
<1>3. FrameInv' /\ FileInv' /\ BufInv' /\ LinesKept' /\ OneWindow' /\ SizeInv'
  BY <1>1, <1>2, QuietMove DEF histVars
<1>4. TypeOK'
  BY <1>1 DEF LogInv, TypeOK, Goto, Pcs, IsInjective, logVars, fileVars, histVars
<1>5. NameInv'
  BY <1>1, <1>2 DEF LogInv, TypeOK, NameInv, Goto
<1> QED BY <1>3, <1>4, <1>5 DEF LogInv

\* isneedcp lets a line pass only while three more fit.
LEMMA StatStep ==
  ASSUME LogInv, NEW c \in Frames, Stat(c)
  PROVE  LogInv'
<1>1. UNCHANGED <<status, stack, line, name, timeVars, logVars, fileVars, calls, accepted, clash>>
  BY DEF Stat
<1>2. status = "running" /\ Top = c /\ pc[c] = "stat" /\ ld # "none"
  BY Here DEF Stat
<1>3. /\ pc \in [Frames -> Pcs] /\ main \in Seq(Line) /\ buf \in Seq(Line)
      /\ maxsize \in Int /\ maxsize <= Kb * Kb /\ old \in OldLines
  BY DEF LogInv, TypeOK
<1>4. /\ Goto(c, "name") \/ Goto(c, "write")
      /\ failed' \in {failed, failed \cup {"stat"}}
  BY DEF Stat
<1>5. TypeOK'
  BY <1>1, <1>4 DEF LogInv, TypeOK, Goto, Pcs, IsInjective, timeVars, logVars, fileVars
<1>6. NameInv'
  BY <1>1, <1>2, <1>4 DEF LogInv, TypeOK, NameInv, Goto, timeVars
<1>7. FrameInv' /\ FileInv' /\ BufInv' /\ LinesKept' /\ OneWindow'
  BY <1>1, <1>2, <1>4, QuietMove
<1>8. SizeInv'
  <2>1. CASE Goto(c, "name")
    BY <1>1, <1>2, <1>4, <2>1, QuietMove
  <2>2. CASE "stat" \in failed'
    BY <2>2 DEF SizeInv, Rotates
  <2>3. ASSUME Goto(c, "write"), failed' = failed, maxsize >= Kb => ~(AsInt(Size) >= Limit)
        PROVE  SizeInv'
    <3>1. Count("write")' = Count("write") + 1
      BY <1>2, <1>3, <2>3 DEF Count, Goto, Frames, Handlers
    <3>2. UNCHANGED <<maxsize, buf, main, rotated, old, failed>>
      BY <1>1, <2>3 DEF logVars, fileVars
    <3>3. /\ Len(main) \in Nat /\ Len(buf) \in Nat /\ Len(buf) <= Count("flush") /\ old \in Nat
          /\ Count("write") \in 0..3 /\ Count("flush") \in 0..3 /\ Count("write") + Count("flush") <= 2
      BY <1>2, <1>3, Counts, IntAssumption DEF LogInv, BufInv
    <3>4. /\ Len(main) + Len(buf) + (Count("write") + 1) <= Len(main) + 3
          /\ Len(main) + Len(buf) + (Count("write") + 1) \in Nat /\ Len(main) + 3 \in Nat
          /\ Len(main) <= Len(main) + Len(buf) + Count("write")
          /\ Len(main) + Len(buf) + Count("write") \in Nat
      BY <3>3
    <3>5. ASSUME Rotates
          PROVE  Fits(Len(main) + Len(buf) + (Count("write") + 1))
      <4>1. Fits(Len(main))
        BY <1>3, <3>3, <3>4, <3>5, FitsLess DEF LogInv, SizeInv
      <4>2. AsInt(Size) = Len(main) * LineLen
        BY <1>3, <3>3, <3>5, <4>1, SmallSize
      <4>3. Fits(Len(main) + 3)
        BY <1>3, <2>3, <3>3, <3>5, <4>2, FitsThree DEF Rotates
      <4> QED BY <1>3, <3>3, <3>4, <4>3, FitsLess
    <3>6. (\E d \in Frames : pc'[d] = "reopen") => \E d \in Frames : pc[d] = "reopen"
      BY <1>3, <2>3 DEF Goto
    <3> QED BY <3>1, <3>2, <3>5, <3>6 DEF LogInv, SizeInv, Rotates, Fits
  <2>4. \/ Goto(c, "name") \/ "stat" \in failed'
        \/ Goto(c, "write") /\ failed' = failed /\ (maxsize >= Kb => ~(AsInt(Size) >= Limit))
    BY DEF Stat
  <2> QED BY <2>1, <2>2, <2>3, <2>4
<1> QED BY <1>5, <1>6, <1>7, <1>8 DEF LogInv

LEMMA NameStep ==
  ASSUME LogInv, NEW c \in Frames, Name(c)
  PROVE  LogInv'
<1>1. /\ UNCHANGED <<status, stack, line, timeVars, logVars, fileVars, histVars>>
      /\ name' = [name EXCEPT ![c] = tim] /\ Goto(c, "close")
  BY DEF Name
<1>2. status = "running" /\ Top = c /\ pc[c] = "name" /\ ld # "none"
  BY Here DEF Name
<1>3. FrameInv' /\ FileInv' /\ BufInv' /\ LinesKept' /\ OneWindow' /\ SizeInv'
  BY <1>1, <1>2, QuietMove DEF histVars
<1>4. name \in [Frames -> 0..MaxTime] /\ tim \in 0..MaxTime /\ tim \in Second /\ pc \in [Frames -> Pcs]
  BY <1>2 DEF LogInv, TypeOK, NameInv
<1>5. TypeOK'
  BY <1>1, <1>4 DEF LogInv, TypeOK, Goto, Pcs, IsInjective, timeVars, logVars, fileVars, histVars
<1>6. NameInv'
  BY <1>1, <1>4 DEF LogInv, NameInv, Goto, timeVars
<1> QED BY <1>3, <1>5, <1>6 DEF LogInv

\* fclose: the one frame that does it opens the window.
LEMMA CloseStep ==
  ASSUME LogInv, NEW c \in Frames, Close(c)
  PROVE  LogInv'
<1>1. /\ UNCHANGED <<status, stack, line, name, now, tim, tzlock, ld, maxsize, rotated, old, calls, accepted,
                     clash, failed>>
      /\ main' = main \o buf /\ buf' = << >> /\ fg' = "closed" /\ Goto(c, "null")
  BY DEF Close, timeVars, histVars
<1>2. status = "running" /\ Top = c /\ pc[c] = "close" /\ ld = "live" /\ fg = "open"
  BY Here DEF Close
<1>3. pc \in [Frames -> Pcs]
  BY DEF LogInv, TypeOK
<1>4. pc'[c] = "null" /\ pc' \in [Frames -> Pcs] /\ \A d \in Frames : d # c => pc'[d] = pc[d]
  BY <1>1, <1>3 DEF Goto, Pcs
<1>5. \A d \in Frames : pc[d] \notin Window
  <2>1. FileInv
    BY DEF LogInv
  <2> QED BY <1>2, <2>1 DEF FileInv, Window
<1>6. /\ main' \in Seq(Line) /\ buf' \in Seq(Line) /\ Len(buf') = 0
      /\ \A x : Stored(x)' <=> Stored(x) \/ x \in ToSet(buf)
  BY <1>1, Flushed
<1>7. Count("write")' = Count("write") /\ Count("flush")' = Count("flush")
  BY <1>1, <1>2, <1>3 DEF Count, Goto, Frames, Handlers
<1>8. TypeOK'
  BY <1>1, <1>4, <1>6 DEF LogInv, TypeOK, IsInjective
<1>9. FrameInv'
  BY <1>1, <1>2, FrameMoves DEF Pcs, InLog
<1>10. NameInv'
  BY <1>1, <1>2, <1>4 DEF LogInv, NameInv
<1>11. FileInv'
  BY <1>1, <1>2, <1>4, <1>5 DEF FileInv, Window
<1>12. BufInv'
  <2>1. Len(buf') <= Count("flush")'
    BY <1>3, <1>6, <1>7, Counts
  <2>2. (~clash => \A d \in Frames : pc[d] = "flush" => Stored(line[d]))'
    BY <1>1, <1>4, <1>6 DEF LogInv, BufInv
  <2> QED BY <1>1, <2>1, <2>2 DEF BufInv
<1>13. SizeInv'
  BY <1>1, <1>4, <1>5, <1>7, FlushedFits DEF Window
<1>14. LinesKept' /\ OneWindow'
  BY <1>1, <1>2, <1>6 DEF LogInv, LinesKept, OneWindow
<1> QED BY <1>8, <1>9, <1>10, <1>11, <1>12, <1>13, <1>14 DEF LogInv

LEMMA SetNullStep ==
  ASSUME LogInv, NEW c \in Frames, SetNull(c)
  PROVE  LogInv'
<1>1. /\ UNCHANGED <<status, stack, line, name, now, tim, tzlock, ld, maxsize, buf, main, rotated, old, calls,
                     accepted, clash, failed>>
      /\ fg' = "null" /\ Goto(c, "rename")
  BY DEF SetNull, timeVars, fileVars, histVars
<1>2. status = "running" /\ Top = c /\ pc[c] = "null" /\ ld = "live"
  BY Here DEF SetNull
<1>3. pc \in [Frames -> Pcs] /\ fg = "closed" /\ buf = << >>
  <2>1. pc \in [Frames -> Pcs] /\ fg = "closed"
    BY <1>2 DEF LogInv, TypeOK, FileInv
  <2> QED BY <2>1 DEF LogInv, BufInv
<1>4. pc'[c] = "rename" /\ pc' \in [Frames -> Pcs] /\ \A d \in Frames : d # c => pc'[d] = pc[d]
  BY <1>1, <1>3 DEF Goto, Pcs
<1>5. \A d \in Frames : d # c => pc[d] \notin Window
  BY <1>2 DEF LogInv, FileInv, Window
<1>6. \A x : Stored(x)' <=> Stored(x)
  BY <1>1, FilesSame DEF fileVars
<1>7. Count("write")' = Count("write") /\ Count("flush")' = Count("flush")
  BY <1>1, <1>2, <1>3 DEF Count, Goto, Frames, Handlers
<1>8. TypeOK'
  BY <1>1, <1>4 DEF LogInv, TypeOK, IsInjective
<1>9. FrameInv'
  BY <1>1, <1>2, FrameMoves DEF Pcs, InLog
<1>10. NameInv'
  BY <1>1, <1>2, <1>4 DEF LogInv, NameInv
<1>11. FileInv'
  BY <1>1, <1>2, <1>4, <1>5 DEF FileInv, Window
<1>12. BufInv'
  BY <1>1, <1>3, <1>4, <1>6, <1>7 DEF LogInv, BufInv, ToSet
<1>13. SizeInv'
  BY <1>1, <1>4, <1>7 DEF LogInv, SizeInv, Rotates, Fits
<1>14. LinesKept' /\ OneWindow'
  BY <1>1, <1>2, <1>6 DEF LogInv, LinesKept, OneWindow
<1> QED BY <1>8, <1>9, <1>10, <1>11, <1>12, <1>13, <1>14 DEF LogInv

\* rename: the lines of main.log are those of the rotated file.
LEMMA RenameStep ==
  ASSUME LogInv, NEW c \in Frames, Rename(c)
  PROVE  LogInv'
<1>1. /\ UNCHANGED <<status, stack, line, name, now, tim, tzlock, ld, fg, maxsize, buf, old, calls,
                     accepted>>
      /\ Goto(c, "reopen")
  BY DEF Rename, timeVars, logVars
<1>2. status = "running" /\ Top = c /\ pc[c] = "rename" /\ ld = "live"
  BY Here DEF Rename
<1>3. /\ pc \in [Frames -> Pcs] /\ fg = "null" /\ buf = << >> /\ name[c] \in Second
      /\ main \in Seq(Line) /\ rotated \in [Second -> Seq(Line)] /\ maxsize \in Int /\ old \in Nat
  BY <1>2, IntAssumption DEF LogInv, TypeOK, FileInv, BufInv, NameInv
<1>4. pc'[c] = "reopen" /\ pc' \in [Frames -> Pcs] /\ \A d \in Frames : d # c => pc'[d] = pc[d]
  BY <1>1, <1>3 DEF Goto, Pcs
<1>5. \A d \in Frames : d # c => pc[d] \notin Window
  BY <1>2 DEF LogInv, FileInv, Window
<1>6. Count("write")' = Count("write") /\ Count("flush")' = Count("flush")
  BY <1>1, <1>2, <1>3 DEF Count, Goto, Frames, Handlers
<1>7. FrameInv'
  BY <1>1, <1>2, FrameMoves DEF Pcs, InLog
<1>8. NameInv'
  BY <1>1, <1>2, <1>4 DEF LogInv, NameInv
<1>9. FileInv'
  BY <1>1, <1>2, <1>3, <1>4, <1>5 DEF FileInv, Window
<1>10. OneWindow'
  BY <1>1, <1>2 DEF OneWindow
<1>11. CASE failed' = failed \cup {"rename"} /\ UNCHANGED <<main, rotated, clash>>
  <2>1. main' = main /\ rotated' = rotated /\ clash' = clash
    BY <1>11
  <2>2. \A x : Stored(x)' <=> Stored(x)
    BY <1>1, <2>1, FilesSame DEF fileVars
  <2>3. TypeOK'
    BY <1>1, <1>4, <1>11, <2>1 DEF LogInv, TypeOK, IsInjective
  <2>4. BufInv' /\ LinesKept'
    BY <1>1, <1>4, <1>6, <2>1, <2>2 DEF LogInv, BufInv, LinesKept, ToSet
  <2>5. SizeInv'
    BY <1>11 DEF SizeInv, Rotates
  <2> QED BY <1>7, <1>8, <1>9, <1>10, <2>3, <2>4, <2>5 DEF LogInv
<1>12. CASE /\ rotated' = [rotated EXCEPT ![name[c]] = main] /\ main' = << >>
            /\ clash' = (clash \/ rotated[name[c]] # << >>) /\ failed' = failed
  <2>1. rotated'[name[c]] = main /\ \A t \in Second : t # name[c] => rotated'[t] = rotated[t]
    BY <1>3, <1>12
  <2>2. rotated' \in [Second -> Seq(Line)] /\ main' \in Seq(Line)
    BY <1>3, <1>12, EmptyLine
  <2>3. clash' \in BOOLEAN
    BY <1>12
  <2>4. TypeOK'
    BY <1>1, <1>4, <1>12, <2>2, <2>3 DEF LogInv, TypeOK, IsInjective
  <2>5. ASSUME ~clash', NEW x, Stored(x)
        PROVE  ~clash /\ Stored(x)'
    <3>1. ~clash /\ rotated[name[c]] = << >>
      BY <1>12, <2>5
    <3>2. CASE x \in ToSet(main)
      <4>1. x \in ToSet(rotated'[name[c]])
        BY <2>1, <3>2
      <4> QED BY <1>3, <3>1, <4>1 DEF Stored
    <3>3. CASE \E t \in Second : x \in ToSet(rotated[t])
      <4>1. PICK t \in Second : x \in ToSet(rotated[t])
        BY <3>3
      <4>2. t # name[c]
        BY <3>1, <4>1, EmptyLine
      <4> QED BY <2>1, <3>1, <4>1, <4>2 DEF Stored
    <3> QED BY <2>5, <3>1, <3>2, <3>3 DEF Stored
  <2>6. ~clash' => ~clash
    BY <1>12
  <2>7. BufInv' /\ LinesKept'
    BY <1>1, <1>3, <1>4, <1>6, <2>5, <2>6, EmptyLine DEF LogInv, BufInv, LinesKept
  <2>8. SizeInv'
    <3>1. SUFFICES ASSUME Rotates
                   PROVE  /\ Fits(Len(main') + Len(buf) + Count("write"))
                          /\ \A t \in Second : Fits(Len(rotated'[t]))
      BY <1>1, <1>6, <1>12 DEF SizeInv, Rotates, Fits
    <3>2. /\ Len(main) \in Nat /\ Len(main') = 0 /\ Len(buf) = 0 /\ Count("write") \in 0..3
      BY <1>3, <1>12, Counts, EmptyLine
    <3>3. Fits(Len(main) + Len(buf) + Count("write"))
      BY <3>1 DEF LogInv, SizeInv
    <3>4. Fits(Len(main') + Len(buf) + Count("write"))
      BY <1>3, <3>2, <3>1, FitsEmpty
    <3>5. Fits(Len(main))
      <4>1. Len(main) <= Len(main) + Len(buf) + Count("write") /\ Len(main) + Len(buf) + Count("write") \in Nat
        BY <3>2
      <4> QED BY <1>3, <3>2, <3>3, <4>1, FitsLess
    <3> QED BY <2>1, <3>1, <3>4, <3>5 DEF LogInv, SizeInv
  <2> QED BY <1>7, <1>8, <1>9, <1>10, <2>4, <2>7, <2>8 DEF LogInv
<1> QED BY <1>11, <1>12 DEF Rename

\* fopen: the log is open again, or deleted.
LEMMA ReopenStep ==
  ASSUME LogInv, NEW c \in Frames, Reopen(c)
  PROVE  LogInv'
<1>1. UNCHANGED <<status, stack, line, name, now, tim, tzlock, maxsize, buf, main, rotated, old, calls,
                  accepted, clash>>
  BY DEF Reopen, timeVars, fileVars
<1>2. status = "running" /\ Top = c /\ pc[c] = "reopen" /\ ld = "live"
  BY Here DEF Reopen
<1>3. pc \in [Frames -> Pcs] /\ fg = "null" /\ buf = << >> /\ maxsize \in Int
  BY <1>2 DEF LogInv, TypeOK, FileInv, BufInv
<1>4. \A d \in Frames : d # c => pc[d] \notin Window
  BY <1>2 DEF LogInv, FileInv, Window
<1>5. \A x : Stored(x)' <=> Stored(x)
  BY <1>1, FilesSame DEF fileVars
<1>6. LinesKept' /\ OneWindow'
  BY <1>1, <1>2, <1>5 DEF LogInv, LinesKept, OneWindow
<1>7. ASSUME NEW l \in {"write", "out"}, Goto(c, l), fg' \in {"open", "null"}, ld' \in {"live", "freed"},
             failed' \in {failed, failed \cup {"reopen"}}
      PROVE  TypeOK' /\ FrameInv' /\ NameInv' /\ BufInv' /\ SizeInv'
  <2>1. pc'[c] = l /\ pc' \in [Frames -> Pcs] /\ l \in Pcs /\ \A d \in Frames : d # c => pc'[d] = pc[d]
    BY <1>3, <1>7 DEF Goto, Pcs
  <2>2. Count("flush")' = Count("flush")
    BY <1>2, <1>3, <1>7 DEF Count, Goto, Frames, Handlers
  <2>3. TypeOK'
    BY <1>1, <1>7, <2>1 DEF LogInv, TypeOK, IsInjective
  <2>4. FrameInv'
    BY <1>1, <1>2, <1>7, <2>1, FrameMoves DEF InLog
  <2>5. NameInv'
    BY <1>1, <1>2, <1>7, <2>1 DEF LogInv, NameInv
  <2>6. BufInv'
    BY <1>1, <1>3, <1>7, <2>1, <2>2, <1>5 DEF LogInv, BufInv, ToSet
  <2>7. SizeInv'
    <3>1. SUFFICES ASSUME Rotates
                   PROVE  /\ Fits(Len(main) + Len(buf) + Count("write")')
                          /\ \A t \in Second : Fits(Len(rotated[t]))
      BY <1>1, <1>4, <1>7, <2>1 DEF SizeInv, Rotates, Fits, Window
    <3>2. Len(main) = 0 /\ Len(buf) = 0
      BY <1>2, <1>3, <3>1, EmptyLine DEF LogInv, SizeInv
    <3>3. Count("write")' \in 0..3
      BY <2>1 DEF Count
    <3>4. Len(main) + Len(buf) + Count("write")' \in 0..3
      BY <3>2, <3>3
    <3>5. Fits(Len(main) + Len(buf) + Count("write")')
      BY <1>3, <3>1, <3>4, FitsEmpty
    <3> QED BY <3>1, <3>5 DEF LogInv, SizeInv
  <2> QED BY <2>3, <2>4, <2>5, <2>6, <2>7
<1>8. CASE fg' = "open" /\ Goto(c, "write") /\ UNCHANGED <<ld, failed>>
  <2>1. \A d \in Frames : pc'[d] \notin Window
    BY <1>3, <1>4, <1>8 DEF Goto, Window
  <2>2. FileInv'
    BY <1>2, <1>8, <2>1 DEF FileInv, Window
  <2> QED BY <1>2, <1>6, <1>7, <1>8, <2>2 DEF LogInv
<1>9. CASE ld' = "freed" /\ fg' = "null" /\ failed' = failed \cup {"reopen"} /\ Goto(c, "out")
  <2>1. \A d \in Frames : pc'[d] \notin Window
    BY <1>3, <1>4, <1>9 DEF Goto, Window
  <2>2. FileInv'
    BY <1>9, <2>1 DEF FileInv
  <2> QED BY <1>6, <1>7, <1>9, <2>2 DEF LogInv
<1> QED BY <1>8, <1>9 DEF Reopen

LEMMA WriteStep ==
  ASSUME LogInv, NEW c \in Frames, Write(c)
  PROVE  LogInv'
<1>1. /\ UNCHANGED <<status, stack, line, name, now, tim, tzlock, ld, fg, maxsize, main, rotated, old, calls,
                     accepted, clash, failed>>
      /\ buf' = Append(buf, line[c]) /\ Goto(c, "flush")
  BY DEF Write, timeVars, fileVars, histVars
<1>2. status = "running" /\ Top = c /\ pc[c] = "write" /\ ld = "live" /\ fg = "open" /\ InLog(c)
  BY Here DEF Write, InLog
<1>3. /\ pc \in [Frames -> Pcs] /\ buf \in Seq(Line) /\ main \in Seq(Line)
      /\ line \in [Frames -> 0..(MaxLines + 1)]
  BY DEF LogInv, TypeOK
<1>4. line[c] \in Line
  <2>1. line[c] # 0 /\ line[c] \in 0..(MaxLines + 1)
    BY <1>2, <1>3 DEF LogInv, FrameInv
  <2> QED BY <2>1, BoundAssumption DEF Line
<1>5. /\ buf' \in Seq(Line) /\ Len(buf') = Len(buf) + 1
      /\ \A y : y \in ToSet(buf') <=> y \in ToSet(buf) \/ y = line[c]
  BY <1>1, <1>3, <1>4, AppendSeq
<1>6. pc'[c] = "flush" /\ pc' \in [Frames -> Pcs] /\ \A d \in Frames : d # c => pc'[d] = pc[d]
  BY <1>1, <1>3 DEF Goto, Pcs
<1>7. Count("write")' = Count("write") - 1 /\ Count("flush")' = Count("flush") + 1
  BY <1>1, <1>2, <1>3 DEF Count, Goto, Frames, Handlers
<1>8. \A x : Stored(x)' <=> Stored(x)
  BY <1>1, FilesSame DEF fileVars
<1>9. TypeOK'
  BY <1>1, <1>5, <1>6 DEF LogInv, TypeOK, IsInjective
<1>10. FrameInv'
  BY <1>1, <1>2, FrameMoves DEF Pcs
<1>11. NameInv'
  BY <1>1, <1>2, <1>6 DEF LogInv, NameInv
<1>12. FileInv'
  BY <1>1, <1>2, <1>6 DEF LogInv, FileInv, Window, InLog
<1>13. Len(buf) \in Nat /\ Len(main) \in Nat /\ Count("write") \in 0..3 /\ Count("flush") \in 0..3
  BY <1>3, Counts
<1>14. BufInv'
  <2>1. Len(buf') <= Count("flush")'
    BY <1>5, <1>7, <1>13 DEF LogInv, BufInv
  <2>2. (~clash => \A d \in Frames : pc[d] = "flush" => line[d] \in ToSet(buf) \/ Stored(line[d]))'
    BY <1>1, <1>5, <1>6, <1>8 DEF LogInv, BufInv
  <2> QED BY <1>1, <1>2, <2>1, <2>2 DEF BufInv
<1>15. SizeInv'
  <2>1. Len(main)' + Len(buf)' + Count("write")' = Len(main) + Len(buf) + Count("write")
    BY <1>1, <1>5, <1>7, <1>13
  <2> QED BY <1>1, <1>6, <2>1 DEF LogInv, SizeInv, Rotates, Fits
<1>16. LinesKept' /\ OneWindow'
  BY <1>1, <1>2, <1>8 DEF LogInv, LinesKept, OneWindow
<1> QED BY <1>9, <1>10, <1>11, <1>12, <1>14, <1>15, <1>16 DEF LogInv

\* fflush: the line is in a file, whichever frames have flushed or rotated since
\* it was written.
LEMMA FlushStep ==
  ASSUME LogInv, NEW c \in Frames, Flush(c)
  PROVE  LogInv'
<1>1. /\ UNCHANGED <<status, stack, line, name, now, tim, tzlock, ld, fg, maxsize, rotated, old, calls, clash,
                     failed>>
      /\ main' = main \o buf /\ buf' = << >> /\ accepted' = accepted \cup {line[c]} /\ Goto(c, "out")
  BY DEF Flush, timeVars
<1>2. status = "running" /\ Top = c /\ pc[c] = "flush" /\ ld = "live" /\ fg = "open" /\ InLog(c)
  BY Here DEF Flush, InLog
<1>3. pc \in [Frames -> Pcs] /\ line \in [Frames -> 0..(MaxLines + 1)]
  BY DEF LogInv, TypeOK
<1>4. line[c] \in Line
  <2>1. line[c] # 0 /\ line[c] \in 0..(MaxLines + 1)
    BY <1>2, <1>3 DEF LogInv, FrameInv
  <2> QED BY <2>1, BoundAssumption DEF Line
<1>5. /\ main' \in Seq(Line) /\ buf' \in Seq(Line) /\ Len(buf') = 0
      /\ \A x : Stored(x)' <=> Stored(x) \/ x \in ToSet(buf)
  BY <1>1, Flushed
<1>6. pc'[c] = "out" /\ pc' \in [Frames -> Pcs] /\ \A d \in Frames : d # c => pc'[d] = pc[d]
  BY <1>1, <1>3 DEF Goto, Pcs
<1>7. \A d \in Frames : pc[d] \notin Window
  BY <1>2 DEF LogInv, FileInv, Window
<1>8. Count("write")' = Count("write")
  BY <1>1, <1>2, <1>3 DEF Count, Goto, Frames, Handlers
<1>9. TypeOK'
  BY <1>1, <1>4, <1>5, <1>6 DEF LogInv, TypeOK, IsInjective
<1>10. FrameInv'
  BY <1>1, <1>2, FrameMoves DEF Pcs
<1>11. NameInv'
  BY <1>1, <1>6 DEF LogInv, NameInv
<1>12. FileInv'
  BY <1>1, <1>2, <1>6, <1>7 DEF FileInv, Window
<1>13. BufInv'
  <2>1. Count("flush")' \in 0..3
    BY <1>6 DEF Count
  <2>2. (~clash => \A d \in Frames : pc[d] = "flush" => Stored(line[d]))'
    BY <1>1, <1>5, <1>6 DEF LogInv, BufInv
  <2> QED BY <1>1, <1>5, <2>1, <2>2 DEF BufInv
<1>14. SizeInv'
  BY <1>1, <1>6, <1>7, <1>8, FlushedFits DEF Window
<1>15. LinesKept'
  BY <1>1, <1>2, <1>5 DEF LogInv, LinesKept, BufInv
<1>16. OneWindow'
  BY <1>1, <1>2 DEF OneWindow
<1> QED BY <1>9, <1>10, <1>11, <1>12, <1>13, <1>14, <1>15, <1>16 DEF LogInv

-----------------------------------------------------------------------------
(***************************************************************************)
(* The theorems.                                                           *)
(***************************************************************************)
LEMMA StepInv == LogInv /\ [Next]_vars => LogInv'
<1> SUFFICES ASSUME LogInv, [Next]_vars PROVE LogInv'
  OBVIOUS
<1>1. ASSUME NEW h \in Handlers, Interrupt(h) \/ HandlerReturn(h) PROVE LogInv'
  BY <1>1, InterruptStep, HandlerReturnStep
<1>2. ASSUME NEW c \in Frames, LogInf(c) PROVE LogInv'
  BY <1>2, CallStep, LocalTimeStep, ReleaseStep, StatStep, NameStep, CloseStep, SetNullStep,
     RenameStep, ReopenStep, WriteStep, FlushStep DEF LogInf
<1>3. ASSUME NEW c \in Frames, LogDel(c) \/ Fault(c) PROVE LogInv'
  BY <1>3, LogDelStep, FaultStep
<1>4. CASE UNCHANGED vars
  <2>1. status' = status /\ UNCHANGED <<frameVars, timeVars, logVars, fileVars, histVars>>
    BY <1>4 DEF vars
  <2>2. OneWindow'
    BY <2>1 DEF LogInv, OneWindow, Top, frameVars, histVars
  <2>3. status \in {"running", "exited", "undefined"}
    BY DEF LogInv, TypeOK
  <2> QED BY <2>1, <2>2, <2>3, EndStep
<1> QED BY <1>1, <1>2, <1>3, <1>4, LogInitStep, ClockStep DEF Next, Ended, Hangs

\* The invariant of the log library holds for every number of lines, every size
\* logInit is called with, every length of a line below the margin and whatever
\* an earlier run has left in main.log, with any stat, rename or reopen failing.
THEOREM LogInvariant == Spec => []LogInv
BY InitInv, StepInv, PTL DEF Spec

\* Every variable of the log library keeps its type: the maximum is at most a
\* megabyte, the active frames are distinct, a file name holds a second.
THEOREM LogTypes == Spec => []TypeOK
<1>1. LogInv => TypeOK
  BY DEF LogInv
<1> QED BY <1>1, LogInvariant, PTL

\* Whatever calls of logInf nested, with all of them returned the log is open
\* and its buffer is empty.
THEOREM ReadyAgain == Spec => []LogReady
<1>1. LogInv => LogReady
  <2> SUFFICES ASSUME LogInv, ld = "live", \A c \in Frames : ~InLog(c)
               PROVE  fg = "open" /\ buf = << >>
    BY DEF LogReady
  <2>1. fg = "open"
    BY DEF LogInv, TypeOK, FileInv, InLog
  <2>2. pc \in [Frames -> Pcs] /\ buf \in Seq(Line) /\ Len(buf) <= Count("flush")
    BY DEF LogInv, TypeOK, BufInv
  <2>3. Len(buf) = 0
    BY <2>2, Counts
  <2> QED BY <2>1, <2>2, <2>3, NoneWaits
<1> QED BY <1>1, LogInvariant, PTL

\* The only place where a handler that logs can meet undefined behaviour, as
\* long as fopen succeeds, is between fclose and the clearing of the pointer.
THEOREM WindowOnly == Spec => []OneWindow
<1>1. LogInv => OneWindow
  BY DEF LogInv
<1> QED BY <1>1, LogInvariant, PTL

\* No accepted line is lost by any nesting of rotations, unless two rotations
\* got the same name.
THEOREM KeepsLines == Spec => []LinesKept
<1>1. LogInv => LinesKept
  BY DEF LogInv
<1> QED BY <1>1, LogInvariant, PTL

\* With rotation on, and as long as stat and rename succeed and the size of the
\* file an earlier run has left fits an int, no file exceeds its maximum by more
\* than two lines, or it is what that run has left.
THEOREM BoundsSize == Spec => []SizeBounded
<1>1. LogInv => SizeBounded
  <2> SUFFICES ASSUME LogInv, Rotates
               PROVE  Fits(Len(main)) /\ \A t \in Second : Fits(Len(rotated[t]))
    BY DEF SizeBounded, Fits
  <2>1. /\ main \in Seq(Line) /\ buf \in Seq(Line) /\ pc \in [Frames -> Pcs] /\ maxsize \in Int
        /\ old \in Nat
    BY IntAssumption DEF LogInv, TypeOK
  <2>2. Len(main) \in Nat /\ Len(buf) \in Nat /\ Count("write") \in 0..3
    BY <2>1, Counts
  <2>3. /\ Len(main) <= Len(main) + Len(buf) + Count("write")
        /\ Len(main) + Len(buf) + Count("write") \in Nat
    BY <2>2
  <2>4. Fits(Len(main))
    BY <2>1, <2>2, <2>3, FitsLess DEF LogInv, SizeInv
  <2> QED BY <2>4 DEF LogInv, SizeInv
<1> QED BY <1>1, LogInvariant, PTL

=============================================================================
