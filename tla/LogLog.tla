------------------------------- MODULE LogLog -------------------------------
(***************************************************************************)
(* The log library of src/logLog.c as the daemon uses it: logInit at the   *)
(* start, logInf from main and from both signal handlers on the same       *)
(* logdata, logDel at the end of gameover.                                 *)
(*                                                                         *)
(* logInf takes no lock and blocks no signal: a handler that logs runs on  *)
(* top of a logInf that is not finished.  One step is one access to state  *)
(* the frames share: the logdata, its FILE, the static buffer of asctime,  *)
(* the files.  A line is a number, 0 for those an earlier run has left in  *)
(* main.log; all lines have the same length.  A rotated file is known by   *)
(* the second in its name.                                                 *)
(***************************************************************************)
EXTENDS Integers, Sequences, SequencesExt

CONSTANTS
  Kb,        \* 1024, the margin and the unit of sizes
  LineLen,   \* length of a line, shorter than Kb
  Sizes,     \* the sizes logInit may be called with
  OldLines,  \* the numbers of lines an earlier run may have left in main.log
  Half,      \* 2^31: the sizes from here on are negative as an int
  MaxLines,  \* bound: calls of logInf
  MaxTime    \* bound: seconds

ASSUME SizeAssumption ==
  Kb \in Nat \ {0} /\ LineLen \in 1..(Kb - 1) /\ Sizes \subseteq Int
ASSUME BoundAssumption == MaxLines \in Nat /\ MaxTime \in Nat \ {0}
ASSUME IntAssumption ==
  /\ Half \in Nat /\ Kb * Kb + 2 * LineLen < Half
  /\ OldLines \subseteq Nat /\ \A k \in OldLines : (k + MaxLines + 1) * LineLen < 2 * Half

Handlers == {"alrm", "usr1"}
Frames == {"main"} \cup Handlers
Second == 1..MaxTime
Line == 0..(MaxLines + 1)   \* gameover has one more

VARIABLES
  status,   \* running, exited, undefined (after undefined behaviour)
  stack,    \* the active frames, the running one last
  pc,       \* where each frame is in logInf; out if it is not in it
  line,     \* the line each frame logs
  name,     \* the second in the file name each frame has formatted
  now, tim, \* the clock, and the static buffer of asctime
  tzlock,   \* the frame inside localtime, which holds a lock
  ld,       \* the logdata: none, live, freed
  fg,       \* its FILE: null, open, closed (fclose was called, pointer kept)
  maxsize,
  buf,      \* lines written to the FILE and not flushed
  main,     \* lines in main.log
  rotated,  \* lines in the file of each second
  \* history
  calls,    \* calls of logInf so far
  accepted, \* lines logInf returned 0 for
  clash,    \* a rename replaced a file with lines
  failed,   \* a stat, a rename or a reopen failed
  old       \* lines in main.log before the process started

frameVars == <<stack, pc, line, name>>
timeVars  == <<now, tim, tzlock>>
logVars   == <<ld, fg, maxsize, buf>>
fileVars  == <<main, rotated, old>>
histVars  == <<calls, accepted, clash, failed>>
vars == <<status, frameVars, timeVars, logVars, fileVars, histVars>>

Pcs == {"out", "localtime", "release", "stat", "name", "close", "null", "rename", "reopen",
        "write", "flush"}
InLog(c) == pc[c] # "out"
Top == stack[Len(stack)]

Init ==
  /\ status = "running" /\ stack = <<"main">>
  /\ pc = [c \in Frames |-> "out"] /\ line = [c \in Frames |-> 0]
  /\ name = [c \in Frames |-> 0] /\ now = 1 /\ tim = 0 /\ tzlock = "none"
  /\ ld = "none" /\ fg = "null" /\ maxsize = 0 /\ buf = << >>
  /\ old \in OldLines /\ main = [k \in 1..old |-> 0]
  /\ rotated = [t \in Second |-> << >>]
  /\ calls = 0 /\ accepted = {} /\ clash = FALSE /\ failed = {}

-----------------------------------------------------------------------------
(***************************************************************************)
(* logInit.                                                                *)
(***************************************************************************)
\* The size is given in kilobytes and cut to a megabyte (mutant: not cut).
Uncut(size) == size
Clamp(size) == IF size > Kb THEN Kb ELSE size

\* main calls logInit first and ends without a log.  The file is opened to append.
LogInit ==
  /\ status = "running" /\ ld = "none"
  /\ \/ /\ ld' = "live" /\ fg' = "open" /\ status' = status
        /\ \E size \in Sizes : maxsize' = Clamp(size) * Kb
     \/ status' = "exited" /\ UNCHANGED <<ld, fg, maxsize>>
  /\ UNCHANGED <<frameVars, timeVars, buf, fileVars, histVars>>

-----------------------------------------------------------------------------
(***************************************************************************)
(* Frames and undefined behaviour.                                         *)
(***************************************************************************)
\* The next step of frame c follows a pointer to a freed logdata, or hands stdio
\* a FILE that is closed or NULL.
Undefined(c) ==
  \/ pc[c] \notin {"out", "localtime", "release"} /\ ld = "freed"
  \/ pc[c] \in {"close", "write", "flush"} /\ fg # "open"

\* Frame c runs, is at label l of logInf, and its next step is defined.
At(c, l) == status = "running" /\ ld # "none" /\ Top = c /\ pc[c] = l /\ ~Undefined(c)

Goto(c, l) == pc' = [pc EXCEPT ![c] = l]

\* So is a call of logInf or logDel with a logdata that is freed.
Fault(c) ==
  /\ status = "running" /\ Top = c /\ (Undefined(c) \/ (pc[c] = "out" /\ ld = "freed"))
  /\ status' = "undefined"
  /\ UNCHANGED <<frameVars, timeVars, logVars, fileVars, histVars>>

\* A signal interrupts whatever runs, unless its handler is active.
Interrupt(h) ==
  /\ status = "running" /\ ld # "none" /\ h \notin ToSet(stack) /\ calls < MaxLines
  /\ stack' = Append(stack, h)
  /\ line' = [line EXCEPT ![h] = 0]
  /\ UNCHANGED <<status, pc, name, timeVars, logVars, fileVars, histVars>>

\* gameover logs one line before anything else.
Logged(c) == c = "usr1" => line[c] # 0

\* The timer handler returns, and gameover does with no library loaded.
HandlerReturn(h) ==
  /\ At(h, "out") /\ h # "main" /\ Logged(h)
  /\ stack' = Front(stack)
  /\ UNCHANGED <<status, pc, line, name, timeVars, logVars, fileVars, histVars>>

\* gameover, called by main or as a handler, ends the process with logDel, which
\* flushes the FILE.
LogDel(c) ==
  /\ At(c, "out") /\ c # "alrm" /\ Logged(c) /\ ld = "live"
  /\ main' = IF fg = "open" THEN main \o buf ELSE main
  /\ buf' = << >> /\ ld' = "freed" /\ fg' = "null" /\ status' = "exited"
  /\ UNCHANGED <<frameVars, timeVars, maxsize, rotated, old, histVars>>

Clock ==
  /\ status = "running" /\ now < MaxTime
  /\ now' = now + 1
  /\ UNCHANGED <<status, frameVars, tim, tzlock, logVars, fileVars, histVars>>

-----------------------------------------------------------------------------
(***************************************************************************)
(* logInf.                                                                 *)
(***************************************************************************)
\* Mutant: the FILE is not tested.
CallUnchecked(c) ==
  /\ At(c, "out") /\ ld = "live"
  /\ IF c = "usr1" THEN ~Logged(c) ELSE calls < MaxLines
  /\ calls' = calls + 1
  /\ line' = [line EXCEPT ![c] = calls + 1]
  /\ Goto(c, "localtime")
  /\ UNCHANGED <<status, stack, name, timeVars, logVars, fileVars, accepted, clash, failed>>

\* Without a FILE the line is dropped.  The bound leaves gameover its one line.
Call(c) ==
  /\ At(c, "out") /\ ld = "live"
  /\ IF c = "usr1" THEN ~Logged(c) ELSE calls < MaxLines
  /\ calls' = calls + 1
  /\ line' = [line EXCEPT ![c] = calls + 1]
  /\ IF fg = "null" THEN pc' = pc ELSE Goto(c, "localtime")
  /\ UNCHANGED <<status, stack, name, timeVars, logVars, fileVars, accepted, clash, failed>>

\* localtime takes its lock; a frame on top of one inside it waits for ever.
LocalTime(c) ==
  /\ At(c, "localtime") /\ tzlock = "none"
  /\ tzlock' = c /\ tim' = now
  /\ Goto(c, "release")
  /\ UNCHANGED <<status, stack, line, name, now, logVars, fileVars, histVars>>

Release(c) ==
  /\ At(c, "release")
  /\ tzlock' = "none"
  /\ Goto(c, "stat")
  /\ UNCHANGED <<status, stack, line, name, now, tim, logVars, fileVars, histVars>>

\* The size from which isneedcp asks for a rotation (mutant: without the margin).
LimitFull == maxsize
Limit == maxsize - Kb

\* The size of main.log, which stat gives, as the int isneedcp compares.
Size == Len(main) * LineLen
AsInt(n) == IF n < Half THEN n ELSE n - 2 * Half

\* isneedcp: a maximum below the margin switches rotation off, and so does a stat
\* that fails, for this line.
Stat(c) ==
  /\ At(c, "stat")
  /\ \/ /\ Goto(c, IF maxsize >= Kb /\ AsInt(Size) >= Limit THEN "name" ELSE "write")
        /\ failed' = failed
     \/ maxsize >= Kb /\ Goto(c, "write") /\ failed' = failed \cup {"stat"}
  /\ UNCHANGED <<status, stack, line, name, timeVars, logVars, fileVars, calls, accepted, clash>>

\* The new name is made of what the static buffer holds by now.
Name(c) ==
  /\ At(c, "name")
  /\ name' = [name EXCEPT ![c] = tim]
  /\ Goto(c, "close")
  /\ UNCHANGED <<status, stack, line, timeVars, logVars, fileVars, histVars>>

Close(c) ==
  /\ At(c, "close")
  /\ main' = main \o buf /\ buf' = << >> /\ fg' = "closed"
  /\ Goto(c, "null")
  /\ UNCHANGED <<status, stack, line, name, timeVars, ld, maxsize, rotated, old, histVars>>

\* Mutant: the pointer is not cleared.
SetNullForgotten(c) ==
  /\ At(c, "null")
  /\ Goto(c, "rename")
  /\ UNCHANGED <<status, stack, line, name, timeVars, logVars, fileVars, histVars>>

SetNull(c) ==
  /\ At(c, "null")
  /\ fg' = "null"
  /\ Goto(c, "rename")
  /\ UNCHANGED <<status, stack, line, name, timeVars, ld, maxsize, buf, fileVars, histVars>>

\* Mutant: the file is opened anew under its old name and truncated.
RenameTruncates(c) ==
  /\ At(c, "rename")
  /\ main' = << >>
  /\ Goto(c, "reopen")
  /\ UNCHANGED <<status, stack, line, name, timeVars, logVars, rotated, old, histVars>>

\* rename replaces a file of that name; its result is not looked at.
Rename(c) ==
  /\ At(c, "rename")
  /\ \/ /\ rotated' = [rotated EXCEPT ![name[c]] = main] /\ main' = << >>
        /\ clash' = (clash \/ rotated[name[c]] # << >>) /\ failed' = failed
     \/ failed' = failed \cup {"rename"} /\ UNCHANGED <<main, rotated, clash>>
  /\ Goto(c, "reopen")
  /\ UNCHANGED <<status, stack, line, name, timeVars, logVars, old, calls, accepted>>

\* A failed reopen deletes the log; the caller's pointer stays as it is.
Reopen(c) ==
  /\ At(c, "reopen")
  /\ \/ fg' = "open" /\ Goto(c, "write") /\ UNCHANGED <<ld, failed>>
     \/ ld' = "freed" /\ fg' = "null" /\ failed' = failed \cup {"reopen"} /\ Goto(c, "out")
  /\ UNCHANGED <<status, stack, line, name, timeVars, maxsize, buf, fileVars, calls, accepted,
                 clash>>

Write(c) ==
  /\ At(c, "write")
  /\ buf' = Append(buf, line[c])
  /\ Goto(c, "flush")
  /\ UNCHANGED <<status, stack, line, name, timeVars, ld, fg, maxsize, fileVars, histVars>>

\* Mutant: the FILE is not flushed.
FlushForgotten(c) ==
  /\ At(c, "flush")
  /\ accepted' = accepted \cup {line[c]}
  /\ Goto(c, "out")
  /\ UNCHANGED <<status, stack, line, name, timeVars, logVars, fileVars, calls, clash, failed>>

Flush(c) ==
  /\ At(c, "flush")
  /\ main' = main \o buf /\ buf' = << >>
  /\ accepted' = accepted \cup {line[c]}
  /\ Goto(c, "out")
  /\ UNCHANGED <<status, stack, line, name, timeVars, ld, fg, maxsize, rotated, old, calls,
                 clash, failed>>

-----------------------------------------------------------------------------
LogInf(c) ==
  \/ Call(c) \/ LocalTime(c) \/ Release(c) \/ Stat(c) \/ Name(c) \/ Close(c) \/ SetNull(c)
  \/ Rename(c) \/ Reopen(c) \/ Write(c) \/ Flush(c)

\* The process has ended, or waits for a lock that a frame below holds.
Ended == status # "running" /\ UNCHANGED vars
Hangs == status = "running" /\ pc[Top] = "localtime" /\ tzlock # "none" /\ UNCHANGED vars

Next ==
  \/ LogInit \/ Clock
  \/ \E h \in Handlers : Interrupt(h) \/ HandlerReturn(h)
  \/ \E c \in Frames : LogInf(c) \/ LogDel(c) \/ Fault(c)
  \/ Ended \/ Hangs

Spec == Init /\ [][Next]_vars

\* A frame that is on top again and again moves; main need not call again.
FairSpec ==
  /\ Spec
  /\ \A c \in Frames : SF_vars(LogInf(c) \/ Fault(c) \/ HandlerReturn(c))

-----------------------------------------------------------------------------
(***************************************************************************)
(* What the log promises.                                                  *)
(***************************************************************************)
TypeOK ==
  /\ status \in {"running", "exited", "undefined"}
  /\ stack \in Seq(Frames) /\ Len(stack) >= 1 /\ stack[1] = "main" /\ IsInjective(stack)
  /\ pc \in [Frames -> Pcs] /\ line \in [Frames -> 0..(MaxLines + 1)]
  /\ name \in [Frames -> 0..MaxTime] /\ now \in Second /\ tim \in 0..MaxTime
  /\ tzlock \in Frames \cup {"none"}
  /\ ld \in {"none", "live", "freed"} /\ fg \in {"null", "open", "closed"}
  /\ maxsize \in Int /\ maxsize <= Kb * Kb
  /\ main \in Seq(Line) /\ buf \in Seq(Line) /\ rotated \in [Second -> Seq(Line)]
  /\ calls \in 0..(MaxLines + 1) /\ accepted \subseteq Line
  /\ clash \in BOOLEAN /\ failed \subseteq {"stat", "rename", "reopen"}
  /\ old \in OldLines

\* However the calls of logInf nest, once the last of them has returned the log
\* is open and nothing waits in its buffer: no later line is dropped.
LogReady ==
  status = "running" /\ ld = "live" /\ (\A c \in Frames : ~InLog(c)) => fg = "open" /\ buf = << >>

\* Unless a reopen has failed, the two statements between which a handler that
\* logs meets undefined behaviour are fclose and the clearing of fg.
OneWindow ==
  status = "undefined" => "reopen" \in failed \/ \E c \in Frames : c # Top /\ pc[c] = "null"

\* A line logInf has accepted is in main.log or in a rotated file, whatever
\* rotations happened in and on top of its logInf, unless two rotations got the
\* same name.
Stored(x) == x \in ToSet(main) \/ \E t \in Second : x \in ToSet(rotated[t])
LinesKept == ~clash => \A x \in accepted : Stored(x)

\* Rotation is on and has always worked: neither stat nor rename has failed, and
\* the size of the file an earlier run has left is one an int can hold.
Rotates == maxsize >= Kb /\ {"stat", "rename"} \cap failed = {} /\ old * LineLen < Half

\* Then a file is larger than its maximum by at most the lines of the two handlers,
\* which pass isneedcp on top of a logInf that has passed it, or it is what an
\* earlier run has left.
Fits(n) == n * LineLen <= maxsize + 2 * LineLen \/ n <= old
SizeBounded ==
  Rotates => \A f \in {main} \cup {rotated[t] : t \in Second} : Fits(Len(f))

-----------------------------------------------------------------------------
(***************************************************************************)
(* The inductive invariant behind these.                                   *)
(***************************************************************************)
\* Only active frames are in logInf, and the frames on top of one that has no
\* FILE are not.  Each frame logs a line that has a number; gameover has one
\* left until its call.
FrameInv ==
  /\ \A c \in Frames : InLog(c) => c \in ToSet(stack) /\ line[c] # 0
  /\ \A p, q \in DOMAIN stack :
       p < q /\ pc[stack[p]] \in {"rename", "reopen"} => ~InLog(stack[q])
  /\ calls = MaxLines + 1 => line["usr1"] # 0

\* A name is made after asctime has filled its buffer.
NameInv ==
  /\ \A c \in Frames : pc[c] \notin {"out", "localtime"} => tim \in Second
  /\ \A c \in Frames : pc[c] \in {"close", "null", "rename"} => name[c] \in Second

\* The FILE is as the one frame that rotates has left it.
Window == {"null", "rename", "reopen"}
FileInv ==
  /\ \A c, d \in Frames : pc[c] \in Window /\ pc[d] \in Window => c = d
  /\ ld = "live" =>
       \A c \in Frames : (pc[c] = "null" => fg = "closed") /\ (pc[c] \in {"rename", "reopen"} => fg = "null")
  /\ ld = "live" /\ fg = "closed" => \E c \in Frames : pc[c] = "null"
  /\ ld = "live" /\ fg = "null" => \E c \in Frames : pc[c] \in {"rename", "reopen"}
  /\ ld = "freed" => fg = "null" /\ (status = "running" => "reopen" \in failed)
  /\ ld = "none" =>
       fg = "null" /\ Len(main) = old /\ (\A c \in Frames : ~InLog(c)) /\ \A t \in Second : rotated[t] = << >>

\* Lines wait in the buffer only for a frame that is about to flush it, and the
\* line of such a frame is there or already in a file.
Count(l) == (IF pc["main"] = l THEN 1 ELSE 0) + (IF pc["alrm"] = l THEN 1 ELSE 0)
            + (IF pc["usr1"] = l THEN 1 ELSE 0)
BufInv ==
  /\ Len(buf) <= Count("flush") /\ (buf # << >> => fg = "open")
  /\ ~clash => \A c \in Frames : pc[c] = "flush" => line[c] \in ToSet(buf) \/ Stored(line[c])

\* What is in main.log, in the buffer and past isneedcp fits together.
SizeInv ==
  Rotates =>
    /\ Fits(Len(main) + Len(buf) + Count("write"))
    /\ \A t \in Second : Fits(Len(rotated[t]))
    /\ (\E c \in Frames : pc[c] = "reopen") => main = << >>

LogInv ==
  TypeOK /\ FrameInv /\ NameInv /\ FileInv /\ BufInv /\ SizeInv /\ LinesKept /\ OneWindow

-----------------------------------------------------------------------------
\* README: start.sh -s stop stops the program.  gameover comes back from its
\* first line, the call of logInf.
StopLogs ==
  (Top = "usr1" /\ pc["usr1"] = "localtime") ~> (pc["usr1"] # "localtime" \/ status # "running")

=============================================================================
