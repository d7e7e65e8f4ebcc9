----------------------------- MODULE TimeDaemon -----------------------------
(***************************************************************************)
(* The daemon process of src/main.c: the startup sequence of main(), the   *)
(* list of task libraries (cycdata) it builds, and the two signal handlers *)
(* that run on top of it, cycleTimeMethod (SIGALRM) and gameover (SIGUSR1).*)
(*                                                                         *)
(* There is one thread.  A signal handler interrupts whatever runs and the *)
(* interrupted code resumes only when the handler returns, so the process  *)
(* is a stack of frames of which only the top one moves.  Both handlers    *)
(* are installed with an empty sa_mask: a handler blocks its own signal    *)
(* and nothing else.                                                       *)
(*                                                                         *)
(* A cycdata node is identified by the position at which readdir returned  *)
(* its library; 0 is the NULL pointer.  One step is one access of the code *)
(* to the state another frame can see.  Of logLog two things are kept:     *)
(* it waits for localtime's lock, and when it cannot open the file again   *)
(* it deletes the log, which no caller notices.  What it does to the files *)
(* is in LogLog.                                                           *)
(***************************************************************************)
EXTENDS Integers, Sequences

CONSTANTS
  N,           \* number of directory entries readdir returns
  NameOf,      \* NameOf[m]: library name of entry m, case folded
  Confs,       \* the configurations: non-empty sequences of block names
  ExportSets,  \* the sets of methods a library may export
  MaxKey       \* the largest cycle time a library asks for

Node    == 1..N
Methods == {"init", "login", "seach", "howdo", "send", "deldate"}

ASSUME NAssumption == N \in Nat
ASSUME MaxKeyAssumption == MaxKey \in Nat
ASSUME ExportAssumption == ExportSets \subseteq SUBSET Methods
ASSUME ConfAssumption ==
  \A b \in Confs : Len(b) \in Nat \ {0} /\ DOMAIN b = 1..Len(b)

\* The order in which loadLib stores the six function pointers.
MethodOrder ==
  [k \in 1..6 |-> CASE k = 1 -> "init"  [] k = 2 -> "login" [] k = 3 -> "seach"
                    [] k = 4 -> "howdo" [] k = 5 -> "send"  [] k = 6 -> "deldate"]

Handlers == {"alrm", "usr1"}
Frames   == {"main"} \cup Handlers

VARIABLES
  \* the process and its signals
  status,      \* running, exited, killed, or undefined (after undefined behaviour)
  caught,      \* sigaction has been called for both signals
  timer,       \* setitimer has been called
  pend,        \* the pending signals
  run,         \* the frame on top of the stack
  resume,      \* the frame each handler interrupted, "none" if it is not active
  pc,          \* where each frame is
  incall,      \* the frames inside a library's method
  logging,     \* each frame's logLog: no, time (in localtime, locked), wait (for its lock)
  cyc,         \* the cyctem cursor of each frame
  \* the heap
  heap,        \* memory of each node: none, live, freed
  next,        \* cycdata.next
  keylen,      \* tidata.key.len, the cycle time
  vallen,      \* tidata.value.len, the passes counted so far
  fn,          \* the methods whose pointers are stored in the node
  fdlib,       \* the nodes holding a library handle
  fdate,       \* index of the node's configuration block, 0 for NULL
  ld,          \* the node's log: null, main, own; the pointer to a deleted one is
               \* dead (by logDel) or lost (by logLog itself)
  cychead, cycheadnext,
  blocks,      \* filehead: the configuration blocks, << >> for NULL
  shead,       \* the configuration text is allocated
  mainld,      \* the main log: null, open, dead, lost
  mapped,      \* the libraries dlopen has loaded and dlclose not yet unloaded
  \* locals of main and the functions it calls
  entry, libnumhas, syms, wired, filetem, cycnext,
  \* history
  tinit,       \* how far TimeInit came with each node: no, begun, ready
  released     \* how often each node's deldate was called

procVars == <<status, caught, timer, pend, run, resume>>
dataVars == <<next, keylen, vallen, fn, fdate, ld>>
listVars == <<cychead, cycheadnext>>
fileVars == <<blocks, shead, mainld>>
libVars  == <<fdlib, mapped>>
mainVars == <<entry, libnumhas, syms, wired, filetem, cycnext>>
histVars == <<tinit, released>>
heapVars == <<heap, dataVars, listVars, fileVars, libVars>>
vars == <<procVars, pc, incall, logging, cyc, heapVars, mainVars, histVars>>

LoadPcs == {"start", "sigaction", "setitimer", "loadFile", "readFile",
            "opendir", "readdir", "dlsym", "cycmake", "link", "tail", "wire"}
BindPcs == {"match", "prune", "unlink", "free"}
InitPcs == {"init", "login", "initnext"}
TickPcs == {"tick", "count", "seach", "howdo", "send", "next"}
WalkPcs == {"go_log", "go_ld", "deldate", "go_dl", "go_free"}
LastPcs == {"go_clear", "go_logdel", "go_exit"}
GamePcs == {"go"} \cup WalkPcs \cup LastPcs

FramePcs ==
  [main |-> LoadPcs \cup BindPcs \cup InitPcs \cup {"pause"} \cup GamePcs,
   alrm |-> {"idle"} \cup TickPcs,
   usr1 |-> {"idle"} \cup GamePcs]

ProcType ==
  /\ status \in {"running", "exited", "killed", "undefined"}
  /\ caught \in BOOLEAN /\ timer \in BOOLEAN
  /\ pend \subseteq Handlers
  /\ run \in Frames
  /\ resume \in [Handlers -> Frames \cup {"none"}]

FrameType ==
  /\ DOMAIN pc = Frames /\ \A c \in Frames : pc[c] \in FramePcs[c]
  /\ incall \subseteq Frames
  /\ cyc \in [Frames -> 0..N]

LogType == logging \in [Frames -> {"no", "time", "wait"}]

NodeType ==
  /\ heap \in [Node -> {"none", "live", "freed"}]
  /\ next \in [Node -> 0..N]
  /\ keylen \in [Node -> -1..MaxKey]
  /\ vallen \in [Node -> 0..MaxKey]
  /\ fn \in [Node -> SUBSET Methods]
  /\ fdate \in [Node -> Nat]
  /\ ld \in [Node -> {"null", "main", "own", "dead", "lost"}]

GlobalType ==
  /\ cychead \in 0..N /\ cycheadnext \in 0..N
  /\ blocks \in Confs \cup {<< >>} /\ shead \in BOOLEAN
  /\ mainld \in {"null", "open", "dead", "lost"}
  /\ fdlib \subseteq Node /\ mapped \subseteq Node

LocalType ==
  /\ entry \in 0..N /\ libnumhas \in Nat /\ syms \subseteq Methods
  /\ wired \in 0..6 /\ filetem \in Nat /\ cycnext \in 0..N
  /\ tinit \in [Node -> {"no", "begun", "ready"}]
  /\ released \in [Node -> Nat]

TypeOK == ProcType /\ FrameType /\ LogType /\ NodeType /\ GlobalType /\ LocalType

Init ==
  /\ status = "running" /\ caught = FALSE /\ timer = FALSE
  /\ pend = {} /\ run = "main" /\ resume = [h \in Handlers |-> "none"]
  /\ pc = [c \in Frames |-> IF c = "main" THEN "start" ELSE "idle"]
  /\ incall = {} /\ logging = [c \in Frames |-> "no"] /\ cyc = [c \in Frames |-> 0]
  /\ heap = [m \in Node |-> "none"]
  /\ next = [m \in Node |-> 0]
  /\ keylen = [m \in Node |-> 0] /\ vallen = [m \in Node |-> 0]
  /\ fn = [m \in Node |-> {}] /\ fdlib = {} /\ mapped = {}
  /\ fdate = [m \in Node |-> 0] /\ ld = [m \in Node |-> "null"]
  /\ cychead = 0 /\ cycheadnext = 0
  /\ blocks = << >> /\ shead = FALSE /\ mainld = "null"
  /\ entry = 0 /\ libnumhas = 0 /\ syms = {} /\ wired = 0
  /\ filetem = 0 /\ cycnext = 0
  /\ tinit = [m \in Node |-> "no"] /\ released = [m \in Node |-> 0]

-----------------------------------------------------------------------------
(***************************************************************************)
(* Frames and undefined behaviour.                                         *)
(***************************************************************************)
CursorPcs == {"match", "prune", "unlink", "init", "login", "initnext", "count",
              "seach", "howdo", "send", "next"} \cup WalkPcs

\* The log frame c writes to: a method writes to its library's log.
LogOf(c) == IF c \in incall THEN ld[cyc[c]] ELSE "main"

Deleted == {"dead", "lost"}
LogDeleted(c) == LogOf(c) \in Deleted \/ (LogOf(c) = "main" /\ mainld \in Deleted)

\* The next step of frame c is undefined: it follows a pointer to a node that
\* is not live, executes a library that is not loaded, or uses a deleted log.
\* That malloc and stdio may not be re-entered is not part of it.
Undefined(c) ==
  \/ pc[c] \in CursorPcs /\ cyc[c] # 0 /\ heap[cyc[c]] # "live"
  \/ pc[c] = "link" /\ cychead # 0 /\ (cycheadnext = 0 \/ heap[cycheadnext] # "live")
  \/ c \in incall /\ cyc[c] \notin mapped
  \/ logging[c] # "no" /\ LogDeleted(c)
  \/ pc[c] = "go_log" /\ cyc[c] # 0 /\ ld[cyc[c]] \in Deleted
  \/ pc[c] = "go_logdel" /\ mainld \in Deleted

\* Frame c is on top of the stack and its next step is defined.
Moves(c) == status = "running" /\ run = c /\ ~Undefined(c)

\* Frame c is on top of the stack at label l, not in logLog.
At(c, l) == pc[c] = l /\ logging[c] = "no" /\ Moves(c)

Goto(c, l) == pc' = [pc EXCEPT ![c] = l]

\* Frame c moves to label l with its cursor on node m.
GotoNode(c, l, m) == Goto(c, l) /\ cyc' = [cyc EXCEPT ![c] = m]

\* Frame c, on top, calls logLog, which begins with localtime.  Its lock is not
\* recursive: when a frame below holds it, c waits for ever.
Logs(c) ==
  logging' = [logging EXCEPT ![c] = IF \E d \in Frames : logging[d] = "time" THEN "wait" ELSE "time"]
Silent == logging' = logging

\* Main logs an error it ends with, and gameover starts with another line.
LogsError == IF pc'["main"] = "go" THEN Logs("main") ELSE Silent

\* What follows undefined behaviour is not modelled.
Fault(c) ==
  /\ status = "running" /\ run = c /\ Undefined(c)
  /\ status' = "undefined"
  /\ UNCHANGED <<caught, timer, pend, run, resume, pc, incall, logging, cyc, heapVars, mainVars, histVars>>

Exit ==
  /\ status' = "exited"
  /\ UNCHANGED <<caught, timer, pend, run, resume>>

\* Handler h returns to the frame it interrupted.
HandlerReturn(h) ==
  /\ run' = resume[h]
  /\ resume' = [resume EXCEPT ![h] = "none"]
  /\ GotoNode(h, "idle", 0)
  /\ UNCHANGED <<status, caught, timer, pend>>

-----------------------------------------------------------------------------
(***************************************************************************)
(* Signals (the kernel and start.sh).                                      *)
(***************************************************************************)
\* The interval timer expires; a second expiry while one is pending is lost.
Tick ==
  /\ status = "running" /\ timer /\ "alrm" \notin pend
  /\ pend' = pend \cup {"alrm"}
  /\ UNCHANGED <<status, caught, timer, run, resume, pc, incall, logging, cyc, heapVars, mainVars, histVars>>

\* start.sh -s stop sends SIGUSR1; before sigaction its default action kills.
Stop ==
  /\ status = "running" /\ "usr1" \notin pend
  /\ IF caught THEN pend' = pend \cup {"usr1"} /\ status' = status
               ELSE pend' = pend /\ status' = "killed"
  /\ UNCHANGED <<caught, timer, run, resume, pc, incall, logging, cyc, heapVars, mainVars, histVars>>

\* A pending signal whose handler is not active interrupts the running frame.
Deliver(h) ==
  /\ status = "running" /\ h \in pend /\ resume[h] = "none"
  /\ pend' = pend \ {h}
  /\ resume' = [resume EXCEPT ![h] = run]
  /\ run' = h
  /\ Goto(h, IF h = "alrm" THEN "tick" ELSE "go")
  /\ IF h = "alrm" THEN Silent ELSE Logs(h)
  /\ UNCHANGED <<status, caught, timer, incall, cyc, heapVars, mainVars, histVars>>

-----------------------------------------------------------------------------
(***************************************************************************)
(* The library's methods.  A NULL pointer is skipped; otherwise the method *)
(* runs, may be interrupted, and returns a result.  External code: it      *)
(* touches the daemon's state only as noted at init and by logging.        *)
(***************************************************************************)
\* Where the caller goes after a method that returned >= 0 or was skipped.
AfterCall == [init |-> "login", login |-> "initnext", seach |-> "howdo",
              howdo |-> "send", send |-> "next", deldate |-> "go_dl"]

\* Mutant: a release function that fails is called again.
OnErrorRetry == [init |-> "go", login |-> "go", seach |-> "next",
                 howdo |-> "next", send |-> "next", deldate |-> "deldate"]

\* Where the caller goes after a method that returned < 0.
OnError == [init |-> "go", login |-> "go", seach |-> "next",
            howdo |-> "next", send |-> "next", deldate |-> "go_dl"]

\* Frame c at method label l tests the pointer and enters the method.
Invoke(c, l) ==
  /\ At(c, l) /\ c \notin incall /\ cyc[c] # 0
  /\ IF l \in fn[cyc[c]]
       THEN incall' = incall \cup {c} /\ pc' = pc
       ELSE incall' = incall /\ Goto(c, AfterCall[l])
  /\ Silent

\* The method entered by frame c returns, with a result of either sign.  A negative
\* one is logged, except that of deldate.
Return(c, l) ==
  /\ At(c, l) /\ c \in incall
  /\ incall' = incall \ {c}
  /\ \/ Goto(c, AfterCall[l]) /\ Silent
     \/ /\ Goto(c, OnError[l])
        /\ IF l = "deldate" THEN Silent ELSE Logs(c)

-----------------------------------------------------------------------------
(***************************************************************************)
(* logLog, which every frame calls.                                        *)
(***************************************************************************)
\* A method writes to its library's log, unless that is NULL.
MethodLog(c) ==
  /\ c \in incall /\ logging[c] = "no" /\ ld[cyc[c]] # "null" /\ Moves(c)
  /\ Logs(c)
  /\ UNCHANGED <<procVars, pc, incall, cyc, heapVars, mainVars, histVars>>

\* The rest of logLog: the line is written, or a rotation cannot open the file
\* again, deletes the log and returns an error every caller ignores.
LogDone(c) ==
  /\ logging[c] = "time" /\ Moves(c)
  /\ logging' = [logging EXCEPT ![c] = "no"]
  /\ \/ UNCHANGED <<ld, mainld>>
     \/ LogOf(c) = "main" /\ mainld' = "lost" /\ ld' = ld
     \/ LogOf(c) = "own" /\ ld' = [ld EXCEPT ![cyc[c]] = "lost"] /\ mainld' = mainld
  /\ UNCHANGED <<procVars, pc, incall, cyc, heap, next, keylen, vallen, fn, fdate, listVars,
                 blocks, shead, libVars, mainVars, histVars>>

\* A frame that waits never moves again, nor does anything below it.
Hung == status = "running" /\ \E c \in Frames : logging[c] = "wait"

-----------------------------------------------------------------------------
(***************************************************************************)
(* main(): from the start of the program to the first library.             *)
(***************************************************************************)
\* Frame main is at label l.  Every action of main starts with it.
Main(l) == At("main", l)

\* logInit, fork and setsid: the daemon is the child with the main log open; a
\* failure of any of them leaves no daemon.  It logs when /dev/null cannot be opened.
Start ==
  /\ Main("start")
  /\ \/ /\ mainld' = "open" /\ Goto("main", "sigaction") /\ UNCHANGED procVars
        /\ Logs("main") \/ Silent
     \/ mainld' = mainld /\ pc' = pc /\ Silent /\ Exit
  /\ UNCHANGED <<incall, cyc, heap, dataVars, listVars, blocks, shead, libVars, mainVars, histVars>>

SigAction ==
  /\ Main("sigaction")
  /\ caught' = TRUE
  /\ Goto("main", "setitimer")
  /\ UNCHANGED <<status, timer, pend, run, resume, incall, logging, cyc, heapVars, mainVars, histVars>>

\* The timer runs from here on, before anything is loaded.  A configuration named
\* on the command line is logged.
SetTimer ==
  /\ Main("setitimer")
  /\ timer' = TRUE
  /\ Goto("main", "loadFile")
  /\ Logs("main") \/ Silent
  /\ UNCHANGED <<status, caught, pend, run, resume, incall, cyc, heapVars, mainVars, histVars>>

LoadFile ==
  /\ Main("loadFile")
  /\ \/ shead' = TRUE /\ Goto("main", "readFile")
     \/ shead' = shead /\ Goto("main", "go")
  /\ LogsError
  /\ UNCHANGED <<procVars, incall, cyc, heap, dataVars, listVars, blocks, mainld, libVars,
         mainVars, histVars>>

ReadFile ==
  /\ Main("readFile")
  /\ \/ blocks' \in Confs /\ Goto("main", "opendir")
     \/ blocks' = blocks /\ Goto("main", "go")
  /\ Logs("main")
  /\ UNCHANGED <<procVars, incall, cyc, heap, dataVars, listVars, shead, mainld, libVars,
         mainVars, histVars>>

-----------------------------------------------------------------------------
(***************************************************************************)
(* loadLib and cycmake.                                                    *)
(***************************************************************************)
OpenDir ==
  /\ Main("opendir")
  /\ \/ Goto("main", "readdir")
     \/ Goto("main", "go")
  /\ LogsError
  /\ UNCHANGED <<procVars, incall, cyc, heapVars, mainVars, histVars>>

\* readdir returns the next entry: its name does not fit and it is skipped, or
\* dlopen fails and loadLib returns an error, or the library is loaded.
ReadDir ==
  /\ Main("readdir") /\ entry < N
  /\ entry' = entry + 1
  /\ \/ pc' = pc /\ Logs("main") /\ UNCHANGED <<mapped, syms>>
     \/ Goto("main", "go") /\ Logs("main") /\ UNCHANGED <<mapped, syms>>
     \/ /\ mapped' = mapped \cup {entry + 1}
        /\ syms' \in ExportSets
        /\ Goto("main", "dlsym") /\ Silent
  /\ UNCHANGED <<procVars, incall, cyc, heap, dataVars, listVars, fileVars, fdlib,
                 libnumhas, wired, filetem, cycnext, histVars>>

\* A library that exports none of the six methods ends loadLib with an error.
DlSym ==
  /\ Main("dlsym")
  /\ IF syms = {} THEN mapped' = mapped \ {entry} /\ Goto("main", "go")
                  ELSE mapped' = mapped /\ Goto("main", "cycmake")
  /\ Logs("main")
  /\ UNCHANGED <<procVars, incall, cyc, heap, dataVars, listVars, fileVars, fdlib, mainVars,
         histVars>>

\* cycmake allocates and clears the node; a failed malloc is an error of loadLib,
\* which leaves the library loaded.
CycMake ==
  /\ Main("cycmake")
  /\ \/ heap' = [heap EXCEPT ![entry] = "live"] /\ Goto("main", "link")
     \/ heap' = heap /\ Goto("main", "go")
  /\ LogsError
  /\ UNCHANGED <<procVars, incall, cyc, dataVars, listVars, fileVars, libVars, mainVars, histVars>>

\* Mutant: the new node becomes the head of the list.
LinkFront ==
  /\ Main("link")
  /\ cychead' = entry
  /\ Goto("main", "tail")
  /\ UNCHANGED <<procVars, incall, logging, cyc, heap, dataVars, cycheadnext, fileVars, libVars, mainVars,
         histVars>>

\* cycmake makes the node reachable: through cychead or through the last node.
Link ==
  /\ Main("link")
  /\ IF cychead = 0
       THEN cychead' = entry /\ next' = next
       ELSE cychead' = cychead /\ next' = [next EXCEPT ![cycheadnext] = entry]
  /\ Goto("main", "tail")
  /\ UNCHANGED <<procVars, incall, logging, cyc, heap, keylen, vallen, fn, fdate, ld, cycheadnext,
                 fileVars, libVars, mainVars, histVars>>

\* Mutant: cycheadnext is not moved to the new node.
SetTailForgotten ==
  /\ Main("tail")
  /\ Goto("main", "wire")
  /\ UNCHANGED <<procVars, incall, logging, cyc, heapVars, mainVars, histVars>>

SetTail ==
  /\ Main("tail")
  /\ cycheadnext' = entry
  /\ Goto("main", "wire")
  /\ UNCHANGED <<procVars, incall, logging, cyc, heap, dataVars, cychead, fileVars, libVars, mainVars,
         histVars>>

\* The last value of wired: the handle is 0, the six pointers are 1 to 6.
PointersPlusOne == 7
Pointers == 6

\* loadLib stores the handle, then one function pointer after the other, in a
\* node the timer handler already reaches.
Wire ==
  /\ Main("wire")
  /\ IF wired = 0
       THEN fdlib' = fdlib \cup {entry} /\ fn' = fn
       ELSE fdlib' = fdlib /\ fn' = [fn EXCEPT ![entry] = @ \cup (syms \cap {MethodOrder[wired]})]
  /\ IF wired < Pointers
       THEN wired' = wired + 1 /\ UNCHANGED <<libnumhas, pc>>
       ELSE wired' = 0 /\ libnumhas' = libnumhas + 1 /\ Goto("main", "readdir")
  /\ UNCHANGED <<procVars, incall, logging, cyc, heap, next, keylen, vallen, fdate, ld, listVars, fileVars,
                 mapped, entry, syms, filetem, cycnext, histVars>>

\* End of the directory: an error without a library, else toSetCycdata starts.
DirEnd ==
  /\ Main("readdir") /\ entry = N
  /\ IF libnumhas = 0 THEN Goto("main", "go") /\ UNCHANGED <<cyc, filetem>>
                      ELSE GotoNode("main", "match", cychead) /\ filetem' = 1
  /\ Logs("main")
  /\ UNCHANGED <<procVars, incall, heapVars, entry, libnumhas, syms, wired, cycnext, histVars>>

-----------------------------------------------------------------------------
(***************************************************************************)
(* toSetCycdata: give every configuration block its library, then free the *)
(* libraries no block names.                                               *)
(***************************************************************************)
\* strIsSame on the block's name and the node's library name.
SameName(m) == NameOf[m] = blocks[filetem]

\* The node already has a block, and the block is a duplicate (mutant: never).
NeverTaken(m) == FALSE
Taken(m) == fdate[m] # 0

\* One node of the inner loop over the list.
MatchNode ==
  /\ Main("match") /\ filetem <= Len(blocks) /\ cyc["main"] # 0
  /\ LET m == cyc["main"] IN
       \/ /\ ~SameName(m)
          /\ GotoNode("main", "match", next[m])
          /\ UNCHANGED <<fdate, ld, filetem>>
       \/ /\ SameName(m) /\ ~Taken(m)
          /\ fdate' = [fdate EXCEPT ![m] = filetem]
          /\ ld' = [ld EXCEPT ![m] = "main"]
          /\ filetem' = filetem + 1
          /\ GotoNode("main", "match", cychead)
       \/ /\ SameName(m) /\ Taken(m)
          /\ Goto("main", "go")
          /\ UNCHANGED <<cyc, fdate, ld, filetem>>
  /\ LogsError
  /\ UNCHANGED <<procVars, incall, heap, next, keylen, vallen, fn, listVars, fileVars, libVars,
                 entry, libnumhas, syms, wired, cycnext, histVars>>

\* Mutant: a block without a library is passed over.
MatchEndSkips ==
  /\ Main("match")
  /\ \/ /\ filetem <= Len(blocks) /\ cyc["main"] = 0
        /\ GotoNode("main", "match", cychead) /\ filetem' = filetem + 1
     \/ filetem > Len(blocks) /\ GotoNode("main", "prune", cychead) /\ filetem' = filetem
  /\ LogsError
  /\ UNCHANGED <<procVars, incall, heapVars, entry, libnumhas, syms, wired, cycnext, histVars>>

\* The end of the inner loop without a match, or of the outer loop.
MatchEnd ==
  /\ Main("match")
  /\ \/ filetem <= Len(blocks) /\ cyc["main"] = 0 /\ Goto("main", "go") /\ cyc' = cyc
     \/ filetem > Len(blocks) /\ GotoNode("main", "prune", cychead)
  /\ LogsError
  /\ UNCHANGED <<procVars, incall, heapVars, mainVars, histVars>>

\* The second loop logs the libraries it frees, and main the end of the loop.
LogsPrune == IF pc'["main"] = "prune" THEN Silent ELSE Logs("main")

\* Mutant: the cursor is not put back to the head for TimeInit.
PruneKeepsCursor ==
  /\ Main("prune")
  /\ LET m == cyc["main"] IN
       \/ m = 0 /\ GotoNode("main", "init", m) /\ cycnext' = cycnext
       \/ m # 0 /\ fdate[m] # 0 /\ GotoNode("main", "prune", next[m]) /\ cycnext' = cycnext
       \/ m # 0 /\ fdate[m] = 0 /\ Goto("main", "unlink") /\ cyc' = cyc /\ cycnext' = next[m]
  /\ LogsPrune
  /\ UNCHANGED <<procVars, incall, heapVars, entry, libnumhas, syms, wired, filetem, histVars>>

\* One node of the second loop; at its end main starts TimeInit.  freeCycdata finds
\* every node of the list, so its error, which would end main, does not occur.
Prune ==
  /\ Main("prune")
  /\ LET m == cyc["main"] IN
       \/ m = 0 /\ GotoNode("main", "init", cychead) /\ cycnext' = cycnext
       \/ m # 0 /\ fdate[m] # 0 /\ GotoNode("main", "prune", next[m]) /\ cycnext' = cycnext
       \/ m # 0 /\ fdate[m] = 0 /\ Goto("main", "unlink") /\ cyc' = cyc /\ cycnext' = next[m]
  /\ LogsPrune
  /\ UNCHANGED <<procVars, incall, heapVars, entry, libnumhas, syms, wired, filetem, histVars>>

\* Mutant: the rest of the list is cut off.
UnlinkCuts ==
  /\ Main("unlink")
  /\ LET m == cyc["main"] IN
       \/ m = cychead /\ cychead' = next[m] /\ next' = next
       \/ /\ m # cychead /\ cychead' = cychead
          /\ \E BB \in Node : /\ heap[BB] = "live" /\ next[BB] = m
                             /\ next' = [next EXCEPT ![BB] = 0]
  /\ Goto("main", "free")
  /\ UNCHANGED <<procVars, incall, logging, cyc, heap, keylen, vallen, fn, fdate, ld, cycheadnext,
                 fileVars, libVars, mainVars, histVars>>

\* freeCycdata takes the node out of the list: BB is its predecessor.  The
\* cycheadnext pointer is left alone.
Unlink ==
  /\ Main("unlink")
  /\ LET m == cyc["main"] IN
       \/ m = cychead /\ cychead' = next[m] /\ next' = next
       \/ /\ m # cychead /\ cychead' = cychead
          /\ \E BB \in Node : /\ heap[BB] = "live" /\ next[BB] = m
                             /\ next' = [next EXCEPT ![BB] = next[m]]
  /\ Goto("main", "free")
  /\ UNCHANGED <<procVars, incall, logging, cyc, heap, keylen, vallen, fn, fdate, ld, cycheadnext,
                 fileVars, libVars, mainVars, histVars>>

\* freeCycdata unloads and frees the node, which no handler reaches any more;
\* deldate is not called for it.
FreeNode ==
  /\ Main("free")
  /\ LET m == cyc["main"] IN
       /\ mapped' = mapped \ ({m} \cap fdlib)
       /\ fdlib' = fdlib \ {m}
       /\ heap' = [heap EXCEPT ![m] = "freed"]
  /\ GotoNode("main", "prune", cycnext)
  /\ UNCHANGED <<procVars, incall, logging, dataVars, listVars, fileVars, mainVars, histVars>>

-----------------------------------------------------------------------------
(***************************************************************************)
(* The TimeInit loop of main, and the final pause loop, which only waits.  *)
(***************************************************************************)
\* TimeInit tests and enters sysinit, then syslogin.
TimeInit ==
  /\ \E l \in {"init", "login"} : Invoke("main", l)
  /\ tinit' = [tinit EXCEPT ![cyc["main"]] = "begun"]
  /\ UNCHANGED <<procVars, cyc, heapVars, mainVars, released>>

\* sysinit or syslogin returns; a negative result ends the program.  sysinit
\* may set the cycle time and open a log of its own.
TimeInitReturn ==
  /\ \E l \in {"init", "login"} :
       /\ Return("main", l)
       /\ \/ UNCHANGED <<keylen, ld>>
          \/ /\ l = "init"
             /\ \E k \in -1..MaxKey, o \in {"main", "own"} :
                  /\ keylen' = [keylen EXCEPT ![cyc["main"]] = k]
                  /\ ld' = [ld EXCEPT ![cyc["main"]] = o]
  /\ UNCHANGED <<procVars, cyc, heap, next, vallen, fn, fdate, listVars, fileVars, libVars,
                 mainVars, histVars>>

\* TimeInit returned 0: the next library, or the end of the loop.
InitNext ==
  /\ \/ /\ Main("initnext")
        /\ tinit' = [tinit EXCEPT ![cyc["main"]] = "ready"]
        /\ GotoNode("main", "init", next[cyc["main"]]) /\ Silent
     \/ /\ Main("init") /\ cyc["main"] = 0
        /\ tinit' = tinit /\ cyc' = cyc
        /\ Goto("main", "pause") /\ Logs("main")
  /\ UNCHANGED <<procVars, incall, heapVars, mainVars, released>>

-----------------------------------------------------------------------------
(***************************************************************************)
(* cycleTimeMethod, the SIGALRM handler.                                   *)
(***************************************************************************)
\* The handler starts at the head of the list, or returns at once.
TickStart ==
  /\ At("alrm", "tick")
  /\ IF cychead = 0 THEN HandlerReturn("alrm")
                    ELSE GotoNode("alrm", "count", cychead) /\ UNCHANGED procVars
  /\ UNCHANGED <<incall, logging, heapVars, mainVars, histVars>>

\* A negative cycle time switches the library off (mutant: so does zero).
CyclicOnly(m) == keylen[m] > 0
Cyclic(m) == keylen[m] >= 0

\* This pass completes the node's cycle time (mutant: the next one does).
DueLate(m) == keylen[m] < vallen[m]
Due(m) == keylen[m] < vallen[m] + 1

\* Count the pass for one node and start TimeDo when its cycle time is over.
Count ==
  /\ At("alrm", "count")
  /\ LET m == cyc["alrm"] IN
       \/ /\ ~Cyclic(m)
          /\ vallen' = vallen /\ Goto("alrm", "next")
       \/ /\ Cyclic(m) /\ ~Due(m)
          /\ vallen' = [vallen EXCEPT ![m] = @ + 1] /\ Goto("alrm", "next")
       \/ /\ Cyclic(m) /\ Due(m)
          /\ vallen' = [vallen EXCEPT ![m] = 0] /\ Goto("alrm", "seach")
  /\ UNCHANGED <<procVars, incall, logging, cyc, heap, next, keylen, fn, fdate, ld, listVars, fileVars,
                 libVars, mainVars, histVars>>

\* TimeDo: sysseach, syshowdo and syssend in turn, until one fails.
TimeDo ==
  /\ \E l \in {"seach", "howdo", "send"} : Invoke("alrm", l) \/ Return("alrm", l)
  /\ UNCHANGED <<procVars, cyc, heapVars, mainVars, histVars>>

\* The next node of the list, or the end of the handler.
TickNext ==
  /\ At("alrm", "next")
  /\ LET m == next[cyc["alrm"]] IN
       IF m = 0 THEN HandlerReturn("alrm")
                ELSE GotoNode("alrm", "count", m) /\ UNCHANGED procVars
  /\ UNCHANGED <<incall, logging, heapVars, mainVars, histVars>>

-----------------------------------------------------------------------------
(***************************************************************************)
(* gameover, as the SIGUSR1 handler or called by main at its label END.    *)
(***************************************************************************)
\* With an empty list gameover returns: to the interrupted frame, or to main,
\* which returns from the program.
GameOver(c) ==
  /\ At(c, "go")
  /\ \/ /\ cychead # 0
        /\ GotoNode(c, "go_log", cychead) /\ UNCHANGED procVars
     \/ cychead = 0 /\ c = "usr1" /\ HandlerReturn(c)
     \/ cychead = 0 /\ c = "main" /\ Exit /\ UNCHANGED <<pc, cyc>>
  /\ UNCHANGED <<incall, logging, heapVars, mainVars, histVars>>

\* logDel on a log of the library's own, whose pointer stays for one step.
GoLog(c) ==
  /\ At(c, "go_log")
  /\ LET m == cyc[c] IN
       /\ ld' = [ld EXCEPT ![m] = IF @ = "own" THEN "dead" ELSE @]
       /\ fdate' = [fdate EXCEPT ![m] = 0]
  /\ Goto(c, "go_ld")
  /\ UNCHANGED <<procVars, incall, logging, cyc, heap, next, keylen, vallen, fn, listVars, fileVars,
                 libVars, mainVars, histVars>>

\* Mutant: the call of TimeDel is commented out, as it is in freeCycdata.
GoLdOnly(c) ==
  /\ At(c, "go_ld")
  /\ ld' = [ld EXCEPT ![cyc[c]] = "null"]
  /\ Goto(c, "go_dl")
  /\ UNCHANGED <<procVars, incall, logging, cyc, heap, next, keylen, vallen, fn, fdate, listVars,
                 fileVars, libVars, mainVars, histVars>>

GoLd(c) ==
  /\ At(c, "go_ld")
  /\ ld' = [ld EXCEPT ![cyc[c]] = "null"]
  /\ Goto(c, "deldate")
  /\ UNCHANGED <<procVars, incall, logging, cyc, heap, next, keylen, vallen, fn, fdate, listVars,
                 fileVars, libVars, mainVars, histVars>>

\* TimeDel: sysdeldata, whatever it returns.
TimeDel(c) ==
  /\ Invoke(c, "deldate")
  /\ released' = [released EXCEPT ![cyc[c]] = IF c \in incall' THEN @ + 1 ELSE @]
  /\ UNCHANGED <<procVars, cyc, heapVars, mainVars, tinit>>

TimeDelReturn(c) ==
  /\ Return(c, "deldate")
  /\ UNCHANGED <<procVars, cyc, heapVars, mainVars, histVars>>

GoDlclose(c) ==
  /\ At(c, "go_dl")
  /\ mapped' = mapped \ ({cyc[c]} \cap fdlib)
  /\ fdlib' = fdlib \ {cyc[c]}
  /\ Goto(c, "go_free")
  /\ UNCHANGED <<procVars, incall, logging, cyc, heap, dataVars, listVars, fileVars, mainVars, histVars>>

\* The node is freed while cychead, or the node before it, still points to it.
GoFree(c) ==
  /\ At(c, "go_free")
  /\ heap' = [heap EXCEPT ![cyc[c]] = "freed"]
  /\ LET m == next[cyc[c]] IN
       GotoNode(c, IF m = 0 THEN "go_clear" ELSE "go_log", m)
  /\ UNCHANGED <<procVars, incall, logging, dataVars, listVars, fileVars, libVars, mainVars, histVars>>

\* The list is gone: from here on both handlers return at once.  The
\* configuration is freed.
GoClear(c) ==
  /\ At(c, "go_clear")
  /\ cychead' = 0 /\ cycheadnext' = 0
  /\ shead' = FALSE /\ blocks' = << >>
  /\ Goto(c, "go_logdel")
  /\ UNCHANGED <<procVars, incall, logging, cyc, heap, dataVars, mainld, libVars, mainVars, histVars>>

GoLogDel(c) ==
  /\ At(c, "go_logdel")
  /\ mainld' = "dead"
  /\ Goto(c, "go_exit")
  /\ UNCHANGED <<procVars, incall, logging, cyc, heap, dataVars, listVars, blocks, shead, libVars,
         mainVars, histVars>>

\* Mutant: gameover returns instead of ending the process.
GoReturn(c) ==
  /\ At(c, "go_exit")
  /\ mainld' = "null"
  /\ IF c = "usr1" THEN HandlerReturn(c) ELSE Exit /\ UNCHANGED <<pc, cyc>>
  /\ UNCHANGED <<incall, logging, heap, dataVars, listVars, blocks, shead, libVars, mainVars, histVars>>

GoExit(c) ==
  /\ At(c, "go_exit")
  /\ mainld' = "null"
  /\ Exit
  /\ UNCHANGED <<pc, incall, logging, cyc, heap, dataVars, listVars, blocks, shead, libVars, mainVars,
         histVars>>

-----------------------------------------------------------------------------
LoadStep ==
  \/ Start \/ SigAction \/ SetTimer \/ LoadFile \/ ReadFile
  \/ OpenDir \/ ReadDir \/ DlSym \/ CycMake \/ Link \/ SetTail \/ Wire \/ DirEnd

BindStep == MatchNode \/ MatchEnd \/ Prune \/ Unlink \/ FreeNode

InitStep == TimeInit \/ TimeInitReturn \/ InitNext

MainStep == LoadStep \/ BindStep \/ InitStep

TickStep == TickStart \/ Count \/ TimeDo \/ TickNext

GameStep(c) ==
  \/ GameOver(c) \/ GoLog(c) \/ GoLd(c) \/ TimeDel(c) \/ TimeDelReturn(c)
  \/ GoDlclose(c) \/ GoFree(c) \/ GoClear(c) \/ GoLogDel(c) \/ GoExit(c)

\* A process that has ended or hangs stays as it is.
Ended == (status # "running" \/ Hung) /\ UNCHANGED vars

Next ==
  \/ Tick \/ Stop \/ \E h \in Handlers : Deliver(h)
  \/ MainStep \/ TickStep \/ \E c \in {"main", "usr1"} : GameStep(c)
  \/ \E c \in Frames : MethodLog(c) \/ LogDone(c) \/ Fault(c)
  \/ Ended

Spec == Init /\ [][Next]_vars

(***************************************************************************)
(* Fairness.  The timer expires again and again, a signal that can be      *)
(* delivered is delivered, methods return (those of a pass also after any  *)
(* number of lines they log), and a frame that is on top again and again   *)
(* moves: a pass of the timer handler is shorter than the one second       *)
(* between two expiries, else the frame below it never moves.  Nothing is  *)
(* assumed of a frame that waits for localtime's lock: it has no step.     *)
(***************************************************************************)
Fairness ==
  /\ WF_vars(Tick)
  /\ \A h \in Handlers : WF_vars(Deliver(h))
  /\ SF_vars(MainStep \/ GameStep("main") \/ LogDone("main") \/ Fault("main"))
  /\ SF_vars(TickStep \/ Fault("alrm"))
  /\ WF_vars(LogDone("alrm"))
  /\ SF_vars(GameStep("usr1") \/ LogDone("usr1") \/ Fault("usr1"))

FairSpec == Spec /\ Fairness

=============================================================================
