-------------------------- MODULE TimeDaemonProps --------------------------
(***************************************************************************)
(* What the daemon of src/main.c promises, and the inductive invariant     *)
(* from which TimeDaemonProofs proves the first part of it.                *)
(***************************************************************************)
EXTENDS TimeDaemon

\* Frame c runs gameover; frame c has found work there and will not return.
InGameover(c) == pc[c] \in GamePcs
Tearing(c)    == pc[c] \in WalkPcs \cup LastPcs

Intact == ~Tearing("main") /\ ~Tearing("usr1")

\* The node cycmake has not linked yet or freeCycdata has unlinked.
InHand == IF pc["main"] = "link" THEN {entry}
          ELSE IF pc["main"] = "free" THEN {cyc["main"]} ELSE {}

Linked == {m \in Node : heap[m] = "live"} \ InHand

\* Following next from h visits the nodes of S, each once, in readdir order.
IsList(h, S) ==
  /\ h = 0 <=> S = {}
  /\ h # 0 => h \in S /\ \A m \in S : h <= m
  /\ \A m \in S :
       /\ next[m] = 0 => \A x \in S : x <= m
       /\ next[m] # 0 => /\ next[m] \in S /\ next[m] > m
                        /\ \A x \in S : x > m => next[m] <= x

-----------------------------------------------------------------------------
(***************************************************************************)
(* Safety.                                                                 *)
(***************************************************************************)
\* Whatever a signal interrupts in cycmake or freeCycdata, the list a handler
\* finds at cychead holds exactly the live nodes, in load order: none is lost
\* and none that is freed is left in.
ListIntact == Intact => IsList(cychead, Linked)

\* Frame c writes to, or is about to delete, a log that logLog has deleted.
UsesLost(c) ==
  \/ logging[c] # "no" /\ (LogOf(c) = "lost" \/ (LogOf(c) = "main" /\ mainld = "lost"))
  \/ pc[c] = "go_log" /\ ld[cyc[c]] = "lost"
  \/ pc[c] = "go_logdel" /\ mainld = "lost"

\* A node that is not live or unloaded code is used only by a handler that
\* interrupts a gameover in progress: whenever a signal comes while main loads,
\* matches, frees unused libraries or initialises them, the handler and main stay
\* on valid nodes.  The same holds of a log that gameover deleted; a log that
\* logLog deleted because it could not open the file again is used by any frame,
\* but only to write a line or to delete it a second time.
FaultsOnlyInGameover ==
  status = "undefined" =>
    \/ \E c \in {"main", "usr1"} : c # run /\ InGameover(c)
    \/ UsesLost(run)

\* A library's release function runs at most once, unless SIGUSR1 interrupts
\* the gameover that main itself called after a failed startup.
ReleasedOnce ==
  \A m \in Node : released[m] > 1 => Tearing("main") /\ Tearing("usr1")

\* When main starts TimeInit, the libraries in the list and the configuration
\* blocks correspond one to one by name, and every library has a log, even if
\* logLog has deleted it.
ConfigBound ==
  Intact /\ pc["main"] \in InitPcs \cup {"pause"} =>
    /\ \A m \in Linked : /\ fdate[m] \in 1..Len(blocks)
                          /\ blocks[fdate[m]] = NameOf[m]
                          /\ ld[m] \in {"main", "own", "lost"}
    /\ \A i \in 1..Len(blocks) : \E m \in Linked : fdate[m] = i
    /\ \A m, n \in Linked : fdate[m] = fdate[n] => m = n

\* A process that exits has called the release function of every library whose
\* initialisation it had begun.
ExitReleases ==
  status = "exited" =>
    \A m \in Node : tinit[m] # "no" /\ "deldate" \in fn[m] => released[m] >= 1

\* Between two passes of the timer handler no library is overdue: it has not
\* waited for more passes than its cycle time.
NeverOverdue ==
  resume["alrm"] = "none" =>
    \A m \in Node : heap[m] = "live" /\ keylen[m] >= 0 => vallen[m] <= keylen[m]

\* Once main waits in its last loop, TimeInit has finished with every library the
\* timer handler reaches: toSetCycdata has taken nodes out of the list in between,
\* and main's walk over what is left has missed none.
UpMeansReady ==
  Intact /\ pc["main"] = "pause" => \A m \in Linked : tinit[m] = "ready"

\* A pass of cycleTimeMethod comes to each library of the list once: it begins
\* with the first, goes to the next and ends behind the last, and no frame changes
\* the list before it has ended.
PassStep ==
  /\ Intact /\ run = "alrm" /\ cyc'["alrm"] # cyc["alrm"] =>
       /\ cyc'["alrm"] # 0 => cyc'["alrm"] \in Linked /\ cyc'["alrm"] > cyc["alrm"]
       /\ \A m \in Linked : m > cyc["alrm"] => cyc'["alrm"] # 0 /\ cyc'["alrm"] <= m
  /\ resume["alrm"] # "none" /\ Intact' =>
       Linked' = Linked /\ next' = next /\ cychead' = cychead

PassCovers == [][PassStep]_vars

\* Once the daemon is up, a library with a cycle time is run again and again until
\* the process ends or hangs in a line of its log.
PeriodicRuns ==
  \A m \in Node :
    (pc["main"] = "pause" /\ heap[m] = "live" /\ keylen[m] >= 0)
      ~> \/ run = "alrm" /\ pc["alrm"] = "seach" /\ cyc["alrm"] = m
         \/ status # "running" \/ Hung

\* Once a library is loaded a stop request ends the process, unless a handler hangs
\* in its line of the log: nothing else holds gameover up.
StopEndsLoaded == (cychead # 0 /\ "usr1" \in pend) ~> (status # "running" \/ Hung)

\* README: start.sh -s stop stops the program, here but for a handler that hangs.
StopEnds == ("usr1" \in pend) ~> (status # "running" \/ Hung)

\* type.h: init initialises a library, login logs it in, seach searches: TimeDo
\* runs a library's methods only after TimeInit has finished with it.
InitBeforeRun ==
  "alrm" \in incall => tinit[cyc["alrm"]] = "ready"

\* main.c: TimeDel executes the release function of each module: of every
\* initialised one, however the process ends once the gameover of a stop request has
\* begun, but for the use of a deleted log.
EachReleased ==
  status # "running" /\ Tearing("usr1") /\ ~Tearing("main") /\ logging[run] = "no" /\ ~UsesLost(run) =>
    \A m \in Node : tinit[m] # "no" /\ "deldate" \in fn[m] => released[m] >= 1

-----------------------------------------------------------------------------
(***************************************************************************)
(* The inductive invariant.                                                *)
(***************************************************************************)
\* The five shapes of the stack, and which frames may be inside a method.
StackOK ==
  /\ \A h \in Handlers : resume[h] = "none" <=> pc[h] = "idle"
  /\ \/ run = "main" /\ resume["alrm"] = "none" /\ resume["usr1"] = "none"
     \/ run = "alrm" /\ resume["alrm"] = "main" /\ resume["usr1"] = "none"
     \/ run = "usr1" /\ resume["usr1"] = "main" /\ resume["alrm"] = "none"
     \/ run = "alrm" /\ resume["alrm"] = "usr1" /\ resume["usr1"] = "main"
     \/ run = "usr1" /\ resume["usr1"] = "alrm" /\ resume["alrm"] = "main"
  /\ \A c \in incall : pc[c] \in Methods

NodePcs == {"unlink", "free", "login", "initnext", "count", "seach", "howdo", "send", "next"}
             \cup WalkPcs
EntryPcs == {"dlsym", "cycmake", "link", "tail", "wire"}

\* A cursor that is about to be followed is not NULL.
CursorOK ==
  /\ \A c \in Frames : pc[c] \in NodePcs \/ c \in incall => cyc[c] # 0
  /\ pc["main"] \in EntryPcs => entry # 0

\* A handler that is not active is not in logLog, nor is a gameover that has
\* taken down the list.
LogOK == \A c \in Frames : pc[c] \in {"idle"} \cup LastPcs => logging[c] = "no"

TypeInv == TypeOK /\ StackOK /\ CursorOK /\ LogOK

\* A node not yet allocated is zero, and so is a node not yet linked.
FreshOK ==
  /\ \A m \in Node : heap[m] = "none" \/ (pc["main"] = "link" /\ m = entry) =>
       next[m] = 0 /\ fn[m] = {} /\ ld[m] = "null"
  /\ \A m \in Node : m > entry => heap[m] = "none"
  /\ pc["main"] \in {"dlsym", "cycmake"} => heap[entry] = "none"
  /\ pc["main"] \in {"link", "tail", "wire"} => heap[entry] = "live"
  /\ pc["main"] \in EntryPcs => entry \in mapped

\* cycheadnext is the last node as long as main appends.
TailOK ==
  pc["main"] \in LoadPcs \ {"tail"} /\ cychead # 0 =>
    cycheadnext \in Linked /\ \A m \in Linked : m <= cycheadnext

\* Outside gameover, every frame's cursor is on the list.
CursorsLinked ==
  /\ pc["main"] \in {"match", "prune", "init"} => cyc["main"] \in Linked \cup {0}
  /\ pc["main"] \in {"unlink", "login", "initnext"} => cyc["main"] \in Linked
  /\ pc["main"] = "unlink" => cycnext = next[cyc["main"]]
  /\ pc["main"] = "free" => heap[cyc["main"]] = "live" /\ cycnext \in Linked \cup {0}
  /\ pc["alrm"] \in TickPcs \ {"tick"} => cyc["alrm"] \in Linked
  /\ \A c \in incall : fn[cyc[c]] # {}

\* A listed node's code is loaded, and gameover has deleted neither its log nor the
\* main log.
NodesOK ==
  /\ \A m \in Linked : (fn[m] # {} => m \in mapped) /\ ld[m] # "dead"
  /\ mainld # "dead"

ListInv == IsList(cychead, Linked) /\ NodesOK /\ FreshOK /\ TailOK /\ CursorsLinked

IntactInv == Intact => ListInv

\* A gameover that is alone walks down the rest of the list, freeing its head.
WalkInv(c) ==
  /\ pc[c] \in WalkPcs => IsList(cyc[c], Linked)
  /\ \A m \in Linked : ld[m] = "dead" => m = cyc[c] /\ pc[c] = "go_ld"
  /\ \A m \in Linked : fn[m] # {} => m \in mapped \/ (m = cyc[c] /\ pc[c] = "go_free")
  /\ c \in incall => fn[cyc[c]] # {}
  /\ mainld = "dead" => pc[c] = "go_exit"

AloneInv ==
  /\ Tearing("main") /\ ~Tearing("usr1") => WalkInv("main")
  /\ Tearing("usr1") /\ ~Tearing("main") => WalkInv("usr1")

Inv == TypeInv /\ IntactInv /\ AloneInv /\ FaultsOnlyInGameover

-----------------------------------------------------------------------------
(***************************************************************************)
(* What Inv needs to be extended by for the properties above it does not   *)
(* imply.                                                                  *)
(***************************************************************************)
\* No library has waited for more passes than its cycle time, not even during a
\* pass.  sysinit, which sets the cycle time, finds the node as memset left it:
\* main comes to each node once.
CountInv ==
  /\ \A m \in Node : /\ keylen[m] >= 0 => vallen[m] <= keylen[m]
                     /\ keylen[m] < 0 => vallen[m] = 0
  /\ pc["main"] \in LoadPcs \cup BindPcs => \A m \in Node : keylen[m] = 0
  /\ pc["main"] = "init" /\ cyc["main"] # 0 => \A m \in Node : m >= cyc["main"] => keylen[m] = 0
  /\ pc["main"] \in {"login", "initnext"} => \A m \in Node : m > cyc["main"] => keylen[m] = 0

\* The first k configuration blocks have each got a library of their name.
Bound(k) ==
  /\ \A m \in Node : fdate[m] # 0 => /\ m \in Linked /\ fdate[m] \in 1..k
                                     /\ blocks[fdate[m]] = NameOf[m]
                                     /\ ld[m] \in {"main", "own", "lost"}
  /\ \A i \in 1..k : \E m \in Linked : fdate[m] = i
  /\ \A m, n \in Linked : fdate[m] # 0 /\ fdate[m] = fdate[n] => m = n

\* The libraries without a block that are still in the list are behind h.
UnusedFrom(h) == \A m \in Linked : fdate[m] = 0 => h # 0 /\ m >= h

\* toSetCycdata binds one block after the other and then frees from the front.
ConfInv ==
  /\ pc["main"] \in LoadPcs => \A m \in Node : fdate[m] = 0
  /\ pc["main"] \in (LoadPcs \ {"start", "sigaction", "setitimer", "loadFile", "readFile"})
                      \cup BindPcs \cup InitPcs \cup {"pause"} => Len(blocks) >= 1
  /\ pc["main"] = "match" => filetem \in 1..(Len(blocks) + 1) /\ Bound(filetem - 1)
  /\ pc["main"] \in {"prune", "unlink", "free"} \cup InitPcs \cup {"pause"} => Bound(Len(blocks))
  /\ pc["main"] \in {"prune", "unlink"} => UnusedFrom(cyc["main"])
  /\ pc["main"] = "unlink" => fdate[cyc["main"]] = 0
  /\ pc["main"] = "free" => UnusedFrom(cycnext)
  /\ pc["main"] \in InitPcs \cup {"pause"} => \A m \in Linked : fdate[m] # 0

\* TimeInit has finished with the libraries main's cursor h has passed.
Ready(h) == \A m \in Linked : h = 0 \/ m < h => tinit[m] = "ready"

ReadyInv ==
  /\ pc["main"] \in InitPcs => Ready(cyc["main"])
  /\ pc["main"] = "pause" => Ready(0)

\* Main has begun to initialise m, and m has a release function.
Owed(m) == tinit[m] # "no" /\ "deldate" \in fn[m]

\* Frame c has called the release function of the node it stands on.
Called(c) == c \in incall \/ pc[c] \in {"go_dl", "go_free"}

\* Frame c walks down the rest of the list and has released what it has freed.
PayInv(c) ==
  /\ pc[c] \in WalkPcs => IsList(cyc[c], Linked)
  /\ pc[c] \in LastPcs => Linked = {}
  /\ \A m \in Node : Owed(m) => released[m] >= 1 \/ (m \in Linked /\ ~(m = cyc[c] /\ Called(c)))

\* A gameover that is alone releases each node once; a second one finds the whole
\* list, or a node that is freed.
OnceInv(c) ==
  /\ PayInv(c)
  /\ \A m \in Node : released[m] <= 1
  /\ \A m \in Linked : released[m] # 0 => m = cyc[c] /\ Called(c)
  /\ cychead \in Linked => pc[c] \in WalkPcs /\ cyc[c] = cychead

\* Frame c stands on a node that is freed, and its next step is undefined.
Doomed(c) == pc[c] \in WalkPcs /\ heap[cyc[c]] # "live"

ReleaseInv ==
  /\ Intact => /\ \A m \in Node : released[m] = 0 /\ (tinit[m] # "no" => m \in Linked)
               /\ pc["main"] \in LoadPcs \cup BindPcs => \A m \in Node : tinit[m] = "no"
  /\ Tearing("main") /\ ~Tearing("usr1") => OnceInv("main")
  /\ Tearing("usr1") /\ ~Tearing("main") => OnceInv("usr1")
  /\ Tearing("main") /\ Tearing("usr1") => PayInv("usr1") \/ Doomed("usr1")
  /\ ExitReleases

\* Until sigaction has been called nothing is pending and nothing is loaded.
BootInv ==
  IF pc["main"] \in {"start", "sigaction"}
    THEN ~caught /\ ~timer /\ pend = {} /\ cychead = 0 /\ \A h \in Handlers : pc[h] = "idle"
    ELSE caught

\* The timer handler begins and ends without a cursor.
RestInv == pc["alrm"] \in {"idle", "tick"} => cyc["alrm"] = 0

\* Main never waits for localtime's lock.  When a handler does, the lock is held by
\* a frame that does not run and so will never give it back, and gameover, if it
\* is on top, waits too.
WaitInv ==
  /\ logging["main"] # "wait"
  /\ \A h \in Handlers : logging[h] = "wait" =>
       /\ \E d \in Frames \ {run} : logging[d] = "time"
       /\ run = "usr1" => logging["usr1"] = "wait"

\* The inductive invariant in full.  Each conjunct is one phase of the program:
\* the list, the passes counted, the blocks bound, the libraries initialised, the
\* releases, the start, the passes, the lines of the log.
FullInv ==
  /\ Inv /\ CountInv /\ (Intact => ConfInv /\ ReadyInv) /\ ReleaseInv
  /\ BootInv /\ RestInv /\ WaitInv

=============================================================================
