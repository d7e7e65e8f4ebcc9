# TLA+ verification of the Time daemon

The repository is a small C daemon, `Time`, that loads task libraries
(`lib<name>.so`), binds each to a block of a configuration file, initialises
them, and then calls them from a one-second interval timer until it is told to
stop. This directory holds its TLA+ model, the TLC runs that check it and the
TLAPS proofs about it. Line numbers below are those of `src/src/main.c` unless
another file is named.

## 1. Inventory

| part | code | state | operations | what is hard | what makes it correct |
|---|---|---|---|---|---|
| process | `main` 899-1085 | signals, timer, stack of frames | startup sequence, `goto END`, `pause` | timer and stop signal interrupt it anywhere | no signal makes a handler or main use an invalid node |
| library list | `loadLib` 710-862, `cycmake` 522-546 | `cychead`, `cycheadnext`, the `cycdata` nodes, handles | load, link, wire | nodes are reachable before they are filled | the list always holds exactly the live nodes |
| binding | `toSetCycdata` 646-708, `freeCycdata` 152-200 | `fdate`, `ld` | match, duplicate, miss, unlink, free | freeing under a handler; stale `cycheadnext` | blocks and libraries correspond one to one before `TimeInit` |
| initialisation | `TimeInit` 864-896 | cycle time, own log | `sysinit`, `syslogin` | one of several fails; timer runs already | what was begun is released on exit |
| periodic execution | `cycleTimeMethod` 82-106, `TimeDo` 31-78 | `tidata.key.len`, `tidata.value.len` | count, run | boundary of the due test, merged expiries | no library is overdue; each runs again and again |
| teardown | `gameover` 202-249, `TimeDel` 107-120 | everything above | release, unload, free, exit | called by main and by SIGUSR1, interrupted by both signals | each library is released once, and the process ends |
| configuration file | `loadFile` 304-389, `trimspace` 255-302, `fetchInf` 390-422, `readFile` 426-484 | text buffer, list of blocks | read, trim, split | last line, buffer growth, read errors | blocks are those of the file |
| name comparison | `strIsSame` 599-645 | none | compare | case range, length limit | equality up to case |
| log | `logLog.c` | file, size limit | write, rotate, delete | nested writers, a lock inside `localtime`, failed reopen frees the log, failed stat | no line is lost, files stay small, a deleted log is the only thing a line can break |
| life cycle | `main`, `gameover` as `start.sh` sees them | phase, unhandled stop requests | fork, catch, load, obey, end | spread over main and two handlers | no phase is left backwards, no request is lost once a library is loaded |
| launcher | `start.sh` | pids found by `ps` | start, stop, status | check then act, one-second waits | at most one daemon; reports are true |
| task libraries | not in the repository (`inc/method.h` only) | their own | the six methods | may be slow, may fail | external |

Interactions. `main` calls everything else in sequence. The kernel delivers
SIGALRM (timer, 985-990) and SIGUSR1 (`start.sh` `kill -10`, line 39) to
handlers that run on top of whatever runs and share `cychead`, the nodes,
`mainld`, `shead` and `filehead` with it without any lock or signal mask. The
libraries get the node and may write its `tidata` and `ld` in `sysinit`.
Nothing is persisted except the log, so there is no recovery to model. All
three frames log through the same `logdata`. `start.sh` knows the daemon only
through `ps` and `kill`.

The hazards, each at its line and with the properties that watch it, are in
`PROJECT.json`.

## 2. Modules

| module | role |
|---|---|
| `TimeDaemon` | the specification of the daemon process |
| `TimeDaemonProps` | its properties and its inductive invariants `Inv` and `FullInv` |
| `MCTimeDaemon` | values of the constants for TLC |
| `TimeDaemonProofs` | lemmas on frames and labels, and `TypeCorrect` |
| `TimeDaemonSafetyProofs` | `Inv` is inductive; `ListAlwaysIntact`, `FaultsNeedGameover` |
| `DaemonLife` | abstract specification: phases of daemons and their stop requests |
| `TimeDaemonLife` | the refinement mapping from `TimeDaemon` to `DaemonLife` |
| `TimeDaemonLifeProofs` | `FullInv` is inductive; `NothingOverdue`, `ReleasesOnce`, `ReleasesAll`, `ConfigurationBound`, `AllReady`, the action property `PassCoversAll`, and the refinement `Lives` |
| `Launcher` | `start.sh`, composed with `DaemonLife` |
| `LauncherProofs` | `LaunchInv` is inductive; `TerminatedIsTrue`, `FaultIsTrue`, `OneLaunchEach`, `LaunchedLive` |
| `LogLog` | the log library under nested calls |
| `LogLogProofs` | `LogInv` is inductive; `ReadyAgain`, `WindowOnly`, `KeepsLines`, `BoundsSize` |
| `ConfFile`, `ConfFileProps`, `MCConfFile` | `loadFile`, `readFile`, `fetchInf`, `freeFiledate`; their properties and constants |
| `ConfFileProofs` | `Inv` is inductive (`ConfInvariant`); `ParsesRight`, `BufferAlwaysFits`, `AcceptedNotEmpty`, `ReadsInside`, `FreesAll`, `FreesOnce` |
| `TrimSpace`, `TrimSpaceProofs` | `trimspace`, byte by byte; `Inv` is inductive (`TrimInvariant`); `StaysInBuffer`, `Strip` |
| `StrIsSame`, `StrIsSameProofs` | `strIsSame`, character by character; `DecidesEquality`, `LocatesDifference`, `StaysInBounds` |

How they hang together. `TimeDaemon` takes from `ConfFile` that a configuration
is accepted or refused and has at least one block when accepted
(`AcceptedNotEmpty`), and from `StrIsSame` that names are compared up to case
(`DecidesEquality`, used as `SameName`). `Launcher` does not contain the daemon
but its abstraction, `DaemonLife`, which `TimeDaemon` implements (`Lives`) and
whose behaviours the launcher keeps to (`LaunchedLive`).
`LogLog` is `logInf` itself; of it `TimeDaemon` keeps the two effects that change
what the daemon does, a line that waits for ever and a line that deletes the log.

### TimeDaemon

There is one thread. The state is a stack of frames, `main`, `alrm`
(`cycleTimeMethod`) and `usr1` (`gameover`); `run` is the top one, `resume[h]`
the frame that handler `h` interrupted, `pc[c]` the label and `cyc[c]` the
`cyctem` cursor of each. Only the top frame moves. `sa_mask` is empty and
`sa_flags` 0 (976-977), so a handler blocks its own signal and not the other:
`Deliver(h)` needs only that `h` is pending and not active. A second signal of a
kind that is already pending is lost. Before `sigaction` a stop request kills.

Nodes are named by the position of their library in `readdir`'s order; 0 is
NULL. `heap` records for each whether it is not yet allocated, live or freed,
and `mapped` which libraries are loaded. A step is one access of the code to
state that another frame can see: `Link` and `SetTail` are the two stores of
`cycmake`, `Wire` the seven stores of 841-849, `Unlink` and `FreeNode` the two
halves of `freeCycdata`, and `gameover` is split at each of its calls. The
search loop of `freeCycdata` (160-195) is one step with the store it leads to:
until then it only reads, and a handler that interrupts it changes nothing it
reads. The increment, test and reset of `value.len` (97-100) are one step too,
because only the timer handler touches the counter.

`Undefined(c)` says that frame `c` is about to follow a pointer to a node that is not
live, to execute a library that is not loaded, or to use a deleted log;
`Fault(c)` then ends the modelled behaviour. Every other step requires that the
step is defined.

`logging[c]` is the `logLog` that frame `c` is in. A call (`Logs`) takes the lock of
`localtime` (`time`) or, when a frame below holds it, waits for it for ever
(`wait`, then `Hung`): the frame has no step any more, and signals can only pile up
on top of it. `LogDone` is the rest of the call. It writes the line, or it fails to
open the file again after a rotation and frees the log (`logLog.c` 129-134), whose
`-2` no caller looks at: `mainld` or the node's `ld` is then `lost`, and the next line
to it, by any frame, and gameover's `logDel` of it (217, 246) are undefined. main logs
where the code does (lines that follow each other without a shared access in between
are one), the timer handler when a method fails, gameover first of all (205), and a
method of a library at any time to the log of its node (`MethodLog`).

The error return of `toSetCycdata` behind `freeCycdata` (695-700) is not an
alternative of `Prune`: `freeCycdata` fails only for a node that is not in the list.

What is abstracted: the text of the configuration is the sequence of its block
names, chosen from `Confs` or refused; a library is the set of methods it
exports, chosen from `ExportSets`; a name is a value that `NameOf` gives each
entry, already case-folded, since for library names `strIsSame` computes
equality up to case; a method is a call that can be interrupted and returns
either sign; every failure of `fopen`, `malloc`, `opendir`, `dlopen` and of a
method is an alternative of its action. `sysinit` may set the cycle time
(`tidata.key.len`) and replace `ld` by a log of its own, which is what
`type.h` 52 and 63 are for; it is the only effect of a library on the daemon.

### DaemonLife and TimeDaemonLife

`life[p]` is `none` until `fork`, `boot` until `sigaction`, `loading` until the
first library is linked, `loaded` until a gameover has found work, `ending`
from then on, and `gone`; `hung` once a handler waits for ever in a line of the log,
from where the process can only be lost (`Crash`: the timer handler on top of a hung
gameover uses what that has freed). `stop` holds the daemons with a stop request that
gameover has not looked at yet. A request kills in `boot`, is swallowed in
`loading` (`Swallow`, gameover's early return), and must be obeyed in `loaded`.
`TimeDaemonLife` maps the daemon's status, signals, labels and list to these:
the phase is `ending` as soon as one frame is past gameover's early return
(`~Intact`), and a request lasts from its arrival to the moment the handler reads
`cychead`. `LivesALife` is the abstract specification as a property of
`TimeDaemon`; `EndingEnds` and `StopEndsLoaded` are the fairness
`DaemonLife` asks for, `LifeFairness`: an ending or requested daemon that does not
become `hung` goes on.

### Launcher

Each launch has a parent process, which `start.sh` puts in the background, and a
daemon, which the parent forks before it exits. `ps` shows parents once they
have executed `./Time` and daemons as long as they live; `state` (18-29) is
`Ps`. With several pids the unquoted test of line 22 is an error of `[`, which
`state` takes for "running": any non-empty result counts as running. Between two
commands of a shell everything else may move. `kill` sends its signals one
after the other. The one-second waits may take any time, with one assumption:
a second is enough for the shell's copy to execute `./Time` (`Started` waits for
it); without it start could report a failure and the daemon come up later.
A process that has exited is reaped at once and pids are not reused.

### LogLog

`logInf` in eleven steps, one for each access to what the frames share: the
`logdata` and its `FILE`, the static buffer of `asctime`, the lock inside
`localtime`, the files. main, the timer handler and gameover call it on top of
each other as in `TimeDaemon`; gameover logs one line before anything else, and
then returns (no library loaded) or deletes the log and exits. The lock of
`localtime` and the static buffer of `asctime` are those of the C library the
program is built with, modelled from their use here. A line is a number of fixed
length, a rotated file is known by the second in its name, sizes are scaled
from 1024 to `Kb`. `main.log` is opened to append, so it starts with the lines an
earlier run has left (`old`, line number 0). `isneedcp` compares the size as an `int`
(`AsInt`), and writes without a rotation when `stat` fails. `stat`, `rename` and
`fopen` may fail. A use of a freed `logdata` or of
a closed `FILE` is `Undefined` and ends the modelled behaviour.

### ConfFile, TrimSpace, StrIsSame

`ConfFile` reads the file line by line, a line being what one `fgets` returns and
`trimspace` leaves of it; what counts is its kind (blank, comment, pair,
other) and its length. The file ends behind a newline, in the middle of a
line, or in reads that fail without reporting the end. The buffer is the
sequence of strings stored in it with its used and allocated bytes; `readFile`
walks over that sequence. A `filedate` or `onedate` is known by the string it was
made for, to which a `onedate` also points; `allocated` is the set of those not
freed. `from` is a history variable: the line of the file each string was stored
for. No guard reads it; it lets `ParseRight` compare blocks with lines by position. Names longer than the name field, which `readFile`
cuts, are not distinguished. `TrimSpace` and `StrIsSame` are the two
character loops, one step per round, over all short inputs.

### Properties

| property | in words | hazard |
|---|---|---|
| `TypeOK` | labels, cursors, counters and pointers are in their ranges | the wiring counter |
| `ListIntact` | until gameover starts freeing, `cychead` leads through exactly the live nodes in load order | signals inside `cycmake`, `freeCycdata` |
| `FaultsOnlyInGameover` | invalid memory or code is used only when a handler interrupts gameover; a deleted log too, unless `logLog` itself deleted it | every pair of interrupted and interrupting code |
| `ReleasedOnce` | `sysdeldata` runs at most once per library, unless SIGUSR1 interrupts the gameover that main called | two callers of gameover |
| `ConfigBound` | in and after `TimeInit`, blocks and libraries correspond one to one | partial binding, duplicates |
| `ExitReleases` | on exit every library whose initialisation had begun has been released | partial failure of startup |
| `NeverOverdue` | between passes no library has waited longer than its cycle time | the due test |
| `UpMeansReady` | when main waits in its last loop, every library in the list is initialised | nodes unlinked between binding and `TimeInit`, failure of one of several |
| `PassCovers` | a pass of the timer handler comes to each library of the list once and in order, over a list that stands still | signals inside `cycmake`, `freeCycdata`; a stop during a pass |
| `PeriodicRuns` | once the daemon is up, a library with a cycle time is run again and again until the process ends or hangs | zero, merged expiries, starvation |
| `StopEndsLoaded` | a stop request ends a daemon that has linked a library, unless a handler hangs in its log | stop during startup |
| `FullInv`, `LogInv`, `LaunchInv`, `Inv` of `ConfFileProps` and `TrimSpace` | the inductive invariants of section 5 | |
| `LivesALife` | the daemon implements `DaemonLife` | phases left backwards, requests forgotten |
| `EndingEnds` | a gameover that has begun ends the process, also main's own under the timer, unless a handler on top hangs in its log | starvation of gameover |
| `ParseRight` | an accepted configuration is exactly the blocks of the complete lines of the file, a refused one has a bad line | last line, reused list head, separators |
| `NeverEmpty` | an accepted configuration has a block | files without text |
| `BufferFits` | the zero behind the last string is inside the buffer | buffer growth |
| `FreedAll` | `freeFiledate` frees every structure of an accepted configuration; a refused one leaves at most the pairs of the block with the bad line | pairs of the last block, error in the middle of a block |
| `HungOnce` | no structure hangs on two blocks, so none is freed twice | list head reused for the next block |
| `Terminates` | unless reads fail, `loadFile` and `readFile` return | loop left only at end of file |
| `Trimmed` | `trimspace` leaves the stripped text and zeros behind it | move in place |
| `SameIffFolded` | `strIsSame` decides equality up to case and length bound | prefix, neighbours of the letters |
| `FirstDifference` | a positive result is the first difference | off by one |
| `LogReady` | when the last `logInf` has returned, the log is open and flushed | nested rotations |
| `OneWindow` | without a failed reopen, undefined behaviour needs a handler that logs between `fclose` and `fg = NULL` | every pair of interrupted and interrupting statements |
| `LinesKept` | accepted lines are in some file unless two rotations got one name | double rotation, shared time buffer |
| `SizeBounded` | while rotation works (no failed `stat` or `rename`, an earlier file below 2 GB), a file exceeds its maximum by at most two lines or is what the earlier run left | check before write, size as an `int` |
| `TerminatedMeansGone` | when stop reports the end, every launch it saw is over | `ps` older than `kill`, fork in between |
| `FaultMeansGone` | when start reports a failure, nothing of its launch is left or comes up | early second look |
| `OneEach` | of the launches of one user at most one is alive, whatever others do | check then act, early second look |
| `StopStops` | a loaded daemon that stop finds comes to its end or hangs | several processes, concurrent stops |

## 3. Runs

| run | bounds | result |
|---|---|---|
| `daemon_safety` | 3 libraries, 2 configurations (the middle one unused and the others in the other order; the first and the last unused), each exporting a method for main, for the timer handler and for gameover, cycle times -1 and 0 | the invariants of the table up to `UpMeansReady`, but for `NeverOverdue`, and `PassCovers` hold |
| `daemon_live` | 1 library that exports all methods or none, a configuration with its block once or twice, cycle times -1..1, with `FairSpec` | `NeverOverdue`, `FullInv`, `PeriodicRuns`, `StopEndsLoaded`, `EndingEnds` and `LivesALife` hold |
| `stop_lost` | as `daemon_live` | `StopEnds` is violated |
| `run_before_init` | 2 libraries with a block each, that export a method for each frame or none, cycle times -1..1 | `InitBeforeRun` is violated |
| `release_missed` | as `run_before_init` | `EachReleased` is violated |
| `conf_file` | all files of up to 5 lines of 5 kinds, 3 endings, blocks of 5 bytes, with fairness | its eight properties hold |
| `trim` | all texts of up to 5 characters: space, CR, LF and two others | `Trimmed` and the loop invariant hold |
| `str_same` | all pairs of strings of up to 3 of 8 codes around the letters, 2 compared | `SameIffFolded`, `FirstDifference` hold |
| `log_nested` | 3 lines and gameover's, 2 seconds, sizes that never rotate, always rotate, rotate after 2 lines, and one that is cut; an earlier file that is absent, below the maximum, above it, and too large for an `int` | its six invariants hold |
| `stop_hangs` | 2 lines, 1 second, with fairness | `StopLogs` is violated |
| `launcher` | 2 shells, 2 launches, with fairness | its six properties hold |
| `start_race` | as `launcher` | `OneDaemon` is violated |

Why the bounds are enough to see the interesting cases. Three libraries give a
list with a head, a middle and a tail, a block that matches a later node first,
nodes that are unlinked at the head and in the middle, directory entries that
are skipped so that a block has no library, and a gameover with nodes freed and
nodes to go. What `daemon_safety` leaves out, the other methods, cycle time 1 and a
duplicate block, is in `daemon_live`; the theorems have all of it for every `N`. The
counters are bounded by the code itself: there are at most `N` nodes, and
`vallen` is at most `MaxKey`; no state constraint is used. Cycle times -1, 0 and 1
are the three cases of the due test. Symmetry is not used: readdir's order
distinguishes the nodes.

Five lines are two blocks of a name and a pair with a blank between them, or a
bad line in the second block; with blocks of 5 bytes and lines of 1 to 3 the used
bytes fall on and next to every limit of the buffer, which grows several times.
The codes of `str_same` are the ends of the two letter ranges and their outer
and inner neighbours. In `log_nested` three nested lines behind the two of an earlier
run are the worst case of `SizeBounded`, which a limit without the margin exceeds;
four calls allow a rotation on top of a rotation in the same and in different
seconds, and the collision and the window of `OneWindow` do occur. `Half`, for
2^31, is just above the largest size a rotating log reaches. Two launches and two shells
are the least for a race of starts, for a stop that finds several
processes, and for a start after one that failed or was stopped.

A passing run ends in no deadlock because a process that has ended or hangs stutters
(`Ended`); the daemon in `pause` always has the timer to wait for.

### The violated properties

* `stop_lost`. SIGUSR1 is handled while `cychead` is NULL, so `gameover` returns
  at 207-210 and main goes on to load, initialise and run the libraries. The
  README of the program calls `start.sh -s stop` "停止" without a condition.
  `StopEndsLoaded` shows that once a library is linked a request takes effect, unless
  a handler hangs in its line of the log, the window of `stop_hangs`. `StopEnds` excludes
  that one, so this counterexample is another.
* `run_before_init`. The timer is started (990) before the libraries are loaded;
  a node fresh from `memset` has cycle time 0, which is "every pass". A pass
  during loading, binding or another library's `sysinit` calls `sysseach`,
  `syshowdo` and `syssend` of a library that is not initialised, or is in the
  middle of it.
* `release_missed`. `gameover` unloads and frees nodes that `cychead` still leads
  to, with SIGALRM enabled. A pass in that window uses freed memory or unloaded
  code; the process can be lost with libraries not yet released. The theorem
  `FaultsNeedGameover` shows the converse: outside such windows the list
  handling is sound, and only a log that `logLog` has deleted can break a frame.
  `EachReleased` leaves deleted logs out.
* `stop_hangs`. SIGUSR1 interrupts main in the `localtime` of a `logInf`; gameover
  calls `logInf` (205), whose `localtime` waits for the lock that main holds.
  Further signals only pile up on top.
* `start_race`. Both shells look (62), both find nothing, both launch.
  `OneEach` shows that one user at a time is safe, given the second.

## 4. Fairness

`FairSpec` assumes: the timer expires again and again once it is set; a signal
that can be delivered is delivered (both from the kernel); each frame moves
again and again if it is on top again and again. The last is strong fairness,
because a frame below the timer handler is interrupted repeatedly: it holds when
methods return and a pass takes less than the second between two expiries,
which the code does not enforce. A library that blocks for ever, or a pass that
always takes longer than a second, would make `PeriodicRuns` and
`StopEndsLoaded` meaningless, and `PROJECT.json` lists it as a hazard
of the code. No fairness is assumed of `Stop`. Nothing is assumed of a frame that
waits for the lock of `localtime`: it has no step, the process is `Hung`, and the
liveness properties say so in their conclusions. `WaitInv` shows that such a wait
never ends and that main's own lines never wait.

`ConfFile` assumes only that the functions go on, which nothing they do can
prevent but reads that fail for ever, which `Terminates` excludes. `Launcher` assumes
that `kill` goes on and that a loaded daemon with a request obeys and an ending one
ends as long as it does not become `hung`, when neither step is possible any more;
`daemon_live` shows this for `TimeDaemon`; it assumes nothing of startups and users. `LogLog` assumes that a
frame that can move again and again does; main and the handlers need not log.

## 5. Proofs

Assumptions: `N` and `MaxKey` are natural numbers, `ExportSets` are sets of
methods, configurations are non-empty sequences. Nothing is assumed about
`NameOf`. TLC evaluates these assumptions in every run.

`TypeCorrect`. `TypeOK` is not inductive: that `HandlerReturn` restores a frame
needs the shape of the stack, and that `next[cyc[c]]` is defined needs a cursor
that is not NULL. `TypeInv` adds `StackOK`, the five possible stacks (main;
alrm or usr1 on main; each on the other), `CursorOK`, and `LogOK`, that a handler
that is not active is in no line of the log. `TimeDaemonProofs`
first states what the three ways of moving (`Goto`, `Deliver`, `HandlerReturn`)
do to labels and stack, then goes through the actions in five groups.

`ListAlwaysIntact` and `FaultsNeedGameover`. The invariant `Inv` has one part for
each of three situations, told apart by which frames are past gameover's early
return (`Tearing`):

1. none is: `ListInv` holds. The list is exactly the linked live nodes in load
   order; their code is loaded and no log is deleted but by `logLog` (`NodesOK`);
   nodes not yet loaded are zero (`FreshOK`); `cycheadnext` is the last node as
   long as main still appends (`TailOK`: it is false after `freeCycdata`, which
   is why it is limited to the loading labels); and every cursor is on the list
   (`CursorsLinked`). A step is undefined then only by a log that `logLog` has
   deleted (`UsesLost`).
2. exactly one is: `WalkInv` says that it walks down what is left of the list and
   has freed what is behind it. It never returns, so frames below it never
   move again, and but for such a log it is itself always defined; only a handler
   on top of it can fault otherwise.
3. both are: a handler interrupted main's own gameover. Nothing about the list
   survives, and every fault then happens on top of a gameover.

`StepInvariant` goes through the actions for each situation; the theorems follow
by PTL.

`NothingOverdue`, `ReleasesOnce`, `ReleasesAll`, `ConfigurationBound`, `AllReady`,
`PassCoversAll`. `FullInv` adds seven parts to `Inv`; `daemon_live` checks it.

* `CountInv`: a counter is at most its cycle time, and a library that main has not
  initialised has cycle time 0, so that `sysinit`, which may choose any time,
  never finds a counter above it.
* `ConfInv`: `toSetCycdata` has bound exactly the blocks before `filetem`, one
  library each (`Bound`), and then frees the unused libraries from the front
  (`UnusedFrom`). It is claimed only while no gameover has begun.
* `ReleaseInv`: a library whose initialisation has begun is in the list or
  released. A gameover that is alone walks down the rest of the list and has
  called each release function behind it once (`OnceInv`). Of two gameovers the
  upper one pays what is left (`PayInv`), or stands on a freed node and can only
  fault (`Doomed`): this is why `ExitReleases` survives where `ReleasedOnce`
  has its exception.
* `ReadyInv`: `TimeInit` has finished with the listed libraries before main's
  cursor, with all of them when the cursor is 0. The next node is the
  smallest above the cursor (`IsList`), so the walk leaves none out. Like
  `ConfInv` it is claimed only while no gameover has begun. `run_before_init`
  shows that nothing of the kind holds earlier.
* `BootInv`: before `sigaction` nothing is pending, caught or loaded.
* `RestInv`: the timer handler has no cursor before its first and after its last
  node.
* `WaitInv`: main never waits for the lock of `localtime`; when a handler does, a frame
  that does not run holds it, and a gameover on top of a waiting pass waits too.

`PassCoversAll` is an action property. `PassMoves` says where a step of the handler
takes its cursor: to the head, the smallest node, from 0 (`RestInv`), then to the
smallest above it, and back to 0 only behind the largest. `ListStands` says that the
list is the same from the first of these steps to the last: main waits below the
handler, and a gameover above it either finds no library and returns or is
`Tearing` for good.

`Lives`. A step of the daemon changes the pair of phase and request in one of the
ways `DaemonLife` allows (`LifeMoves`). `LifeSignals`, `LifeMain` and `LifeGame`
go through the actions: `BootInv` gives the steps before `sigaction`, `ConfInv`
that freeing the unused libraries never empties the list (a bound library
stays in it), so that `loaded` is not left backwards, `Inv` that the request is
read exactly once, and `WaitInv` that a hung process stays hung (`HungStays`).

`BufferAlwaysFits` and `AcceptedNotEmpty`. `ConfInv` adds to the buffer's bound
that the strings start with a text and not with a separator (`HeadInv`) and that
`readFile` has made a block as soon as it has passed a string (`BlockInv`). The
bound needs two facts: `fgets` returns at most `Block - 2` characters, and the
room test is made before every store; `StoreFits` is the arithmetic. Assumed:
`Block` is at least 3, lines have lengths from 0 to `Block - 2`, a line is blank
exactly if its length is 0, and a separator is not a line.

`ReadsInside`, `FreesAll`, `FreesOnce`. `HangInv` says that while `readFile` reads,
the allocated structures are those hung on a block and the pairs still to be
hung on the last one; that these pairs are already hung when the next string is
a name, which is when the list head is reused; and that no two blocks hold the
same structure (`Held`). `SetDateHangs` is the central lemma: hanging the pairs
gives the last block what it holds and nothing else.

`ParsesRight`. The reference of `ParseRight` is by line numbers: a text begins a block
if a blank line comes between it and every text before it (`Begins`), and the pairs of a
block are the texts behind its first with no blank line in between (`Follow`).
`ParseInv` splits the way from the lines to the blocks at the buffer:

1. `Loaded`: the strings in the buffer are the texts of the lines read, in order and
   each once, and a separator stands between two of them exactly where a blank
   line does. The last part needs `iswrite`, which says whether the buffer ends
   in a text and, if so, that no blank line has been read since. `StoreLoads` and
   `SkipLoads` are its steps; a store that fails ends `loadFile`, and
   nothing is claimed of a file whose reads fail.
2. `Collected`: the names are the passed strings that open a block (`Opens`), in order;
   the pairs of each block are those behind its name with no separator in between
   (`Span`), those of the last one waiting in `onehead`; and every other text
   passed is a pair. `SeparatorCollects`, `NameCollects` and `PairCollects` are its steps.

`BeginsIffOpens` and `JoinedIffUnbroken` translate positions in the buffer to lines
of the file. At the end of the buffer `AllRead` then gives the accepted half of
`ParseRight`, and `BadParses` the refused half: the string refused is a line that
is no pair and begins no block. No induction over data is needed, since the induction
is over the steps of the two functions.

`StaysInBuffer` and `Strip`. `LoopInv` describes the buffer in each of the loops of
`trimspace`: what is still as the first loop left it (`Kept`), what is already
moved (`Moved`) and where the text starts (`Found`). In the third loop the start
is `j - k`. Assumed: codes are 7-bit, the buffer has a byte.

`LogInvariant` and the theorems on the log. `LogReady` and `OneWindow` need to know
which frame has closed the FILE. `FileInv` says that there is at most one such
frame and that `fg` is as it left it; `FrameInv` that the frames above a
frame that has cleared `fg` are not in `logInf`, since the test of `fg` sends them
back. Hence an invalid FILE is used only above a frame between `fclose` and
`fg = NULL`. `BufInv`: what waits in the buffer waits for frames about to flush, and
their lines are in the buffer or a file already. `SizeInv`: the lines in `main.log`,
in the buffer and past `isneedcp` fit together in the bound; a line passes only
while three more fit, and there are three frames. It is claimed while rotation works
(`Rotates`): once a `stat` or a `rename` has failed, or if the earlier file was too
large for an `int`, there is no bound. Then a size that fits is one the `int` of
`isneedcp` holds (`SmallSize`). A file the earlier run left above the bound is rotated
before it grows (`n <= old` in `Fits`). `NameInv` keeps the name within the clock.
Assumed: a line is shorter than the margin `Kb`; sizes are integers; a megabyte and two
lines are below `Half`, and `main.log` never reaches twice that (4 GB), where the
`int` would be positive again. Nothing is assumed of the number of lines.

`LaunchInvariant` and the theorems on the launcher. `LaunchInv` adds that a daemon has
a parent that has forked (`Born`), that what stop has seen had executed
`./Time` (`SeenOK`), and that a shell about to launch has nothing alive of its own
(`ShellOK`). Every step of a process leaves what is over as it is
(`ProcessMoves`). The sets of shells and of launches are arbitrary. `LaunchedLive`
shows that hiding the shells leaves a behaviour of `DaemonLife`.

`DecidesEquality` and `LocatesDifference`. `Compared` says that the characters
before `i` agree and end neither string; the case analysis on what a letter is
turns the distance of 32 into equality of folded codes. `StaysInBounds` is the type
invariant. Assumed: codes are 7-bit.

Only model-checked: the liveness properties `PeriodicRuns`, `StopEndsLoaded`,
`EndingEnds`, `Terminates` and `StopStops`, because fairness is outside the prover.
Every invariant, the action property and the refinement that a passing run checks
is also a theorem.

## 6. Not modelled

* Re-entering `malloc` from a handler, and the inside of `stdio`: state of the C
  library, not of this program. `LogLog` and `TimeDaemon` have the one lock whose effect
  is a behaviour of this program.
* Rotated files of an earlier run: a rename replaces one only within the same
  second, or after the clock has gone back.
* Arguments of the program (905-926): they only choose two paths.
* `palyFiledate` and `filedatefind`: never called. `install.sh`, `Makefile`: no
  running state.
* `inc/mysql`, `inc/amqp*`, `inc/cjson`, `lib`: headers and binaries of MySQL, of
  the RabbitMQ client and of cJSON. They are nine tenths of the repository's
  lines and consist of declarations and macros; the daemon includes none of
  them and calls nothing in them, so there is no behaviour of this system in
  them to model. The program itself is `main.c`, `logLog.c`, `type.h` and
  `start.sh`, about 1500 lines, and the modules cover all of it that changes state.
* The task libraries and the helpers `method.h`, `cmccMysql.h`, `cmccRabbitmq.h`:
  only their headers are in the repository. Their calls are external actions.

## 7. State of the project

Modelled: the daemon, the configuration file, the name comparison, the log, the
launcher, the life cycle. Proved: the refinement, the action property and every
invariant of the passing runs. Left to TLC: liveness. Left out: the hazards
that `PROJECT.json` lists without a property, for the reasons given there.
