------------------------------ MODULE Launcher ------------------------------
(***************************************************************************)
(* start.sh: shells that start, stop and look at the daemon, composed with *)
(* the life of the daemons (DaemonLife).                                   *)
(*                                                                         *)
(* Launch n makes two processes called Time: the parent, which the shell   *)
(* starts in the background, and daemon n, which the parent forks before   *)
(* it exits.  ps shows a parent only once the shell's copy has executed    *)
(* ./Time; a process that has exited is reaped at once.  Between any two   *)
(* commands of a shell everything else may move.                           *)
(***************************************************************************)
EXTENDS DaemonLife

CONSTANT Shell

VARIABLES
  parent,  \* the parent of launch n: none, exec (not executed yet), up, forked, gone
  cmd,     \* where each shell is in start.sh
  MYAA,    \* the processes ps showed it
  seen,    \* the launches its last stop set out to kill
  by,      \* the shell that made launch n
  report   \* what it last told the user

shellVars == <<cmd, MYAA, seen, by, report>>
launchVars == <<lifeVars, parent, shellVars>>

Process == {"parent", "daemon"} \X Pid
Cmds == {"idle", "start", "launch", "started", "stop", "kill", "killed"}

\* Of the reports those that say of processes that they are no more, and all
\* others: that it runs, does not run, or cannot be stopped.
Reports == {"fault", "terminated", "other"}
NoShell == "none"

TypeOK ==
  /\ life \in [Pid -> Phases] /\ stop \subseteq Pid
  /\ parent \in [Pid -> {"none", "exec", "up", "forked", "gone"}]
  /\ cmd \in [Shell -> Cmds]
  /\ MYAA \in [Shell -> SUBSET Process] /\ seen \in [Shell -> SUBSET Pid]
  /\ by \in [Pid -> Shell \cup {NoShell}] /\ report \in [Shell -> Reports]

Init ==
  /\ LifeInit /\ parent = [n \in Pid |-> "none"]
  /\ cmd = [s \in Shell |-> "idle"] /\ report = [s \in Shell |-> "other"]
  /\ MYAA = [s \in Shell |-> {}] /\ seen = [s \in Shell |-> {}]
  /\ by = [n \in Pid |-> NoShell]

-----------------------------------------------------------------------------
(***************************************************************************)
(* The processes.                                                          *)
(***************************************************************************)
SetParent(n, from, to) == parent[n] \in from /\ parent' = [parent EXCEPT ![n] = to]

\* The copy of the shell executes ./Time, if it can.
Exec(n) ==
  /\ \/ SetParent(n, {"exec"}, "up") /\ UNCHANGED lifeVars
     \/ SetParent(n, {"exec"}, "gone") /\ Abort(n)
  /\ UNCHANGED shellVars

\* The parent forks the daemon, or exits without: logInit or fork failed.
ParentFork(n) ==
  /\ \/ SetParent(n, {"up"}, "forked") /\ Fork(n)
     \/ SetParent(n, {"up"}, "gone") /\ Abort(n)
  /\ UNCHANGED shellVars

ParentExit(n) == SetParent(n, {"forked"}, "gone") /\ UNCHANGED <<lifeVars, shellVars>>

\* What a daemon does of its own accord: it starts up, hangs or crashes, and it ends.
DaemonUp(n) ==
  /\ \/ Catch(n) \/ LeaveBoot(n) \/ Swallow(n) \/ Load(n) \/ Fail(n) \/ GiveUp(n)
     \/ Ignore(n) \/ Hang(n) \/ Crash(n)
  /\ UNCHANGED <<parent, shellVars>>
DaemonDown(n) == (Obey(n) \/ End(n)) /\ UNCHANGED <<parent, shellVars>>

\* SIGUSR1 arrives at a process.  It kills a parent and a daemon that does not
\* catch it yet; one that is gone already is an error kill reports.
Signal(x) ==
  LET n == x[2] IN
    \/ x[1] = "parent" /\ SetParent(n, {"up"}, "gone") /\ Abort(n)
    \/ x[1] = "parent" /\ SetParent(n, {"forked"}, "gone") /\ UNCHANGED lifeVars
    \/ x[1] = "parent" /\ SetParent(n, {"gone"}, "gone") /\ UNCHANGED lifeVars
    \/ x[1] = "daemon" /\ (LeaveBoot(n) \/ Request(n)) /\ parent' = parent
    \/ x[1] = "daemon" /\ life[n] = "gone" /\ UNCHANGED <<lifeVars, parent>>

-----------------------------------------------------------------------------
(***************************************************************************)
(* The functions of start.sh.                                              *)
(***************************************************************************)
\* The processes called Time, as state() finds them; it returns 2 if there are
\* any.  Only stop uses the list itself (mutants: the daemons only, and the wrong
\* column of the lines).
PsDaemons == {<<"daemon", n>> : n \in {n \in Pid : Alive(n)}}
PsParents == {<<"parent", n>> : n \in {n \in Pid : parent[n] \in {"up", "forked"}}}
PsColumn == {<<x[2], x[1]>> : x \in PsDaemons \cup PsParents}
Ps == PsDaemons \cup PsParents

Goto(s, c) == cmd' = [cmd EXCEPT ![s] = c]

\* Shell s tells the user r and is done.
Say(s, r) == Goto(s, "idle") /\ report' = [report EXCEPT ![s] = r]

\* The user runs start.sh.  The number of launches is bounded by Pid.
Command(s) ==
  /\ cmd[s] = "idle"
  /\ \/ Goto(s, "start") /\ \E n \in Pid : parent[n] = "none"
     \/ Goto(s, "stop")
  /\ report' = [report EXCEPT ![s] = "other"]
  /\ seen' = [seen EXCEPT ![s] = {}]
  /\ UNCHANGED <<lifeVars, parent, MYAA, by>>

\* xxhstart: first look whether it runs already.
Start(s) ==
  /\ cmd[s] = "start"
  /\ \/ Ps # {} /\ Say(s, "other")
     \/ Ps = {} /\ Goto(s, "launch") /\ report' = report
  /\ UNCHANGED <<lifeVars, parent, MYAA, seen, by>>

Launch(s) ==
  /\ cmd[s] = "launch" /\ Goto(s, "started")
  /\ \E n \in Pid : SetParent(n, {"none"}, "exec") /\ by' = [by EXCEPT ![n] = s]
  /\ UNCHANGED <<lifeVars, MYAA, seen, report>>

\* After a second, long enough to execute ./Time, look again.
Started(s) ==
  /\ cmd[s] = "started" /\ \A n \in Pid : by[n] = s => parent[n] # "exec"
  /\ Say(s, IF Ps # {} THEN "other" ELSE "fault")
  /\ UNCHANGED <<lifeVars, parent, MYAA, seen, by>>

Stop(s) ==
  /\ cmd[s] = "stop"
  /\ MYAA' = [MYAA EXCEPT ![s] = Ps] /\ seen' = [seen EXCEPT ![s] = {x[2] : x \in Ps}]
  /\ \/ Ps = {} /\ Say(s, "other")
     \/ Ps # {} /\ Goto(s, "kill") /\ report' = report
  /\ UNCHANGED <<lifeVars, parent, by>>

\* Mutant: only the first process of the list gets the signal.
KillFirst(s) ==
  /\ cmd[s] = "kill"
  /\ \E x \in MYAA[s] : Signal(x) /\ MYAA' = [MYAA EXCEPT ![s] = {}]
  /\ Goto(s, "killed")
  /\ UNCHANGED <<seen, by, report>>

\* kill -10 sends the signal to one process of the list after the other.
Kill(s) ==
  /\ cmd[s] = "kill"
  /\ \E x \in MYAA[s] :
       /\ Signal(x)
       /\ MYAA' = [MYAA EXCEPT ![s] = @ \ {x}]
       /\ IF MYAA[s] = {x} THEN Goto(s, "killed") ELSE cmd' = cmd
  /\ UNCHANGED <<seen, by, report>>

\* Mutant: stop does not look again.
KilledBlind(s) ==
  /\ cmd[s] = "killed" /\ Say(s, "terminated")
  /\ UNCHANGED <<lifeVars, parent, MYAA, seen, by>>

\* After a second look again.
Killed(s) ==
  /\ cmd[s] = "killed"
  /\ \/ Ps # {} /\ Say(s, "other") /\ seen' = [seen EXCEPT ![s] = {}]
     \/ Ps = {} /\ Say(s, "terminated") /\ seen' = seen
  /\ UNCHANGED <<lifeVars, parent, MYAA, by>>

\* status looks once and says what it finds.
Status(s) ==
  /\ cmd[s] = "idle" /\ Say(s, "other")
  /\ UNCHANGED <<lifeVars, parent, MYAA, seen, by>>

ShellStep(s) == Start(s) \/ Launch(s) \/ Started(s) \/ Stop(s) \/ Kill(s) \/ Killed(s) \/ Status(s)
ParentStep(n) == Exec(n) \/ ParentFork(n) \/ ParentExit(n)

Next ==
  \/ \E s \in Shell : Command(s) \/ ShellStep(s)
  \/ \E n \in Pid : ParentStep(n) \/ DaemonUp(n) \/ DaemonDown(n)

Spec == Init /\ [][Next]_launchVars

\* kill does not wait for anything, and daemons live as TimeDaemon does: a loaded
\* one obeys a stop request and an ending one ends, unless it becomes hung, when
\* nothing is asked of it.
FairSpec ==
  /\ Spec
  /\ \A s \in Shell : WF_launchVars(Kill(s))
  /\ \A n \in Pid : WF_launchVars(DaemonDown(n))

-----------------------------------------------------------------------------
(***************************************************************************)
(* What the user may rely on.                                              *)
(***************************************************************************)
\* Launch n may still be or become a daemon.
Live(n) == parent[n] \in {"exec", "up", "forked"} \/ Alive(n)

\* When stop says that the program has ended, every launch it saw is over, also
\* one whose parent forked between ps and kill: its daemon is in no list.
TerminatedMeansGone ==
  \A s \in Shell : report[s] = "terminated" => \A n \in seen[s] : ~Live(n)

\* When start says that it failed, what its user launched is gone and no daemon of
\* it comes up later.
FaultMeansGone ==
  \A s \in Shell : report[s] = "fault" => \A n \in Pid : by[n] = s => ~Live(n)

\* Whatever other shells do, a user who starts the program one start.sh after the
\* other never has two launches of his own alive, also after starts that failed
\* and stops that were reported too late.
OneEach == \A m, n \in Pid : Live(m) /\ Live(n) /\ by[m] = by[n] => m = n

\* start.sh looks before it starts: there is one daemon at most.
OneDaemon == \A m, n \in Pid : Live(m) /\ Live(n) => m = n

\* A loaded daemon that stop finds ends or hangs in its log, however many processes
\* stop found and whatever else is started and stopped meanwhile.
StopStops ==
  \A n \in Pid :
    (life[n] = "loaded" /\ \E s \in Shell : cmd[s] = "kill" /\ <<"daemon", n>> \in MYAA[s])
      ~> (life[n] \in {"gone", "hung"})

-----------------------------------------------------------------------------
(***************************************************************************)
(* The inductive invariant.                                                *)
(***************************************************************************)
\* A daemon has a parent that has forked.
Born == \A n \in Pid : life[n] # "none" => parent[n] \in {"forked", "gone"}

\* What stop has seen had executed ./Time.
SeenOK == \A s \in Shell : \A n \in seen[s] : parent[n] \notin {"none", "exec"}

\* A shell at work has told nothing yet; its copy executes ./Time while it waits;
\* and before it launches nothing it launched earlier is alive.
ShellOK ==
  \A s \in Shell :
    /\ cmd[s] # "idle" => report[s] = "other"
    /\ \A n \in Pid : by[n] = s /\ parent[n] = "exec" => cmd[s] = "started"
    /\ cmd[s] = "launch" => \A n \in Pid : by[n] = s => ~Live(n)

\* What start.sh keeps true: its reports are right because nothing that is over
\* comes to life again and each shell looks before it launches.
LaunchInv ==
  /\ TypeOK /\ Born /\ SeenOK /\ ShellOK
  /\ TerminatedMeansGone /\ FaultMeansGone /\ OneEach

=============================================================================
