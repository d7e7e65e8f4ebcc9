---------------------------- MODULE LauncherProofs ----------------------------
(***************************************************************************)
(* start.sh tells the truth about the daemons, for any number of shells    *)
(* and launches: proofs of LaunchInv.                                      *)
(***************************************************************************)
EXTENDS Launcher, TLAPS

-----------------------------------------------------------------------------
(***************************************************************************)
(* The processes.                                                          *)
(***************************************************************************)
\* A daemon passes to a phase, and no other daemon moves.
LEMMA PassLife ==
  ASSUME TypeOK, NEW p \in Pid, NEW from, NEW to \in Phases, Pass(p, from, to)
  PROVE  /\ life[p] = from /\ life'[p] = to /\ life' \in [Pid -> Phases]
         /\ \A m \in Pid \ {p} : life'[m] = life[m]
BY DEF Pass, TypeOK

\* The same for a parent.
LEMMA ParentMoves ==
  ASSUME TypeOK, NEW n \in Pid, NEW from, NEW to \in {"exec", "up", "forked", "gone"},
         SetParent(n, from, to)
  PROVE  /\ parent[n] \in from /\ parent'[n] = to
         /\ parent' \in [Pid -> {"none", "exec", "up", "forked", "gone"}]
         /\ \A m \in Pid \ {n} : parent'[m] = parent[m]
BY DEF SetParent, TypeOK

\* A daemon that lives goes on with its life or ends.
LEMMA DaemonMoves ==
  ASSUME TypeOK, NEW n \in Pid,
         \/ Catch(n) \/ LeaveBoot(n) \/ Request(n) \/ Swallow(n) \/ Load(n) \/ Fail(n)
         \/ Obey(n) \/ GiveUp(n) \/ Ignore(n) \/ End(n) \/ Hang(n) \/ Crash(n)
  PROVE  /\ life' \in [Pid -> Phases] /\ stop' \subseteq Pid
         /\ Alive(n) /\ life'[n] # "none" /\ \A m \in Pid \ {n} : life'[m] = life[m]
<1>1. stop' \subseteq Pid
  BY DEF TypeOK, Catch, LeaveBoot, Request, Swallow, Load, Fail, Obey, GiveUp, Ignore, End,
         Hang, Crash
<1>2. CASE life' = life
  BY <1>1, <1>2 DEF TypeOK, Alive, Catch, LeaveBoot, Request, Swallow, Load, Fail, Obey, GiveUp,
     Ignore, End, Hang, Crash, Pass
<1>3. CASE \E from \in {"boot", "loading", "loaded", "ending", "hung"}, to \in Phases \ {"none"} :
             Pass(n, from, to)
  BY <1>1, <1>3, PassLife DEF Alive
<1> QED BY <1>2, <1>3 DEF Catch, LeaveBoot, Request, Swallow, Load, Fail, Obey, GiveUp, Ignore,
        End, Hang, Crash, Phases

\* The processes of launch n move, by themselves or by a signal.
Moves(n) ==
  ParentStep(n) \/ DaemonUp(n) \/ DaemonDown(n) \/ \E x \in Process : x[2] = n /\ Signal(x)

\* Nothing that is over comes to life again.
LEMMA ProcessMoves ==
  ASSUME TypeOK, Born, NEW n \in Pid, Moves(n)
  PROVE  /\ life' \in [Pid -> Phases] /\ stop' \subseteq Pid
         /\ parent' \in [Pid -> {"none", "exec", "up", "forked", "gone"}]
         /\ Born'
         /\ \A m \in Pid : /\ Live(m)' => Live(m)
                           /\ parent'[m] \in {"none", "exec"} => parent[m] = parent'[m]
<1> DEFINE Goal == /\ life' \in [Pid -> Phases] /\ stop' \subseteq Pid
                   /\ parent' \in [Pid -> {"none", "exec", "up", "forked", "gone"}]
                   /\ Born'
                   /\ \A m \in Pid : /\ Live(m)' => Live(m)
                                     /\ parent'[m] \in {"none", "exec"} => parent[m] = parent'[m]
<1>1. ASSUME \/ Catch(n) \/ LeaveBoot(n) \/ Request(n) \/ Swallow(n) \/ Load(n) \/ Fail(n)
             \/ Obey(n) \/ GiveUp(n) \/ Ignore(n) \/ End(n) \/ Hang(n) \/ Crash(n),
             parent' = parent
      PROVE  Goal
  <2>1. /\ life' \in [Pid -> Phases] /\ stop' \subseteq Pid
        /\ Alive(n) /\ life'[n] # "none" /\ \A m \in Pid \ {n} : life'[m] = life[m]
    BY <1>1, DaemonMoves
  <2> QED BY <1>1, <2>1 DEF Live, Alive, Born, TypeOK
<1>2. ASSUME NEW from \in SUBSET {"exec", "up", "forked", "gone"}, NEW to \in {"up", "forked", "gone"},
             SetParent(n, from, to), UNCHANGED lifeVars,
             from = {"exec"} \/ to = "gone", from \in {{"forked"}, {"gone"}, {"exec"}}
      PROVE  Goal
  <2>1. /\ parent[n] \in from /\ parent'[n] = to
        /\ parent' \in [Pid -> {"none", "exec", "up", "forked", "gone"}]
        /\ \A m \in Pid \ {n} : parent'[m] = parent[m]
    BY <1>2, ParentMoves
  <2>2. life' = life /\ stop' = stop
    BY <1>2 DEF lifeVars
  <2>3. parent[n] = "exec" => life[n] = "none"
    BY DEF Born
  <2> QED BY <1>2, <2>1, <2>2, <2>3 DEF Live, Alive, Born, TypeOK
<1>3. ASSUME NEW from \in {"exec", "up"}, SetParent(n, {from}, "gone"), Abort(n)
      PROVE  Goal
  <2>1. /\ parent[n] = from /\ parent'[n] = "gone"
        /\ parent' \in [Pid -> {"none", "exec", "up", "forked", "gone"}]
        /\ \A m \in Pid \ {n} : parent'[m] = parent[m]
    BY <1>3, ParentMoves
  <2>2. /\ life[n] = "none" /\ life'[n] = "gone" /\ life' \in [Pid -> Phases] /\ stop' = stop
        /\ \A m \in Pid \ {n} : life'[m] = life[m]
    BY <1>3, PassLife DEF Abort, Phases
  <2> QED BY <2>1, <2>2 DEF Live, Alive, Born, TypeOK
<1>4. ASSUME SetParent(n, {"up"}, "forked"), Fork(n)
      PROVE  Goal
  <2>1. /\ parent[n] = "up" /\ parent'[n] = "forked"
        /\ parent' \in [Pid -> {"none", "exec", "up", "forked", "gone"}]
        /\ \A m \in Pid \ {n} : parent'[m] = parent[m]
    BY <1>4, ParentMoves
  <2>2. /\ life'[n] = "boot" /\ life' \in [Pid -> Phases] /\ stop' = stop
        /\ \A m \in Pid \ {n} : life'[m] = life[m]
    BY <1>4, PassLife DEF Fork, Phases
  <2> QED BY <2>1, <2>2 DEF Live, Alive, Born, TypeOK
<1>5. CASE ParentStep(n)
  BY <1>2, <1>3, <1>4, <1>5 DEF ParentStep, Exec, ParentFork, ParentExit
<1>6. CASE DaemonUp(n) \/ DaemonDown(n)
  BY <1>1, <1>6 DEF DaemonUp, DaemonDown
<1>7. ASSUME NEW x \in Process, x[2] = n, Signal(x) PROVE Goal
  <2>1. CASE life[n] = "gone" /\ UNCHANGED <<lifeVars, parent>>
    BY <2>1 DEF lifeVars, Live, Alive, Born, TypeOK
  <2> QED BY <1>1, <1>2, <1>3, <1>7, <2>1 DEF Signal
<1> QED BY <1>5, <1>6, <1>7 DEF Moves

-----------------------------------------------------------------------------
(***************************************************************************)
(* The shells.                                                             *)
(***************************************************************************)
\* What ps shows.
LEMMA PsShows ==
  ASSUME TypeOK, Born
  PROVE  /\ Ps \subseteq Process /\ {x[2] : x \in Ps} \subseteq Pid
         /\ \A x \in Ps : parent[x[2]] \notin {"none", "exec"}
         /\ Ps = {} => \A n \in Pid : Live(n) => parent[n] = "exec"
<1>1. PsDaemons \subseteq Process /\ PsParents \subseteq Process
  BY DEF PsDaemons, PsParents, Process
<1>2. \A x \in PsDaemons : x[2] \in Pid /\ Alive(x[2])
  BY DEF PsDaemons
<1>3. \A x \in PsParents : x[2] \in Pid /\ parent[x[2]] \in {"up", "forked"}
  BY DEF PsParents
<1>4. \A x \in Ps : x[2] \in Pid /\ parent[x[2]] \notin {"none", "exec"}
  BY <1>2, <1>3 DEF Ps, Born, Alive
<1>5. ASSUME Ps = {}, NEW n \in Pid, Live(n) PROVE parent[n] = "exec"
  <2>1. <<"daemon", n>> \notin PsDaemons /\ <<"parent", n>> \notin PsParents
    BY <1>5 DEF Ps
  <2>2. ~Alive(n) /\ parent[n] \notin {"up", "forked"}
    BY <2>1 DEF PsDaemons, PsParents
  <2> QED BY <1>5, <2>2 DEF Live
<1> QED BY <1>1, <1>4, <1>5 DEF Ps

\* The processes move while the shells stay where they are, or one kills.
LEMMA MovesInv ==
  ASSUME LaunchInv, NEW n \in Pid, Moves(n), UNCHANGED <<seen, by, report>>,
         cmd' \in [Shell -> Cmds], MYAA' \in [Shell -> SUBSET Process],
         \A s \in Shell : cmd'[s] = cmd[s] \/ (cmd[s] = "kill" /\ cmd'[s] = "killed")
  PROVE  LaunchInv'
<1>1. TypeOK /\ Born
  BY DEF LaunchInv
<1>2. /\ life' \in [Pid -> Phases] /\ stop' \subseteq Pid
      /\ parent' \in [Pid -> {"none", "exec", "up", "forked", "gone"}] /\ Born'
      /\ \A m \in Pid : /\ Live(m)' => Live(m)
                        /\ parent'[m] \in {"none", "exec"} => parent[m] = parent'[m]
  BY <1>1, ProcessMoves
<1>3. TypeOK'
  BY <1>1, <1>2 DEF TypeOK
<1>4. SeenOK'
  BY <1>1, <1>2 DEF LaunchInv, SeenOK, TypeOK
<1>5. ShellOK'
  BY <1>2 DEF LaunchInv, ShellOK
<1>6. TerminatedMeansGone'
  BY <1>1, <1>2 DEF LaunchInv, TerminatedMeansGone, TypeOK
<1>7. FaultMeansGone' /\ OneEach'
  BY <1>2 DEF LaunchInv, FaultMeansGone, OneEach
<1> QED BY <1>2, <1>3, <1>4, <1>5, <1>6, <1>7 DEF LaunchInv

\* A shell moves and the processes stay as they are: it goes to command c, has
\* told its user r and has seen the launches S.
LEMMA ShellMoves ==
  ASSUME LaunchInv, UNCHANGED <<lifeVars, parent, by>>, MYAA' \in [Shell -> SUBSET Process],
         NEW s \in Shell, NEW c \in Cmds, NEW r \in Reports, NEW S \in SUBSET Pid,
         cmd' = [cmd EXCEPT ![s] = c], report' = [report EXCEPT ![s] = r],
         seen' = [seen EXCEPT ![s] = S],
         \A n \in S : parent[n] \notin {"none", "exec"},
         c # "idle" => r = "other",
         c # "started" => \A n \in Pid : by[n] = s => parent[n] # "exec",
         c = "launch" \/ r = "fault" => \A n \in Pid : by[n] = s => ~Live(n),
         r = "terminated" => \A n \in S : ~Live(n)
  PROVE  LaunchInv'
<1>1. TypeOK /\ life' = life /\ stop' = stop
  BY DEF LaunchInv, lifeVars
<1>2. \A n \in Pid : Live(n)' <=> Live(n)
  BY <1>1 DEF Live, Alive
<1>3. /\ cmd'[s] = c /\ report'[s] = r /\ seen'[s] = S
      /\ \A t \in Shell \ {s} : cmd'[t] = cmd[t] /\ report'[t] = report[t] /\ seen'[t] = seen[t]
      /\ cmd' \in [Shell -> Cmds] /\ report' \in [Shell -> Reports] /\ seen' \in [Shell -> SUBSET Pid]
  BY <1>1 DEF TypeOK
<1>4. TypeOK'
  BY <1>1, <1>3 DEF TypeOK
<1>5. Born' /\ OneEach'
  BY <1>1, <1>2 DEF LaunchInv, Born, OneEach
<1>6. SeenOK'
  BY <1>3 DEF LaunchInv, SeenOK
<1>7. ShellOK'
  BY <1>2, <1>3 DEF LaunchInv, ShellOK
<1>8. TerminatedMeansGone'
  BY <1>1, <1>2, <1>3 DEF LaunchInv, TerminatedMeansGone, TypeOK
<1>9. FaultMeansGone'
  BY <1>2, <1>3 DEF LaunchInv, FaultMeansGone
<1> QED BY <1>4, <1>5, <1>6, <1>7, <1>8, <1>9 DEF LaunchInv

\* A shell launches the program.
LEMMA LaunchMoves ==
  ASSUME LaunchInv, NEW s \in Shell, Launch(s)
  PROVE  LaunchInv'
<1>1. PICK n \in Pid : SetParent(n, {"none"}, "exec") /\ by' = [by EXCEPT ![n] = s]
  BY DEF Launch
<1>2. TypeOK /\ life' = life /\ stop' = stop /\ cmd[s] = "launch" /\ UNCHANGED <<MYAA, seen, report>>
  BY DEF LaunchInv, Launch, lifeVars
<1>3. /\ parent[n] = "none" /\ parent'[n] = "exec" /\ \A m \in Pid \ {n} : parent'[m] = parent[m]
      /\ parent' \in [Pid -> {"none", "exec", "up", "forked", "gone"}]
  BY <1>1, <1>2, ParentMoves
<1>4. /\ cmd'[s] = "started" /\ (\A t \in Shell \ {s} : cmd'[t] = cmd[t]) /\ cmd' \in [Shell -> Cmds]
  BY <1>2 DEF Launch, Goto, TypeOK, Cmds
<1>5. /\ by'[n] = s /\ (\A m \in Pid \ {n} : by'[m] = by[m]) /\ by' \in [Pid -> Shell \cup {NoShell}]
  BY <1>1, <1>2 DEF TypeOK
<1>6. \A m \in Pid \ {n} : Live(m)' <=> Live(m)
  BY <1>2, <1>3 DEF Live, Alive
<1>7. TypeOK'
  BY <1>2, <1>3, <1>4, <1>5 DEF TypeOK
<1>8. life[n] = "none"
  BY <1>3 DEF LaunchInv, Born
<1>9. Born' /\ SeenOK'
  BY <1>2, <1>3, <1>8 DEF LaunchInv, Born, SeenOK, TypeOK
<1>10. report[s] = "other" /\ \A m \in Pid : by[m] = s => ~Live(m)
  BY <1>2 DEF LaunchInv, ShellOK
<1>11. ShellOK'
  BY <1>2, <1>3, <1>4, <1>5, <1>6 DEF LaunchInv, ShellOK
<1>12. \A t \in Shell : n \notin seen[t]
  BY <1>3 DEF LaunchInv, SeenOK
<1>13. TerminatedMeansGone'
  BY <1>2, <1>6, <1>12 DEF LaunchInv, TerminatedMeansGone, TypeOK
<1>14. FaultMeansGone'
  BY <1>2, <1>5, <1>6, <1>10 DEF LaunchInv, FaultMeansGone
<1>15. OneEach'
  BY <1>5, <1>6, <1>10 DEF LaunchInv, OneEach
<1> QED BY <1>7, <1>9, <1>11, <1>13, <1>14, <1>15 DEF LaunchInv

LEMMA InitLaunch == Init => LaunchInv
<1> SUFFICES ASSUME Init PROVE LaunchInv
  OBVIOUS
<1>1. /\ life = [p \in Pid |-> "none"] /\ stop = {} /\ parent = [n \in Pid |-> "none"]
      /\ cmd = [s \in Shell |-> "idle"] /\ report = [s \in Shell |-> "other"]
      /\ MYAA = [s \in Shell |-> {}] /\ seen = [s \in Shell |-> {}] /\ by = [n \in Pid |-> NoShell]
  BY DEF Init, LifeInit
<1>2. TypeOK
  BY <1>1 DEF TypeOK, Phases, Cmds, Reports
<1>3. \A n \in Pid : ~Live(n)
  BY <1>1 DEF Live, Alive
<1> QED BY <1>1, <1>2, <1>3 DEF LaunchInv, Born, SeenOK, ShellOK, TerminatedMeansGone,
        FaultMeansGone, OneEach

LEMMA StepLaunch == LaunchInv /\ [Next]_launchVars => LaunchInv'
<1> SUFFICES ASSUME LaunchInv, [Next]_launchVars PROVE LaunchInv'
  OBVIOUS
<1>0. TypeOK /\ Born
  BY DEF LaunchInv
<1>1. CASE UNCHANGED launchVars
  BY <1>1 DEF launchVars, lifeVars, shellVars, LaunchInv, TypeOK, Born, SeenOK, ShellOK,
     TerminatedMeansGone, FaultMeansGone, OneEach, Live, Alive
<1>2. ASSUME NEW n \in Pid, ParentStep(n) \/ DaemonUp(n) \/ DaemonDown(n) PROVE LaunchInv'
  <2>1. UNCHANGED shellVars
    BY <1>2 DEF ParentStep, Exec, ParentFork, ParentExit, DaemonUp, DaemonDown
  <2> QED BY <1>0, <1>2, <2>1, MovesInv DEF Moves, shellVars, TypeOK
<1>3. ASSUME NEW s \in Shell, Command(s) PROVE LaunchInv'
  <2>1. PICK c \in {"start", "stop"} : cmd' = [cmd EXCEPT ![s] = c]
    BY <1>3 DEF Command, Goto
  <2>2. \A n \in Pid : by[n] = s => parent[n] # "exec"
    BY <1>3 DEF Command, LaunchInv, ShellOK
  <2>3. /\ UNCHANGED <<lifeVars, parent, by>> /\ MYAA' \in [Shell -> SUBSET Process]
        /\ report' = [report EXCEPT ![s] = "other"] /\ seen' = [seen EXCEPT ![s] = {}]
    BY <1>0, <1>3 DEF Command, TypeOK
  <2>4. c \in Cmds /\ c \notin {"launch", "started"} /\ "other" \in Reports
    BY DEF Cmds, Reports
  <2> QED BY <2>1, <2>2, <2>3, <2>4, ShellMoves
<1>4. ASSUME NEW s \in Shell, Start(s) PROVE LaunchInv'
  <2>1. cmd[s] = "start" /\ report[s] = "other" /\ \A n \in Pid : by[n] = s => parent[n] # "exec"
    BY <1>4 DEF Start, LaunchInv, ShellOK
  <2>2. /\ UNCHANGED <<lifeVars, parent, MYAA, by>> /\ seen' = [seen EXCEPT ![s] = seen[s]]
        /\ seen[s] \subseteq Pid /\ \A n \in seen[s] : parent[n] \notin {"none", "exec"}
    BY <1>0, <1>4 DEF Start, TypeOK, LaunchInv, SeenOK
  <2>3. report' = [report EXCEPT ![s] = "other"]
    BY <1>0, <1>4, <2>1 DEF Start, Say, TypeOK
  <2>4. MYAA' \in [Shell -> SUBSET Process] /\ {"idle", "launch"} \subseteq Cmds /\ "other" \in Reports
    BY <1>0, <2>2 DEF TypeOK, Cmds, Reports
  <2>5. CASE Ps # {} /\ Say(s, "other")
    <3>1. cmd' = [cmd EXCEPT ![s] = "idle"]
      BY <2>5 DEF Say, Goto
    <3> QED BY <2>1, <2>2, <2>3, <2>4, <3>1, ShellMoves
  <2>6. CASE Ps = {} /\ Goto(s, "launch")
    <3>1. \A n \in Pid : by[n] = s => ~Live(n)
      BY <1>0, <2>1, <2>6, PsShows
    <3>2. cmd' = [cmd EXCEPT ![s] = "launch"]
      BY <2>6 DEF Goto
    <3> QED BY <2>1, <2>2, <2>3, <2>4, <3>1, <3>2, ShellMoves
  <2> QED BY <1>4, <2>5, <2>6 DEF Start
<1>5. ASSUME NEW s \in Shell, Started(s) PROVE LaunchInv'
  <2>1. \A n \in Pid : by[n] = s => parent[n] # "exec"
    BY <1>5 DEF Started
  <2>2. /\ UNCHANGED <<lifeVars, parent, MYAA, by>> /\ seen' = [seen EXCEPT ![s] = seen[s]]
        /\ seen[s] \subseteq Pid /\ \A n \in seen[s] : parent[n] \notin {"none", "exec"}
    BY <1>0, <1>5 DEF Started, TypeOK, LaunchInv, SeenOK
  <2>3. PICK r \in {"other", "fault"} : Say(s, r) /\ (r = "fault" => Ps = {})
    BY <1>5 DEF Started
  <2>4. r = "fault" => \A n \in Pid : by[n] = s => ~Live(n)
    BY <1>0, <2>1, <2>3, PsShows
  <2>5. /\ cmd' = [cmd EXCEPT ![s] = "idle"] /\ report' = [report EXCEPT ![s] = r]
        /\ MYAA' \in [Shell -> SUBSET Process] /\ "idle" \in Cmds /\ r \in Reports /\ r # "terminated"
    BY <1>0, <2>2, <2>3 DEF Say, Goto, TypeOK, Cmds, Reports
  <2> QED BY <2>1, <2>2, <2>4, <2>5, ShellMoves
<1>6. ASSUME NEW s \in Shell, Stop(s) PROVE LaunchInv'
  <2>1. cmd[s] = "stop" /\ report[s] = "other" /\ \A n \in Pid : by[n] = s => parent[n] # "exec"
    BY <1>6 DEF Stop, LaunchInv, ShellOK
  <2>2. /\ UNCHANGED <<lifeVars, parent, by>> /\ seen' = [seen EXCEPT ![s] = {x[2] : x \in Ps}]
        /\ {x[2] : x \in Ps} \subseteq Pid
        /\ \A n \in {x[2] : x \in Ps} : parent[n] \notin {"none", "exec"}
    BY <1>0, <1>6, PsShows DEF Stop
  <2>3. MYAA' \in [Shell -> SUBSET Process]
    BY <1>0, <1>6, PsShows DEF Stop, TypeOK
  <2>4. PICK c \in {"idle", "kill"} : cmd' = [cmd EXCEPT ![s] = c]
    BY <1>6 DEF Stop, Say, Goto
  <2>5. report' = [report EXCEPT ![s] = "other"]
    BY <1>0, <1>6, <2>1 DEF Stop, Say, TypeOK
  <2> HIDE DEF Ps
  <2> DEFINE S == {x[2] : x \in Ps}
  <2>6. S \in SUBSET Pid /\ seen' = [seen EXCEPT ![s] = S] /\ \A n \in S : parent[n] \notin {"none", "exec"}
    BY <2>2
  <2> HIDE DEF S
  <2> QED BY <2>1, <2>2, <2>3, <2>4, <2>5, <2>6, ShellMoves DEF Cmds, Reports
<1>7. ASSUME NEW s \in Shell, Kill(s) PROVE LaunchInv'
  <2>1. PICK x \in MYAA[s] : /\ Signal(x) /\ MYAA' = [MYAA EXCEPT ![s] = @ \ {x}]
                             /\ IF MYAA[s] = {x} THEN Goto(s, "killed") ELSE cmd' = cmd
    BY <1>7 DEF Kill
  <2>2. x \in Process /\ MYAA' \in [Shell -> SUBSET Process] /\ cmd[s] = "kill"
    BY <1>0, <1>7, <2>1 DEF TypeOK, Kill
  <2>3. x[2] \in Pid /\ Moves(x[2])
    BY <2>1, <2>2 DEF Moves, Process
  <2>4. /\ cmd' \in [Shell -> Cmds]
        /\ \A t \in Shell : cmd'[t] = cmd[t] \/ (cmd[t] = "kill" /\ cmd'[t] = "killed")
    BY <1>0, <2>1, <2>2 DEF Goto, TypeOK, Cmds
  <2> QED BY <1>7, <2>2, <2>3, <2>4, MovesInv DEF Kill
<1>8. ASSUME NEW s \in Shell, Killed(s) PROVE LaunchInv'
  <2>1. cmd[s] = "killed" /\ \A n \in Pid : by[n] = s => parent[n] # "exec"
    BY <1>8 DEF Killed, LaunchInv, ShellOK
  <2>2. seen[s] \subseteq Pid /\ \A n \in seen[s] : parent[n] \notin {"none", "exec"}
    BY <1>0 DEF TypeOK, LaunchInv, SeenOK
  <2>3. CASE Ps # {} /\ Say(s, "other") /\ seen' = [seen EXCEPT ![s] = {}]
    <3>1. /\ UNCHANGED <<lifeVars, parent, by>> /\ MYAA' \in [Shell -> SUBSET Process]
          /\ cmd' = [cmd EXCEPT ![s] = "idle"] /\ report' = [report EXCEPT ![s] = "other"]
          /\ "idle" \in Cmds /\ "other" \in Reports
      BY <1>0, <1>8, <2>3 DEF Killed, Say, Goto, TypeOK, Cmds, Reports
    <3> QED BY <2>1, <2>3, <3>1, ShellMoves
  <2>4. CASE Ps = {} /\ Say(s, "terminated") /\ seen' = seen
    <3>1. \A n \in seen[s] : ~Live(n)
      BY <1>0, <2>2, <2>4, PsShows
    <3>2. seen' = [seen EXCEPT ![s] = seen[s]]
      BY <1>0, <2>4 DEF TypeOK
    <3> QED BY <1>0, <1>8, <2>1, <2>2, <2>4, <3>1, <3>2, ShellMoves
            DEF Killed, Say, Goto, Cmds, Reports, TypeOK
  <2> QED BY <1>8, <2>3, <2>4 DEF Killed
<1>9. ASSUME NEW s \in Shell, Status(s) PROVE LaunchInv'
  <2>1. cmd[s] = "idle" /\ \A n \in Pid : by[n] = s => parent[n] # "exec"
    BY <1>9 DEF Status, LaunchInv, ShellOK
  <2>2. /\ UNCHANGED <<lifeVars, parent, MYAA, by>> /\ seen' = [seen EXCEPT ![s] = seen[s]]
        /\ seen[s] \subseteq Pid /\ \A n \in seen[s] : parent[n] \notin {"none", "exec"}
    BY <1>0, <1>9 DEF Status, TypeOK, LaunchInv, SeenOK
  <2> QED BY <1>0, <1>9, <2>1, <2>2, ShellMoves DEF Status, Say, Goto, Cmds, Reports, TypeOK
<1> QED BY <1>1, <1>2, <1>3, <1>4, <1>5, <1>6, <1>7, <1>8, <1>9, LaunchMoves DEF Next, ShellStep

\* The invariant of start.sh holds for any number of shells and launches.
THEOREM LaunchInvariant == Spec => []LaunchInv
<1>1. Init => LaunchInv
  BY InitLaunch
<1>2. LaunchInv /\ [Next]_launchVars => LaunchInv'
  BY StepLaunch
<1> QED BY <1>1, <1>2, PTL DEF Spec

\* When stop reports the end of the program, every launch it saw is over and stays
\* over.
THEOREM TerminatedIsTrue == Spec => []TerminatedMeansGone
<1>1. LaunchInv => TerminatedMeansGone
  BY DEF LaunchInv
<1> QED BY <1>1, LaunchInvariant, PTL

\* When start reports a failure, no daemon of it comes up later.
THEOREM FaultIsTrue == Spec => []FaultMeansGone
<1>1. LaunchInv => FaultMeansGone
  BY DEF LaunchInv
<1> QED BY <1>1, LaunchInvariant, PTL

\* No user of start.sh ever has two launches of his own alive.
THEOREM OneLaunchEach == Spec => []OneEach
<1>1. LaunchInv => OneEach
  BY DEF LaunchInv
<1> QED BY <1>1, LaunchInvariant, PTL

\* The variables of start.sh and of the processes keep their types.
THEOREM LauncherTypes == Spec => []TypeOK
<1>1. LaunchInv => TypeOK
  BY DEF LaunchInv
<1> QED BY <1>1, LaunchInvariant, PTL

-----------------------------------------------------------------------------
\* Whatever start.sh does to them, the daemons live the life of DaemonLife: that
\* TimeDaemon implements it carries over to the daemons that are launched.
THEOREM LaunchedLive == Spec => LifeSpec
<1>1. Init => LifeInit
  BY DEF Init
<1>2. LaunchInv /\ [Next]_launchVars => [LifeNext]_lifeVars
  <2> SUFFICES ASSUME LaunchInv, [Next]_launchVars PROVE [LifeNext]_lifeVars
    OBVIOUS
  <2>1. ASSUME NEW x \in Process, Signal(x) PROVE [LifeNext]_lifeVars
    <3>1. x[2] \in Pid
      BY DEF Process
    <3> QED BY <2>1, <3>1 DEF Signal, LifeNext, LifeStep
  <2>2. ASSUME NEW s \in Shell, Kill(s) PROVE [LifeNext]_lifeVars
    <3>1. \E x \in MYAA[s] : Signal(x)
      BY <2>2 DEF Kill
    <3>2. MYAA[s] \subseteq Process
      BY DEF LaunchInv, TypeOK
    <3> QED BY <2>1, <3>1, <3>2
  <2>3. ASSUME NEW s \in Shell, Command(s) \/ (ShellStep(s) /\ ~Kill(s)) PROVE UNCHANGED lifeVars
    BY <2>3 DEF Command, ShellStep, Start, Launch, Started, Stop, Killed, Status
  <2>4. ASSUME NEW n \in Pid, ParentStep(n) \/ DaemonUp(n) \/ DaemonDown(n) PROVE [LifeNext]_lifeVars
    BY <2>4 DEF ParentStep, Exec, ParentFork, ParentExit, DaemonUp, DaemonDown, LifeNext, LifeStep
  <2> QED BY <2>2, <2>3, <2>4 DEF Next, launchVars
<1> QED BY <1>1, <1>2, LaunchInvariant, PTL DEF Spec, LifeSpec

=============================================================================
