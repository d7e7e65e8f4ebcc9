----------------------------- MODULE DaemonLife -----------------------------
(***************************************************************************)
(* The life of the daemons as the user of start.sh knows it: what becomes  *)
(* of a process and of the stop requests sent to it.  TimeDaemon, the      *)
(* process of src/main.c in full, implements it with one process;          *)
(* Launcher composes it with the shells that run start.sh.                 *)
(*                                                                         *)
(*    none -> boot -> loading -> loaded -> ending -> gone                  *)
(*                                                                         *)
(* A daemon is boot from fork until it catches its signals, loading until  *)
(* the first library is linked, and ending once gameover has found work.   *)
(* From each of these it can also go at once.  From loading on it can      *)
(* become hung: a signal handler waits in its line of the log for the      *)
(* line it has interrupted.                                                *)
(***************************************************************************)
CONSTANT Pid

VARIABLES
  life,   \* the phase of each daemon
  stop    \* the daemons with a stop request that is not handled yet

lifeVars == <<life, stop>>

Phases == {"none", "boot", "loading", "loaded", "ending", "hung", "gone"}

Alive(p) == life[p] \notin {"none", "gone"}

LifeInit == life = [p \in Pid |-> "none"] /\ stop = {}

\* Daemon p passes from one phase to another.
Pass(p, from, to) == life[p] = from /\ life' = [life EXCEPT ![p] = to]

\* fork makes the daemon, or there will be none.
Fork(p)  == Pass(p, "none", "boot") /\ stop' = stop
Abort(p) == Pass(p, "none", "gone") /\ stop' = stop

\* Before sigaction the daemon may give up; a stop request kills it.
Catch(p)     == Pass(p, "boot", "loading") /\ stop' = stop
LeaveBoot(p) == Pass(p, "boot", "gone") /\ stop' = stop

\* A stop request for a daemon that catches it.
Request(p) ==
  /\ life[p] \in {"loading", "loaded", "ending", "hung"}
  /\ life' = life /\ stop' = stop \cup {p}

\* With no library loaded gameover returns: the request has no effect.
Swallow(p) ==
  /\ life[p] = "loading" /\ p \in stop
  /\ life' = life /\ stop' = stop \ {p}

\* The startup links the first library, or fails.
Load(p) == Pass(p, "loading", "loaded") /\ stop' = stop
Fail(p) == Pass(p, "loading", "gone") /\ stop' = stop \ {p}

\* A loaded daemon ends because of a stop request, or because its startup fails.
Obey(p) == p \in stop /\ Pass(p, "loaded", "ending") /\ stop' \in {stop, stop \ {p}}
GiveUp(p) == Pass(p, "loaded", "ending") /\ stop' = stop

\* gameover does not return: another request changes nothing, and the process
\* ends, in order or in undefined behaviour.
Ignore(p) ==
  /\ life[p] = "ending" /\ p \in stop
  /\ life' = life /\ stop' = stop \ {p}
End(p) == Pass(p, "ending", "gone") /\ stop' = stop \ {p}

\* A handler waits for ever.
Hang(p) ==
  \E from \in {"loading", "loaded", "ending"} : Pass(p, from, "hung") /\ stop' = stop

\* The daemon uses a log that it has deleted; also a handler on top of a hung one.
Crash(p) ==
  \E from \in {"loaded", "hung"} : Pass(p, from, "gone") /\ stop' = stop \ {p}

LifeStep(p) ==
  \/ Fork(p) \/ Abort(p) \/ Catch(p) \/ LeaveBoot(p) \/ Request(p) \/ Swallow(p)
  \/ Load(p) \/ Fail(p) \/ Obey(p) \/ GiveUp(p) \/ Ignore(p) \/ End(p)
  \/ Hang(p) \/ Crash(p)

LifeNext == \E p \in Pid : LifeStep(p)

LifeSpec == LifeInit /\ [][LifeNext]_lifeVars

\* A loaded daemon that does not hang obeys, and an ending one comes to its end.
LifeFairness == \A p \in Pid : WF_lifeVars(Obey(p)) /\ WF_lifeVars(End(p))

=============================================================================
