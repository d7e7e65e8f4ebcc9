--------------------------- MODULE TimeDaemonLife ---------------------------
(***************************************************************************)
(* The daemon of TimeDaemon lives the life of DaemonLife.                  *)
(***************************************************************************)
EXTENDS TimeDaemonProps

\* The phase of the process.  A gameover that has found work makes it ending
\* even when it has emptied the list, and a hung one makes nothing of it any more.
Phase ==
  IF status # "running" THEN "gone"
  ELSE IF Hung THEN "hung"
  ELSE IF pc["main"] = "start" THEN "none"
  ELSE IF ~caught THEN "boot"
  ELSE IF ~Intact THEN "ending"
  ELSE IF cychead # 0 THEN "loaded" ELSE "loading"

\* SIGUSR1 is pending, or its handler has not looked at the list yet.
Requested == status = "running" /\ ("usr1" \in pend \/ pc["usr1"] = "go")

Life == INSTANCE DaemonLife
          WITH Pid <- {1}, life <- [p \in {1} |-> Phase],
               stop <- IF Requested THEN {1} ELSE {}

\* Whatever main and its handlers do, the process passes through the phases of
\* DaemonLife: a daemon that has loaded a library never becomes one without,
\* a gameover that has begun to free is never left but by the end of the process,
\* a hung process does nothing more but end, and a stop request is forgotten only
\* before the first library or after the end has begun.
LivesALife == Life!LifeSpec

\* A gameover that has begun to free comes to the end of the process, also the
\* one main calls after a failed startup, with the timer interrupting it: the
\* fairness DaemonLife asks of End.  It hangs only when SIGUSR1 finds a timer pass
\* on top of it in a line of the log.
EndingEnds == (Phase = "ending") ~> (Phase \in {"gone", "hung"})

=============================================================================
