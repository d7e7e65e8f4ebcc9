---------------------------- MODULE MCTimeDaemon ----------------------------
(***************************************************************************)
(* Values of TimeDaemon's constants for TLC.                               *)
(***************************************************************************)
EXTENDS TimeDaemonLife

\* Up to three libraries with different names.
Names == [m \in Node |-> <<"a", "b", "c">>[m]]

\* A block for the first and the last of three libraries, in the other order than
\* readdir's, so that the middle one is freed; and for the middle one only, so that
\* the head and then the tail of the list are freed.
ThreeConfs == {<<"c", "a">>, <<"b">>}

\* A block for the only library, once and twice.
OneConfs == {<<"a">>, <<"a", "a">>}

\* A block for each of two libraries, in the other order than readdir's.
BothConfs == {<<"b", "a">>}

\* One method called by each of main, the timer handler and gameover.
OneEach == {"init", "seach", "deldate"}
OneEachOnly == {OneEach}
NoneOrOneEach == {{}, OneEach}

\* All six methods, or none.
NoneOrAll == {{}, Methods}
=============================================================================
