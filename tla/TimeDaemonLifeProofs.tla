------------------------ MODULE TimeDaemonLifeProofs ------------------------
(***************************************************************************)
(* No library is overdue, configuration blocks and libraries correspond,   *)
(* a daemon that is up has initialised its libraries, a pass of the timer  *)
(* handler comes to each of them, each is released once and before the     *)
(* process exits, and the daemon lives the life of DaemonLife: proofs for  *)
(* every number of libraries, every configuration and every cycle time.    *)
(***************************************************************************)
EXTENDS TimeDaemonLife, TimeDaemonSafetyProofs

USE NAssumption, MaxKeyAssumption, ExportAssumption, ConfAssumption
USE DEF Node, Handlers, Frames

-----------------------------------------------------------------------------
(***************************************************************************)
(* Where the steps lead.                                                   *)
(***************************************************************************)
\* The steps of loadLib and before.
LEMMA LoadLabels ==
  ASSUME TypeInv, LoadStep
  PROVE  /\ pc["main"] \in LoadPcs /\ pc'["main"] \in LoadPcs \cup {"match", "go"}
         /\ run = "main" /\ pc'["usr1"] = pc["usr1"] /\ pc'["alrm"] = pc["alrm"]
         /\ UNCHANGED <<keylen, vallen, fdate, ld, incall, tinit, released>>
<1> USE DEF procVars, heapVars, dataVars, listVars, fileVars, libVars, mainVars, histVars
<1>1. \E l \in LoadPcs : Main(l)
  BY DEF LoadStep, Start, SigAction, SetTimer, LoadFile, ReadFile, OpenDir, ReadDir, DlSym,
         CycMake, Link, SetTail, Wire, DirEnd, LoadPcs
<1>2. pc' = pc \/ \E l \in LoadPcs \cup {"match", "go"} : Goto("main", l)
  BY DEF LoadStep, Start, SigAction, SetTimer, LoadFile, ReadFile, OpenDir, ReadDir, DlSym,
         CycMake, Link, SetTail, Wire, DirEnd, LoadPcs, GotoNode
<1>3. UNCHANGED <<keylen, vallen, fdate, ld, incall, tinit, released>>
  BY DEF LoadStep, Start, SigAction, SetTimer, LoadFile, ReadFile, OpenDir, ReadDir, DlSym,
         CycMake, Link, SetTail, Wire, DirEnd
<1> QED BY <1>1, <1>2, <1>3, GotoLabel DEF Main, At, Moves

\* The steps of toSetCycdata.
LEMMA BindLabels ==
  ASSUME TypeInv, BindStep
  PROVE  /\ pc["main"] \in BindPcs /\ pc'["main"] \in BindPcs \cup {"init", "go"}
         /\ run = "main" /\ pc'["usr1"] = pc["usr1"] /\ pc'["alrm"] = pc["alrm"]
         /\ UNCHANGED <<keylen, vallen, fn, blocks, incall, tinit, released, status>>
<1> USE DEF procVars, heapVars, dataVars, listVars, fileVars, libVars, mainVars, histVars
<1>1. \E l \in BindPcs : Main(l)
  BY DEF BindStep, MatchNode, MatchEnd, Prune, Unlink, FreeNode, BindPcs
<1>2. \E l \in BindPcs \cup {"init", "go"} : Goto("main", l)
  BY DEF BindStep, MatchNode, MatchEnd, Prune, Unlink, FreeNode, BindPcs, GotoNode
<1>3. UNCHANGED <<keylen, vallen, fn, blocks, incall, tinit, released, status>>
  BY DEF BindStep, MatchNode, MatchEnd, Prune, Unlink, FreeNode
<1> QED BY <1>1, <1>2, <1>3, GotoLabel DEF Main, At, Moves

\* The steps of the TimeInit loop.
LEMMA InitLabels ==
  ASSUME TypeInv, InitStep
  PROVE  /\ pc["main"] \in InitPcs /\ pc'["main"] \in InitPcs \cup {"pause", "go"}
         /\ run = "main" /\ pc'["usr1"] = pc["usr1"] /\ pc'["alrm"] = pc["alrm"]
         /\ UNCHANGED <<heap, next, vallen, fn, fdate, blocks, cychead, released, status, entry>>
<1> USE DEF procVars, heapVars, dataVars, listVars, fileVars, libVars, mainVars, histVars
<1>1. \E l \in InitPcs : At("main", l)
  BY DEF InitStep, TimeInit, TimeInitReturn, InitNext, Invoke, Return, Main, InitPcs
<1>2. pc' = pc \/ \E l \in InitPcs \cup {"pause", "go"} : Goto("main", l)
  BY DEF InitStep, TimeInit, TimeInitReturn, InitNext, Invoke, Return, AfterCall, OnError,
         InitPcs, GotoNode
<1>3. UNCHANGED <<heap, next, vallen, fn, fdate, blocks, cychead, released, status, entry>>
  BY DEF InitStep, TimeInit, TimeInitReturn, InitNext
<1> QED BY <1>1, <1>2, <1>3, GotoLabel DEF At, Moves

\* main moves only while the list is intact.
LEMMA MainIntact ==
  ASSUME Inv, MainStep
  PROVE  TypeInv /\ Intact /\ ListInv /\ pc["usr1"] = "idle" /\ pc["alrm"] = "idle" /\ Intact'
<1>1. TypeInv
  BY DEF Inv
<1>2. /\ run = "main" /\ pc["main"] \in LoadPcs \cup BindPcs \cup InitPcs
      /\ pc'["main"] \in LoadPcs \cup BindPcs \cup InitPcs \cup {"pause", "go"}
      /\ pc'["usr1"] = pc["usr1"]
  BY <1>1, LoadLabels, BindLabels, InitLabels DEF MainStep, BindPcs, InitPcs
<1>3. pc["usr1"] = "idle" /\ pc["alrm"] = "idle"
  BY <1>1, <1>2, MainRuns
<1>4. Intact /\ Intact'
  BY <1>2, <1>3 DEF Intact, Tearing, WalkPcs, LastPcs, LoadPcs, BindPcs, InitPcs
<1> QED BY <1>1, <1>3, <1>4 DEF Inv, IntactInv

\* Signals, lines of the log, faults and stuttering.
Idle ==
  \/ Tick \/ Stop \/ \E h \in Handlers : Deliver(h)
  \/ \E c \in Frames : MethodLog(c) \/ LogDone(c) \/ Fault(c)
  \/ UNCHANGED vars

\* They change no data but the logs and neither main's nor, but for the delivery
\* of SIGUSR1, gameover's frame.
LEMMA IdleSteps ==
  ASSUME TypeInv, Idle
  PROVE  /\ UNCHANGED <<heap, next, keylen, vallen, fn, fdate, listVars, blocks, shead, libVars,
                        mainVars, histVars, cyc, incall>>
         /\ LogsKept
         /\ pc'["main"] = pc["main"]
         /\ pc'["usr1"] = pc["usr1"] \/ (pc["usr1"] = "idle" /\ pc'["usr1"] = "go")
         /\ status' = status \/ status' \in {"killed", "undefined"}
<1> DEFINE Goal == /\ UNCHANGED <<heap, next, keylen, vallen, fn, fdate, listVars, blocks, shead, libVars,
                                 mainVars, histVars, cyc, incall>>
                   /\ LogsKept
                   /\ pc'["main"] = pc["main"]
                   /\ pc'["usr1"] = pc["usr1"] \/ (pc["usr1"] = "idle" /\ pc'["usr1"] = "go")
                   /\ status' = status \/ status' \in {"killed", "undefined"}
<1>1. CASE Tick \/ Stop \/ (\E c \in Frames : Fault(c)) \/ UNCHANGED vars
  BY <1>1 DEF Tick, Stop, Fault, vars, heapVars, dataVars, fileVars, procVars, LogsKept
<1>2. ASSUME NEW h \in Handlers, Deliver(h) PROVE Goal
  <2>1. /\ UNCHANGED <<heapVars, mainVars, histVars, cyc, incall>> /\ status' = status
    BY <1>2 DEF Deliver
  <2>2. /\ pc'["main"] = pc["main"]
        /\ pc'["usr1"] = pc["usr1"] \/ (pc["usr1"] = "idle" /\ pc'["usr1"] = "go")
    BY <1>2, GotoLabel DEF Deliver, TypeInv, StackOK
  <2> QED BY <2>1, <2>2 DEF heapVars, dataVars, fileVars, LogsKept
<1>3. ASSUME NEW c \in Frames, MethodLog(c) \/ LogDone(c) PROVE Goal
  BY <1>3, LogQuiet DEF procVars
<1> QED BY <1>1, <1>2, <1>3 DEF Idle

\* A frame that is in gameover stays there or returns to what it interrupted.
LEMMA GameLabels ==
  ASSUME TypeInv, NEW c \in {"main", "usr1"}, GameStep(c)
  PROVE  /\ pc[c] \in GamePcs /\ pc'[c] \in GamePcs \cup {"idle"} /\ (pc'[c] = "idle" => c = "usr1")
         /\ UNCHANGED <<keylen, vallen, tinit>>
<1> USE DEF procVars, heapVars, dataVars, listVars, fileVars, libVars, mainVars, histVars
<1>1. UNCHANGED <<keylen, vallen, tinit>>
  BY DEF GameStep, GameOver, GoLog, GoLd, TimeDel, TimeDelReturn, GoDlclose, GoFree, GoClear,
         GoLogDel, GoExit
<1>2. pc[c] \in GamePcs
  BY DEF GameStep, GameOver, GoLog, GoLd, TimeDel, TimeDelReturn, GoDlclose, GoFree, GoClear,
         GoLogDel, GoExit, Invoke, Return, At, Moves, GamePcs, WalkPcs, LastPcs
<1>3. CASE Tearing(c)
  BY <1>1, <1>2, <1>3, TearingStays DEF Tearing, GamePcs, WalkPcs, LastPcs
<1>4. CASE ~Tearing(c)
  <2>1. GameOver(c)
    BY <1>4 DEF GameStep, GoLog, GoLd, TimeDel, TimeDelReturn, GoDlclose, GoFree, GoClear,
       GoLogDel, GoExit, Invoke, Return, At, Moves, Tearing, WalkPcs, LastPcs
  <2>2. pc' = pc \/ Goto(c, "go_log") \/ (c = "usr1" /\ Goto(c, "idle"))
    BY <2>1 DEF GameOver, GotoNode, HandlerReturn
  <2> QED BY <1>1, <1>2, <2>2, GotoLabel DEF GamePcs, WalkPcs, LastPcs
<1> QED BY <1>3, <1>4

-----------------------------------------------------------------------------
(***************************************************************************)
(* CountInv: cycle times and counted passes.                               *)
(***************************************************************************)
\* Nothing CountInv speaks of changes.
LEMMA CountSame ==
  ASSUME CountInv, UNCHANGED <<keylen, vallen>>, pc'["main"] = pc["main"], cyc'["main"] = cyc["main"]
  PROVE  CountInv'
BY DEF CountInv

\* A pass of the timer handler counts each node at most up to its cycle time.
LEMMA CountTick ==
  ASSUME TypeInv, CountInv, TickStep
  PROVE  CountInv'
<1> USE DEF procVars, heapVars, dataVars, listVars, fileVars, libVars, mainVars, histVars
<1>1. pc'["main"] = pc["main"] /\ cyc'["main"] = cyc["main"]
  BY TickQuiet
<1>2. keylen' = keylen
  BY DEF TickStep, TickStart, Count, TimeDo, TickNext
<1>3. CASE ~Count
  <2>1. vallen' = vallen
    BY <1>3 DEF TickStep, TickStart, TimeDo, TickNext
  <2> QED BY <1>1, <1>2, <2>1, CountSame
<1>4. CASE Count
  <2> DEFINE m == cyc["alrm"]
  <2>0. m \in Node
    BY <1>4, NodeCursor DEF Count, At, Moves, NodePcs
  <2>1. keylen[m] \in Int /\ vallen[m] \in Int
    BY <2>0 DEF TypeInv, TypeOK, NodeType
  <2>2. \A x \in Node \ {m} : vallen'[x] = vallen[x]
    BY <1>4 DEF Count, TypeInv, TypeOK, NodeType
  <2>3. \/ keylen[m] < 0 /\ vallen'[m] = vallen[m]
        \/ keylen[m] >= 0 /\ keylen[m] >= vallen[m] + 1 /\ vallen'[m] = vallen[m] + 1
        \/ keylen[m] >= 0 /\ vallen'[m] = 0
    <3>1. vallen \in [Node -> Int]
      BY DEF TypeInv, TypeOK, NodeType
    <3>2. \A x \in Int : [vallen EXCEPT ![m] = x][m] = x
      BY <2>0, <3>1
    <3>3. \/ ~Cyclic(m) /\ vallen' = vallen
          \/ Cyclic(m) /\ ~Due(m) /\ vallen' = [vallen EXCEPT ![m] = vallen[m] + 1]
          \/ Cyclic(m) /\ Due(m) /\ vallen' = [vallen EXCEPT ![m] = 0]
      BY <1>4 DEF Count
    <3> HIDE DEF m
    <3> QED BY <2>1, <3>2, <3>3 DEF Cyclic, Due
  <2>4. /\ keylen[m] >= 0 => vallen'[m] <= keylen[m]
        /\ keylen[m] < 0 => vallen'[m] = 0
    BY <2>0, <2>1, <2>3 DEF CountInv
  <2> QED BY <1>1, <1>2, <2>0, <2>2, <2>4 DEF CountInv
<1> QED BY <1>3, <1>4

\* TimeInit comes to one node after the other, and sysinit sets the cycle time of
\* a node that has counted no pass yet.
LEMMA CountInit ==
  ASSUME TypeInv, ListInv, CountInv, InitStep
  PROVE  CountInv'
<1> USE DEF procVars, heapVars, dataVars, listVars, fileVars, libVars, mainVars, histVars
<1> DEFINE m == cyc["main"]
<1>1. /\ pc["main"] \in InitPcs /\ vallen' = vallen
      /\ \A x \in Node : keylen[x] \in Int /\ vallen[x] \in Nat
      /\ m \in 0..N
  <2>1. keylen \in [Node -> Int] /\ vallen \in [Node -> Nat]
    BY DEF TypeInv, TypeOK, NodeType
  <2> QED BY <2>1, InitLabels, NodeCursor
<1>2. CASE TimeInit
  <2>1. PICK l \in {"init", "login"} : Invoke("main", l)
    BY <1>2 DEF TimeInit
  <2>2. UNCHANGED <<keylen, cyc>> /\ m # 0 /\ pc["main"] = l
    BY <1>2, <2>1 DEF TimeInit, Invoke, At, Moves
  <2>3. pc'["main"] \in {l, AfterCall[l]}
    BY <2>1, <2>2, GotoLabel DEF Invoke
  <2>4. pc'["main"] = "init" \/ (pc'["main"] \in {"login", "initnext"} /\ pc["main"] \in {"init", "login"})
    BY <2>2, <2>3 DEF AfterCall
  <2>5. pc'["main"] = "init" => pc["main"] = "init"
    BY <2>2, <2>3 DEF AfterCall
  <2> QED BY <1>1, <2>2, <2>4, <2>5 DEF CountInv, LoadPcs, BindPcs
<1>3. CASE TimeInitReturn
  <2>1. PICK l \in {"init", "login"} : Return("main", l)
    BY <1>3 DEF TimeInitReturn
  <2>2. cyc' = cyc /\ m \in Node /\ pc["main"] = l
    BY <1>1, <1>3, <2>1 DEF TimeInitReturn, Return, At, Moves, TypeInv, CursorOK
  <2>3. pc'["main"] \in {"login", "initnext", "go"}
    <3>1. AfterCall[l] \in {"login", "initnext"} /\ OnError[l] = "go"
      BY DEF AfterCall, OnError
    <3> QED BY <2>1, <3>1, GotoLabel DEF Return
  <2>4. /\ \A x \in Node \ {m} : keylen'[x] = keylen[x]
        /\ keylen'[m] = keylen[m] \/ (pc["main"] = "init" /\ keylen'[m] \in -1..MaxKey)
    <3>1. CASE keylen' = keylen
      BY <3>1
    <3>2. ASSUME NEW k \in -1..MaxKey, keylen' = [keylen EXCEPT ![m] = k], pc["main"] = "init"
          PROVE  (\A x \in Node \ {m} : keylen'[x] = keylen[x]) /\ keylen'[m] \in -1..MaxKey
      BY <2>2, <3>2 DEF TypeInv, TypeOK, NodeType
    <3>3. \/ keylen' = keylen
          \/ pc["main"] = "init" /\ \E k \in -1..MaxKey : keylen' = [keylen EXCEPT ![m] = k]
      BY <1>3 DEF TimeInitReturn, Return, At, Moves
    <3> QED BY <3>1, <3>2, <3>3
  <2>5. pc["main"] = "init" => keylen[m] = 0 /\ vallen[m] = 0
    BY <1>1, <2>2 DEF CountInv
  <2>6. \A x \in Node : x > m => keylen'[x] = 0
    BY <1>1, <2>1, <2>2, <2>4 DEF CountInv
  <2>7. \A x \in Node : (keylen'[x] >= 0 => vallen[x] <= keylen'[x]) /\ (keylen'[x] < 0 => vallen[x] = 0)
    BY <1>1, <2>2, <2>4, <2>5 DEF CountInv
  <2> QED BY <1>1, <2>2, <2>3, <2>6, <2>7 DEF CountInv, LoadPcs, BindPcs
<1>4. CASE InitNext
  <2>1. keylen' = keylen
    BY <1>4 DEF InitNext
  <2>2. CASE Goto("main", "pause")
    <3>1. pc'["main"] = "pause"
      BY <2>2, GotoLabel
    <3> QED BY <1>1, <2>1, <3>1 DEF CountInv, LoadPcs, BindPcs
  <2>3. CASE Main("initnext") /\ GotoNode("main", "init", next[m])
    <3>1. pc["main"] = "initnext" /\ pc'["main"] = "init" /\ cyc'["main"] = next[m]
      BY <2>3, GotoCursor DEF Main, At, Moves
    <3>2. next[m] # 0 => next[m] > m /\ next[m] \in Int
      BY <3>1 DEF ListInv, CursorsLinked, IsList, Linked
    <3>3. next[m] # 0 => \A x \in Node : x >= next[m] => keylen[x] = 0
      BY <1>1, <3>1, <3>2 DEF CountInv
    <3> QED BY <1>1, <2>1, <3>1, <3>3 DEF CountInv, LoadPcs, BindPcs
  <2> QED BY <1>4, <2>2, <2>3 DEF InitNext
<1> QED BY <1>2, <1>3, <1>4 DEF InitStep

\* Every step.
LEMMA CountStep ==
  ASSUME Inv, CountInv, [Next]_vars
  PROVE  CountInv'
<1>0. TypeInv
  BY DEF Inv
<1>1. CASE Idle
  BY <1>0, <1>1, IdleSteps, CountSame DEF heapVars, dataVars
<1>2. CASE LoadStep
  BY <1>0, <1>2, LoadLabels DEF CountInv, LoadPcs, BindPcs, InitPcs
<1>3. CASE BindStep
  BY <1>0, <1>3, BindLabels DEF CountInv, LoadPcs, BindPcs, InitPcs
<1>4. CASE InitStep
  BY <1>0, <1>4, CountInit, MainIntact DEF MainStep
<1>5. CASE TickStep
  BY <1>0, <1>5, CountTick
<1>6. ASSUME NEW c \in {"main", "usr1"}, GameStep(c) PROVE CountInv'
  <2>1. UNCHANGED <<keylen, vallen>>
    BY <1>0, <1>6, GameLabels
  <2>2. CASE c = "main"
    BY <1>0, <1>6, <2>1, <2>2, GameLabels DEF CountInv, LoadPcs, BindPcs, GamePcs, WalkPcs, LastPcs
  <2>3. CASE c = "usr1"
    BY <1>0, <1>6, <2>1, <2>3, GameQuiet, CountSame
  <2> QED BY <2>2, <2>3
<1> QED BY <1>1, <1>2, <1>3, <1>4, <1>5, <1>6 DEF Next, MainStep, Ended, Idle

-----------------------------------------------------------------------------
(***************************************************************************)
(* ConfInv: configuration blocks and libraries correspond.                 *)
(***************************************************************************)
\* A gameover that has begun to free is never left.
LEMMA IntactBack ==
  ASSUME TypeInv, [Next]_vars, Intact'
  PROVE  Intact
<1>1. CASE Idle
  BY <1>1, IdleSteps DEF Intact, Tearing, WalkPcs, LastPcs
<1>2. CASE MainStep
  <2>1. /\ run = "main" /\ pc["main"] \in LoadPcs \cup BindPcs \cup InitPcs /\ pc'["usr1"] = pc["usr1"]
    BY <1>2, LoadLabels, BindLabels, InitLabels DEF MainStep
  <2> QED BY <2>1 DEF Intact, Tearing, WalkPcs, LastPcs, LoadPcs, BindPcs, InitPcs
<1>3. CASE TickStep
  BY <1>3, TickQuiet DEF Intact, Tearing
<1>4. ASSUME NEW c \in {"main", "usr1"}, GameStep(c) PROVE Intact
  <2>1. ~Tearing(c)
    BY <1>4, TearingStays DEF Intact
  <2>2. \A d \in {"main", "usr1"} \ {c} : pc'[d] = pc[d]
    BY <1>4, GameQuiet
  <2> QED BY <2>1, <2>2 DEF Intact, Tearing
<1> QED BY <1>1, <1>2, <1>3, <1>4 DEF Next, Ended, Idle

\* The number of blocks.
LEMMA BlockCount ==
  ASSUME TypeInv
  PROVE  Len(blocks) \in Nat
BY DEF TypeInv, TypeOK, GlobalType

\* Nothing ConfInv speaks of changes.
LEMMA ConfSame ==
  ASSUME TypeInv, ConfInv, LogsKept, UNCHANGED <<blocks, fdate, heap, filetem, cycnext, entry>>,
         pc'["main"] = pc["main"], cyc'["main"] = cyc["main"]
  PROVE  ConfInv'
<1>1. Linked' = Linked
  BY DEF Linked, InHand
<1>2. ASSUME NEW k \in {filetem - 1, Len(blocks)}, Bound(k) PROVE Bound(k)'
  BY <1>1, <1>2 DEF Bound, LogsKept
<1> QED BY <1>1, <1>2 DEF ConfInv, UnusedFrom

\* Main has given up or waits for the list to be freed.
LEMMA ConfVoid ==
  ASSUME pc'["main"] \in GamePcs
  PROVE  ConfInv'
BY DEF ConfInv, LoadPcs, BindPcs, InitPcs, GamePcs, WalkPcs, LastPcs

\* Until the directory is read no library has a block.
LEMMA ConfLoad ==
  ASSUME TypeInv, ConfInv, LoadStep
  PROVE  ConfInv'
<1> USE DEF procVars, heapVars, dataVars, listVars, fileVars, libVars, mainVars, histVars
<1> DEFINE Early == {"start", "sigaction", "setitimer", "loadFile", "readFile"}
<1>1. /\ pc["main"] \in LoadPcs /\ pc'["main"] \in LoadPcs \cup {"match", "go"} /\ fdate' = fdate
  BY LoadLabels
<1>2. \A m \in Node : fdate'[m] = 0
  BY <1>1 DEF ConfInv
<1>3. pc'["main"] \in (LoadPcs \ Early) \cup {"match"} => Len(blocks') \in Nat /\ Len(blocks') >= 1
  <2>1. CASE blocks' = blocks /\ pc["main"] \notin Early
    BY <1>1, <2>1, BlockCount DEF ConfInv
  <2>2. CASE blocks' \in Confs
    BY <2>2
  <2>3. CASE pc'["main"] \in Early \cup {"go"}
    BY <2>3 DEF LoadPcs
  <2>4. CASE Start \/ SigAction \/ SetTimer \/ LoadFile \/ ReadFile
    BY <2>2, <2>3, <2>4, GotoLabel DEF Start, SigAction, SetTimer, LoadFile, ReadFile, Main, At, Moves
  <2>5. CASE OpenDir \/ ReadDir \/ DlSym \/ CycMake \/ Link \/ SetTail \/ Wire \/ DirEnd
    <3>1. blocks' = blocks
      BY <2>5 DEF OpenDir, ReadDir, DlSym, CycMake, Link, SetTail, Wire, DirEnd
    <3>2. pc["main"] \notin Early
      BY <2>5 DEF OpenDir, ReadDir, DlSym, CycMake, Link, SetTail, Wire, DirEnd, Main, At, Moves
    <3> QED BY <2>1, <3>1, <3>2
  <2> QED BY <2>4, <2>5 DEF LoadStep
<1>4. pc'["main"] = "match" => filetem' = 1
  <2>1. CASE DirEnd
    BY <2>1, GotoLabel DEF DirEnd
  <2>2. CASE ~DirEnd
    <3>1. pc' = pc \/ \E l \in LoadPcs \cup {"go"} : Goto("main", l)
      BY <2>2 DEF LoadStep, Start, SigAction, SetTimer, LoadFile, ReadFile, OpenDir, ReadDir, DlSym,
         CycMake, Link, SetTail, Wire, LoadPcs, GotoNode
    <3> QED BY <1>1, <3>1, GotoLabel DEF LoadPcs
  <2> QED BY <2>1, <2>2
<1>5. pc'["main"] = "match" => filetem' \in 1..(Len(blocks') + 1) /\ filetem' - 1 = 0
  BY <1>3, <1>4
<1>6. Bound(0)'
  BY <1>2 DEF Bound, Linked
<1> QED BY <1>1, <1>2, <1>3, <1>5, <1>6 DEF ConfInv, LoadPcs, BindPcs, InitPcs

\* The libraries without a block behind m are behind its successor.
LEMMA UnusedNext ==
  ASSUME TypeInv, IsList(cychead, Linked), NEW m \in Linked, UnusedFrom(m)
  PROVE  \A x \in Linked \ {m} : fdate[x] = 0 => next[m] # 0 /\ x >= next[m]
<1>1. \A x \in Linked : x \in Int /\ next[x] \in Int
  BY DEF Linked, TypeInv, TypeOK, NodeType
<1> QED BY <1>1 DEF IsList, UnusedFrom

\* The loop that gives every block a library.
LEMMA ConfMatch ==
  ASSUME TypeInv, ListInv, ConfInv, MatchNode \/ MatchEnd
  PROVE  ConfInv'
<1> USE DEF procVars, heapVars, dataVars, listVars, fileVars, libVars, mainVars, histVars
<1> DEFINE m == cyc["main"]
<1>1. /\ pc["main"] = "match" /\ UNCHANGED <<blocks, heap>>
      /\ filetem \in 1..(Len(blocks) + 1) /\ Bound(filetem - 1) /\ Len(blocks) >= 1
  BY DEF MatchNode, MatchEnd, Main, At, Moves, ConfInv, BindPcs
<1>2. Len(blocks) \in Nat /\ filetem \in Nat
  BY BlockCount DEF TypeInv, TypeOK, LocalType
<1>3. ASSUME Goto("main", "match") PROVE Linked' = Linked
  BY <1>1, <1>3, GotoLabel DEF Linked, InHand
<1>4. CASE Goto("main", "go")
  BY <1>4, GotoLabel, ConfVoid DEF GamePcs
<1>5. CASE GotoNode("main", "match", next[m]) /\ UNCHANGED <<fdate, ld, filetem>>
  <2>1. pc'["main"] = "match" /\ Linked' = Linked
    BY <1>3, <1>5, GotoLabel DEF GotoNode
  <2>2. Bound(filetem - 1)'
    BY <1>1, <1>5, <2>1 DEF Bound
  <2> QED BY <1>1, <1>5, <2>1, <2>2 DEF ConfInv, LoadPcs, BindPcs, InitPcs
<1>6. CASE /\ SameName(m) /\ ~Taken(m) /\ m # 0 /\ filetem <= Len(blocks)
           /\ fdate' = [fdate EXCEPT ![m] = filetem] /\ ld' = [ld EXCEPT ![m] = "main"]
           /\ filetem' = filetem + 1 /\ GotoNode("main", "match", cychead)
  <2>1. pc'["main"] = "match" /\ Linked' = Linked
    BY <1>3, <1>6, GotoLabel DEF GotoNode
  <2>2. m \in Linked /\ m \in Node /\ fdate[m] = 0
    BY <1>1, <1>6, NodeCursor DEF ListInv, CursorsLinked, Taken
  <2>3. /\ fdate'[m] = filetem /\ ld'[m] = "main"
        /\ \A x \in Node \ {m} : fdate'[x] = fdate[x] /\ ld'[x] = ld[x]
    BY <1>6, <2>2 DEF TypeInv, TypeOK, NodeType
  <2>4. filetem' \in 1..(Len(blocks') + 1) /\ filetem' - 1 = filetem
    BY <1>1, <1>2, <1>6
  <2>5. \A x \in Node : fdate'[x] # 0 => /\ x \in Linked /\ fdate'[x] \in 1..filetem
                                         /\ blocks[fdate'[x]] = NameOf[x] /\ ld'[x] \in {"main", "own", "lost"}
    <3>1. \A x \in Node \ {m} : fdate'[x] # 0 => /\ x \in Linked /\ fdate'[x] \in 1..filetem
                                         /\ blocks[fdate'[x]] = NameOf[x] /\ ld'[x] \in {"main", "own", "lost"}
      BY <1>1, <1>2, <2>3 DEF Bound
    <3>2. filetem \in 1..filetem /\ blocks[filetem] = NameOf[m]
      BY <1>1, <1>2, <1>6 DEF SameName
    <3> QED BY <2>2, <2>3, <3>1, <3>2
  <2>6. \A i \in 1..filetem : \E x \in Linked : fdate'[x] = i
    <3>1. SUFFICES ASSUME NEW i \in 1..filetem, i # filetem
                   PROVE  \E x \in Linked : fdate'[x] = i
      BY <2>2, <2>3
    <3>2. i \in 1..(filetem - 1) /\ i # 0
      BY <1>2, <3>1
    <3>3. PICK x \in Linked : fdate[x] = i
      BY <1>1, <3>2 DEF Bound
    <3>4. x # m /\ x \in Node
      BY <2>2, <3>2, <3>3 DEF Linked
    <3> QED BY <2>3, <3>3, <3>4
  <2>7. \A x, y \in Linked : fdate'[x] # 0 /\ fdate'[x] = fdate'[y] => x = y
    <3>1. \A x \in Linked \ {m} : x \in Node /\ fdate'[x] = fdate[x] /\ fdate[x] # filetem
      BY <1>1, <1>2, <2>3 DEF Bound, Linked
    <3> QED BY <1>1, <2>3, <3>1 DEF Bound
  <2>8. Bound(filetem - 1)'
    BY <1>1, <2>1, <2>4, <2>5, <2>6, <2>7 DEF Bound
  <2> QED BY <1>1, <2>1, <2>4, <2>8 DEF ConfInv, LoadPcs, BindPcs, InitPcs
<1>7. CASE filetem > Len(blocks) /\ GotoNode("main", "prune", cychead) /\ UNCHANGED <<fdate, ld, filetem>>
  <2>1. pc'["main"] = "prune" /\ cyc'["main"] = cychead
    BY <1>7, GotoCursor
  <2>2. Linked' = Linked
    BY <1>1, <2>1 DEF Linked, InHand
  <2>3. filetem - 1 = Len(blocks)
    BY <1>1, <1>2, <1>7
  <2>4. Bound(Len(blocks))'
    BY <1>1, <1>7, <2>2, <2>3 DEF Bound
  <2>5. \A x \in Linked : cychead # 0 /\ x >= cychead
    <3>1. \A x \in Linked : x \in Int
      BY DEF Linked
    <3> QED BY <3>1 DEF ListInv, IsList
  <2>6. UnusedFrom(cyc["main"])'
    BY <2>1, <2>2, <2>5 DEF UnusedFrom
  <2> QED BY <1>1, <2>1, <2>4, <2>6 DEF ConfInv, LoadPcs, BindPcs, InitPcs
<1> QED BY <1>4, <1>5, <1>6, <1>7 DEF MatchNode, MatchEnd

\* The loop that frees the libraries no block names.
LEMMA ConfPrune ==
  ASSUME TypeInv, ListInv, ConfInv, Prune
  PROVE  ConfInv'
<1> USE DEF procVars, heapVars, dataVars, listVars, fileVars, libVars, mainVars, histVars
<1> DEFINE m == cyc["main"]
<1>1. /\ pc["main"] = "prune" /\ UNCHANGED <<blocks, heap, fdate, ld>>
      /\ Bound(Len(blocks)) /\ UnusedFrom(m) /\ Len(blocks) >= 1 /\ m \in Linked \cup {0}
  BY DEF Prune, Main, At, Moves, ConfInv, BindPcs, ListInv, CursorsLinked
<1>2. ASSUME NEW l \in {"init", "prune", "unlink"}, Goto("main", l)
      PROVE  pc'["main"] = l /\ Linked' = Linked /\ Bound(Len(blocks))'
  <2>1. pc'["main"] = l
    BY <1>2, GotoLabel
  <2>2. Linked' = Linked
    BY <1>1, <1>2, <2>1 DEF Linked, InHand
  <2> QED BY <1>1, <2>1, <2>2 DEF Bound
<1>3. CASE m = 0 /\ GotoNode("main", "init", cychead)
  <2>1. pc'["main"] = "init" /\ Linked' = Linked /\ Bound(Len(blocks))'
    BY <1>2, <1>3 DEF GotoNode
  <2>2. \A x \in Linked' : fdate'[x] # 0
    BY <1>1, <1>3, <2>1 DEF UnusedFrom
  <2> QED BY <1>1, <2>1, <2>2 DEF ConfInv, LoadPcs, BindPcs, InitPcs
<1>4. CASE m # 0 /\ fdate[m] # 0 /\ GotoNode("main", "prune", next[m])
  <2>1. pc'["main"] = "prune" /\ Linked' = Linked /\ Bound(Len(blocks))'
    BY <1>2, <1>4 DEF GotoNode
  <2>2. cyc'["main"] = next[m]
    BY <1>4, GotoCursor
  <2>3. UnusedFrom(cyc["main"])'
    BY <1>1, <1>4, <2>1, <2>2, UnusedNext DEF UnusedFrom, ListInv
  <2> QED BY <1>1, <2>1, <2>3 DEF ConfInv, LoadPcs, BindPcs, InitPcs
<1>5. CASE m # 0 /\ fdate[m] = 0 /\ Goto("main", "unlink") /\ cyc' = cyc /\ cycnext' = next[m]
  <2>1. pc'["main"] = "unlink" /\ Linked' = Linked /\ Bound(Len(blocks))'
    BY <1>2, <1>5
  <2>2. UnusedFrom(cyc["main"])'
    BY <1>1, <1>5, <2>1 DEF UnusedFrom
  <2> QED BY <1>1, <1>5, <2>1, <2>2 DEF ConfInv, LoadPcs, BindPcs, InitPcs
<1> QED BY <1>3, <1>4, <1>5 DEF Prune

\* A library without a block leaves the list and is freed.
LEMMA ConfFree ==
  ASSUME TypeInv, ListInv, ConfInv, Unlink \/ FreeNode
  PROVE  ConfInv'
<1> USE DEF procVars, heapVars, dataVars, listVars, fileVars, libVars, mainVars, histVars
<1> DEFINE m == cyc["main"]
<1>1. UNCHANGED <<blocks, fdate, ld, cycnext>> /\ Len(blocks) >= 1 /\ Bound(Len(blocks))
  BY DEF Unlink, FreeNode, Main, At, Moves, ConfInv, BindPcs
<1>2. CASE Unlink
  <2>1. /\ pc["main"] = "unlink" /\ heap' = heap /\ cyc' = cyc /\ m \in Linked
        /\ fdate[m] = 0 /\ UnusedFrom(m) /\ cycnext = next[m]
    BY <1>2 DEF Unlink, Main, At, Moves, ConfInv, ListInv, CursorsLinked
  <2>2. pc'["main"] = "free"
    BY <1>2, GotoLabel DEF Unlink
  <2>3. Linked' = Linked \ {m}
    BY <2>1, <2>2 DEF Linked, InHand
  <2>4. UnusedFrom(cycnext)'
    BY <1>1, <2>1, <2>3, UnusedNext DEF UnusedFrom, ListInv
  <2>5. Bound(Len(blocks))'
    <3>1. \A x \in Node : fdate[x] # 0 => x # m
      BY <2>1
    <3>2. \A i \in 1..Len(blocks) : \E x \in Linked \ {m} : fdate[x] = i
      <4>1. \A i \in 1..Len(blocks) : i # 0
        BY BlockCount
      <4> QED BY <1>1, <2>1, <4>1 DEF Bound
    <3> QED BY <1>1, <2>3, <3>1, <3>2 DEF Bound
  <2> QED BY <1>1, <2>2, <2>4, <2>5 DEF ConfInv, LoadPcs, BindPcs, InitPcs
<1>3. CASE FreeNode
  <2>1. pc["main"] = "free" /\ heap' = [heap EXCEPT ![m] = "freed"] /\ m \in Node /\ UnusedFrom(cycnext)
    BY <1>3, NodeCursor DEF FreeNode, Main, At, Moves, ConfInv, NodePcs
  <2>2. pc'["main"] = "prune" /\ cyc'["main"] = cycnext
    BY <1>3, GotoCursor DEF FreeNode
  <2>3. Linked' = Linked
    <3>1. \A x \in Node : heap'[x] = "live" <=> heap[x] = "live" /\ x # m
      BY <2>1 DEF TypeInv, TypeOK, NodeType
    <3> QED BY <2>1, <2>2, <3>1 DEF Linked, InHand
  <2>4. Bound(Len(blocks))'
    BY <1>1, <2>3 DEF Bound
  <2>5. UnusedFrom(cyc["main"])'
    BY <1>1, <2>1, <2>2, <2>3 DEF UnusedFrom
  <2> QED BY <1>1, <2>2, <2>4, <2>5 DEF ConfInv, LoadPcs, BindPcs, InitPcs
<1> QED BY <1>2, <1>3

\* TimeInit changes no node's block, and gives it a log that is open.
LEMMA ConfInit ==
  ASSUME TypeInv, ConfInv, InitStep
  PROVE  ConfInv'
<1> USE DEF procVars, heapVars, dataVars, listVars, fileVars, libVars, mainVars, histVars
<1>1. /\ pc["main"] \in InitPcs /\ pc'["main"] \in InitPcs \cup {"pause", "go"}
      /\ UNCHANGED <<heap, fdate, blocks>>
  BY InitLabels
<1>2. Linked' = Linked
  BY <1>1 DEF Linked, InHand, InitPcs
<1>3. \A m \in Node : ld'[m] = ld[m] \/ ld'[m] \in {"main", "own"}
  BY DEF InitStep, TimeInit, TimeInitReturn, InitNext, TypeInv, TypeOK, NodeType
<1>4. Bound(Len(blocks)) /\ Len(blocks) >= 1 /\ \A m \in Linked : fdate[m] # 0
  BY <1>1 DEF ConfInv
<1>5. Bound(Len(blocks))'
  BY <1>1, <1>2, <1>3, <1>4 DEF Bound
<1>6. Len(blocks') >= 1 /\ \A m \in Linked' : fdate'[m] # 0
  BY <1>1, <1>2, <1>4
<1> QED BY <1>1, <1>5, <1>6 DEF ConfInv, LoadPcs, BindPcs, InitPcs

\* A gameover that has not found work yet.
LEMMA GameBegin ==
  ASSUME TypeInv, NEW c \in {"main", "usr1"}, ~Tearing(c), GameStep(c)
  PROVE  GameOver(c) /\ pc[c] = "go"
BY DEF GameStep, GameOver, GoLog, GoLd, TimeDel, TimeDelReturn, GoDlclose, GoFree, GoClear,
       GoLogDel, GoExit, Invoke, Return, At, Moves, Tearing, WalkPcs, LastPcs

\* Every step.
LEMMA ConfStep ==
  ASSUME Inv, Intact => ConfInv, [Next]_vars, Intact'
  PROVE  ConfInv'
<1> USE DEF heapVars, dataVars, listVars, fileVars, mainVars
<1>0. TypeInv /\ Intact /\ ListInv /\ ConfInv
  BY IntactBack DEF Inv, IntactInv
<1>1. CASE Idle
  BY <1>0, <1>1, IdleSteps, ConfSame
<1>2. CASE LoadStep
  BY <1>0, <1>2, ConfLoad
<1>3. CASE BindStep
  BY <1>0, <1>3, ConfMatch, ConfPrune, ConfFree DEF BindStep
<1>4. CASE InitStep
  BY <1>0, <1>4, ConfInit
<1>5. CASE TickStep
  <2>1. UNCHANGED <<blocks, fdate, filetem>>
    BY <1>5 DEF TickStep, TickStart, Count, TimeDo, TickNext
  <2> QED BY <1>0, <1>5, <2>1, TickQuiet, ConfSame DEF LogsKept
<1>6. ASSUME NEW c \in {"main", "usr1"}, GameStep(c) PROVE ConfInv'
  <2>1. GameOver(c) /\ pc[c] = "go"
    BY <1>0, <1>6, GameBegin DEF Intact
  <2>2. CASE c = "main"
    BY <1>0, <1>6, <2>2, GameLabels, ConfVoid
  <2>3. CASE c = "usr1"
    <3>1. UNCHANGED <<blocks, fdate, ld, mainld, heap, filetem, cycnext, entry>>
      BY <2>1 DEF GameOver
    <3> QED BY <1>0, <1>6, <2>3, <3>1, GameQuiet, ConfSame DEF LogsKept
  <2> QED BY <2>2, <2>3
<1> QED BY <1>1, <1>2, <1>3, <1>4, <1>5, <1>6 DEF Next, MainStep, Ended, Idle

-----------------------------------------------------------------------------
(***************************************************************************)
(* ReadyInv: TimeInit misses no library.                                   *)
(***************************************************************************)
\* Nothing ReadyInv speaks of changes.
LEMMA ReadySame ==
  ASSUME ReadyInv, UNCHANGED <<heap, tinit, entry>>,
         pc'["main"] = pc["main"], cyc'["main"] = cyc["main"]
  PROVE  ReadyInv'
<1>1. Linked' = Linked
  BY DEF Linked, InHand
<1> QED BY <1>1 DEF ReadyInv, Ready

\* Before TimeInit and in gameover ReadyInv says nothing.
LEMMA ReadyVoid ==
  ASSUME pc'["main"] \in LoadPcs \cup BindPcs \cup GamePcs
  PROVE  ReadyInv'
BY DEF ReadyInv, LoadPcs, BindPcs, InitPcs, GamePcs, WalkPcs, LastPcs

\* At the head of the list main has passed nothing.
LEMMA ReadyPrune ==
  ASSUME TypeInv, ListInv, Prune
  PROVE  ReadyInv'
<1> USE DEF procVars, heapVars, dataVars, listVars, fileVars, libVars, mainVars, histVars
<1>1. CASE GotoNode("main", "init", cychead)
  <2>1. pc["main"] = "prune" /\ pc'["main"] = "init" /\ cyc'["main"] = cychead /\ heap' = heap
    BY <1>1, GotoCursor DEF Prune, Main, At, Moves
  <2>2. Linked' = Linked
    BY <2>1 DEF Linked, InHand
  <2>3. \A m \in Linked : m \in Int /\ cychead \in Int /\ cychead # 0 /\ cychead <= m
    BY DEF ListInv, IsList, Linked, TypeInv, TypeOK, GlobalType
  <2>4. Ready(cyc["main"])'
    <3> SUFFICES ASSUME NEW m \in Linked PROVE ~(cychead = 0 \/ m < cychead)
      BY <2>1, <2>2 DEF Ready
    <3> QED BY <2>3
  <2> QED BY <2>1, <2>4 DEF ReadyInv
<1>2. CASE Goto("main", "prune") \/ Goto("main", "unlink")
  <2>1. pc'["main"] \in {"prune", "unlink"}
    BY <1>2, GotoLabel
  <2> QED BY <2>1, ReadyVoid DEF BindPcs
<1> QED BY <1>1, <1>2 DEF Prune, GotoNode

\* Main goes on only when TimeInit has finished with the node, and to the next one.
LEMMA ReadyInit ==
  ASSUME TypeInv, ListInv, ReadyInv, InitStep
  PROVE  ReadyInv'
<1> USE DEF procVars, heapVars, dataVars, listVars, fileVars, libVars, mainVars, histVars
<1> DEFINE m == cyc["main"]
<1>1. /\ pc["main"] \in InitPcs /\ pc'["main"] \in InitPcs \cup {"pause", "go"} /\ UNCHANGED heap
      /\ m \in 0..N /\ Ready(m) /\ tinit \in [Node -> {"no", "begun", "ready"}]
  BY InitLabels, NodeCursor DEF ReadyInv, TypeInv, TypeOK, LocalType
<1>2. Linked' = Linked /\ \A x \in Linked : x \in Node
  BY <1>1 DEF Linked, InHand, InitPcs
<1>3. CASE TimeInit
  <2>1. m # 0 /\ cyc' = cyc /\ tinit' = [tinit EXCEPT ![m] = "begun"]
    BY <1>3 DEF TimeInit, Invoke
  <2>2. \A x \in Node : x # m => tinit'[x] = tinit[x]
    BY <1>1, <2>1
  <2>3. Ready(cyc["main"])'
    <3> SUFFICES ASSUME NEW x \in Linked, x < m PROVE tinit'[x] = "ready"
      BY <1>2, <2>1 DEF Ready
    <3>1. x # m
      BY <1>1, <1>2
    <3> QED BY <1>1, <1>2, <2>2, <3>1 DEF Ready
  <2>4. pc'["main"] # "pause"
    BY <1>3, GotoLabel DEF TimeInit, Invoke, AfterCall, At, Moves
  <2> QED BY <2>3, <2>4 DEF ReadyInv
<1>4. CASE TimeInitReturn
  <2>1. cyc' = cyc /\ tinit' = tinit
    BY <1>4 DEF TimeInitReturn
  <2>2. Ready(cyc["main"])'
    BY <1>1, <1>2, <2>1 DEF Ready
  <2>3. pc'["main"] # "pause"
    BY <1>4, GotoLabel DEF TimeInitReturn, Return, AfterCall, OnError
  <2> QED BY <2>2, <2>3 DEF ReadyInv
<1>5. CASE InitNext
  <2>1. CASE Main("initnext") /\ GotoNode("main", "init", next[m])
             /\ tinit' = [tinit EXCEPT ![m] = "ready"]
    <3>1. pc["main"] = "initnext" /\ pc'["main"] = "init" /\ cyc'["main"] = next[m]
      BY <2>1, GotoCursor DEF Main, At, Moves
    <3>2. m \in Linked /\ m \in Node
      BY <1>2, <3>1 DEF ListInv, CursorsLinked
    <3>3. /\ tinit'[m] = "ready" /\ \A x \in Node : x # m => tinit'[x] = tinit[x]
      BY <1>1, <2>1, <3>2
    <3>4. /\ next[m] = 0 => \A x \in Linked : x <= m
          /\ next[m] # 0 => \A x \in Linked : x > m => next[m] <= x
      BY <3>2 DEF ListInv, IsList
    <3>5. next[m] \in 0..N
      BY <3>2 DEF TypeInv, TypeOK, NodeType
    <3>6. Ready(cyc["main"])'
      <4> SUFFICES ASSUME NEW x \in Linked, next[m] = 0 \/ x < next[m] PROVE tinit'[x] = "ready"
        BY <1>2, <3>1, InitLabels DEF Ready
      <4>1. x \in Node /\ x <= m
        BY <1>2, <3>2, <3>4, <3>5
      <4>2. CASE x = m
        BY <3>3, <4>2
      <4>3. CASE x # m
        <5>1. x < m
          BY <3>2, <4>1, <4>3
        <5> QED BY <1>1, <3>3, <4>1, <4>3, <5>1 DEF Ready
      <4> QED BY <4>2, <4>3
    <3> QED BY <3>1, <3>6 DEF ReadyInv
  <2>2. CASE Main("init") /\ m = 0 /\ tinit' = tinit /\ cyc' = cyc
    <3>1. Ready(0)'
      BY <1>1, <1>2, <2>2 DEF Ready
    <3> QED BY <2>2, <3>1 DEF ReadyInv
  <2> QED BY <1>5, <2>1, <2>2 DEF InitNext
<1> QED BY <1>3, <1>4, <1>5 DEF InitStep

\* Every step.
LEMMA ReadyStep ==
  ASSUME Inv, Intact => ReadyInv, [Next]_vars, Intact'
  PROVE  ReadyInv'
<1> USE DEF heapVars, histVars, mainVars
<1>0. TypeInv /\ Intact /\ ListInv /\ ReadyInv
  BY IntactBack DEF Inv, IntactInv
<1>1. CASE Idle
  BY <1>0, <1>1, IdleSteps, ReadySame
<1>2. CASE LoadStep
  BY <1>0, <1>2, LoadLabels, ReadyVoid DEF BindPcs, GamePcs
<1>3. CASE BindStep
  <2>1. CASE Prune
    BY <1>0, <2>1, ReadyPrune
  <2>2. CASE ~Prune
    <3>1. pc'["main"] \in {"match", "go", "prune", "free"}
      BY <1>0, <1>3, <2>2, GotoLabel DEF BindStep, MatchNode, MatchEnd, Unlink, FreeNode, GotoNode
    <3> QED BY <3>1, ReadyVoid DEF BindPcs, GamePcs
  <2> QED BY <2>1, <2>2
<1>4. CASE InitStep
  BY <1>0, <1>4, ReadyInit
<1>5. CASE TickStep
  <2>1. UNCHANGED tinit
    BY <1>5 DEF TickStep, TickStart, Count, TimeDo, TickNext
  <2> QED BY <1>0, <1>5, <2>1, TickQuiet, ReadySame
<1>6. ASSUME NEW c \in {"main", "usr1"}, GameStep(c) PROVE ReadyInv'
  <2>1. GameOver(c) /\ pc[c] = "go"
    BY <1>0, <1>6, GameBegin DEF Intact
  <2>2. CASE c = "main"
    BY <1>0, <1>6, <2>2, GameLabels, ReadyVoid
  <2>3. CASE c = "usr1"
    <3>1. UNCHANGED <<heap, tinit, entry>>
      BY <2>1 DEF GameOver
    <3> QED BY <1>0, <1>6, <2>3, <3>1, GameQuiet, ReadySame
  <2> QED BY <2>2, <2>3
<1> QED BY <1>1, <1>2, <1>3, <1>4, <1>5, <1>6 DEF Next, MainStep, Ended, Idle

-----------------------------------------------------------------------------
(***************************************************************************)
(* ReleaseInv: who has been released, and who will be.                     *)
(***************************************************************************)
\* What is left of a list without its head.
LEMMA RestList ==
  ASSUME TypeInv, NEW S \in SUBSET Node, NEW m \in S, IsList(m, S)
  PROVE  IsList(next[m], S \ {m}) /\ (next[m] = 0 => S = {m})
<1>1. \A x \in S : x \in Int /\ next[x] \in Int
  BY DEF TypeInv, TypeOK, NodeType
<1>2. next[m] = 0 => S = {m}
  <2>1. SUFFICES ASSUME next[m] = 0 PROVE \A x \in S : x = m
    OBVIOUS
  <2>2. \A x \in S : x <= m /\ m <= x
    BY <2>1 DEF IsList
  <2> QED BY <1>1, <2>2
<1>3. next[m] # 0 => /\ next[m] \in S \ {m} /\ \A x \in S \ {m} : next[m] <= x
  BY <1>1 DEF IsList
<1>4. \A x \in S \ {m} : /\ next[x] = 0 => \A y \in S \ {m} : y <= x
                         /\ next[x] # 0 => /\ next[x] \in S \ {m} /\ next[x] > x
                                           /\ \A y \in S \ {m} : y > x => next[x] <= y
  BY <1>1 DEF IsList
<1>5. next[m] = 0 <=> S \ {m} = {}
  BY <1>2, <1>3
<1> QED BY <1>2, <1>3, <1>4, <1>5 DEF IsList

\* The nodes in the list during gameover.
LEMMA GameHand ==
  ASSUME TypeInv, NEW c \in {"main", "usr1"}, GameStep(c)
  PROVE  InHand' = InHand
<1>1. CASE c = "main"
  BY <1>1, GameLabels DEF InHand, GamePcs, WalkPcs, LastPcs
<1>2. CASE c = "usr1"
  BY <1>2, GameQuiet DEF InHand
<1> QED BY <1>1, <1>2

\* The steps of a gameover at work, by what they do to nodes and releases.
LEMMA GameEffect ==
  ASSUME TypeInv, TypeInv', NEW c \in {"main", "usr1"}, Tearing(c), GameStep(c)
  PROVE  \/ /\ UNCHANGED <<heap, released, cyc, cychead>>
            /\ pc[c] \in WalkPcs /\ pc'[c] \in WalkPcs /\ (Called(c)' <=> Called(c))
         \/ /\ UNCHANGED <<heap, cyc, cychead>> /\ pc[c] \in WalkPcs /\ pc'[c] \in WalkPcs
            /\ ~Called(c) /\ Called(c)' /\ "deldate" \in fn[cyc[c]]
            /\ released' = [released EXCEPT ![cyc[c]] = @ + 1]
         \/ /\ UNCHANGED <<heap, released, cyc, cychead>> /\ pc[c] \in WalkPcs /\ pc'[c] \in WalkPcs
            /\ ~Called(c) /\ Called(c)' /\ "deldate" \notin fn[cyc[c]]
         \/ /\ UNCHANGED <<released, cychead>> /\ pc[c] = "go_free" /\ ~Called(c)'
            /\ heap' = [heap EXCEPT ![cyc[c]] = "freed"] /\ cyc'[c] = next[cyc[c]]
            /\ pc'[c] = IF next[cyc[c]] = 0 THEN "go_clear" ELSE "go_log"
         \/ /\ UNCHANGED <<heap, released, cyc>> /\ pc[c] \in LastPcs /\ pc'[c] \in LastPcs
<1> USE DEF procVars, heapVars, dataVars, listVars, fileVars, libVars, mainVars, histVars
<1>1. \A k : pc'[c] = k /\ k \notin Methods => c \notin incall'
  BY DEF TypeInv, StackOK
<1>2. \A k : pc[c] = k /\ k \notin Methods => c \notin incall
  BY DEF TypeInv, StackOK
<1>3. CASE GoLog(c) \/ GoLd(c)
  <2>1. UNCHANGED <<heap, released, cyc, cychead, incall>> /\ pc[c] \in {"go_log", "go_ld"}
    BY <1>3 DEF GoLog, GoLd, At, Moves
  <2>2. pc'[c] \in {"go_ld", "deldate"}
    BY <1>3, GotoLabel DEF GoLog, GoLd
  <2>3. ~Called(c) /\ ~Called(c)'
    BY <1>2, <2>1, <2>2 DEF Called, Methods
  <2> QED BY <2>1, <2>2, <2>3 DEF WalkPcs
<1>4. CASE TimeDel(c)
  <2>1. /\ UNCHANGED <<heap, cyc, cychead>> /\ pc[c] = "deldate" /\ c \notin incall
        /\ released' = [released EXCEPT ![cyc[c]] = IF c \in incall' THEN @ + 1 ELSE @]
    BY <1>4 DEF TimeDel, Invoke, At, Moves
  <2>2. CASE "deldate" \in fn[cyc[c]]
    <3>1. c \in incall' /\ pc'[c] = "deldate"
      BY <1>4, <2>1, <2>2 DEF TimeDel, Invoke
    <3> QED BY <2>1, <2>2, <3>1 DEF Called, WalkPcs
  <2>3. CASE "deldate" \notin fn[cyc[c]]
    <3>1. c \notin incall' /\ Goto(c, "go_dl")
      BY <1>4, <2>1, <2>3 DEF TimeDel, Invoke, AfterCall
    <3>2. pc'[c] = "go_dl"
      BY <3>1, GotoLabel
    <3>3. released' = released
      BY <2>1, <3>1 DEF TypeInv, TypeOK, LocalType
    <3> QED BY <2>1, <2>3, <3>1, <3>2, <3>3 DEF Called, WalkPcs
  <2> QED BY <2>2, <2>3
<1>5. CASE TimeDelReturn(c) \/ GoDlclose(c)
  <2>1. UNCHANGED <<heap, released, cyc, cychead>> /\ pc[c] \in {"deldate", "go_dl"} /\ Called(c)
    BY <1>5 DEF TimeDelReturn, Return, GoDlclose, At, Moves, Called
  <2>2. pc'[c] \in {"go_dl", "go_free"}
    BY <1>5, GotoLabel DEF TimeDelReturn, Return, GoDlclose, AfterCall, OnError
  <2> QED BY <2>1, <2>2 DEF Called, WalkPcs
<1>6. CASE GoFree(c)
  <2>1. /\ UNCHANGED <<released, cychead>> /\ pc[c] = "go_free"
        /\ heap' = [heap EXCEPT ![cyc[c]] = "freed"]
        /\ GotoNode(c, IF next[cyc[c]] = 0 THEN "go_clear" ELSE "go_log", next[cyc[c]])
    BY <1>6 DEF GoFree, At, Moves
  <2>2. cyc'[c] = next[cyc[c]] /\ pc'[c] = IF next[cyc[c]] = 0 THEN "go_clear" ELSE "go_log"
    BY <2>1, GotoCursor
  <2>3. ~Called(c)'
    BY <1>1, <2>2 DEF Called, Methods
  <2> QED BY <2>1, <2>2, <2>3
<1>7. CASE GoClear(c) \/ GoLogDel(c) \/ GoExit(c)
  <2>1. UNCHANGED <<heap, released, cyc>> /\ pc[c] \in LastPcs
    BY <1>7 DEF GoClear, GoLogDel, GoExit, At, Moves, LastPcs
  <2>2. pc'[c] \in LastPcs
    BY <1>7, <2>1, GotoLabel DEF GoClear, GoLogDel, GoExit, LastPcs
  <2> QED BY <2>1, <2>2
<1>8. ~GameOver(c)
  BY DEF GameOver, At, Moves, Tearing, WalkPcs, LastPcs
<1> QED BY <1>3, <1>4, <1>5, <1>6, <1>7, <1>8 DEF GameStep

\* A gameover at work releases each node it comes to before it frees it.
LEMMA PayStep ==
  ASSUME TypeInv, TypeInv', NEW c \in {"main", "usr1"}, Tearing(c), PayInv(c), GameStep(c)
  PROVE  PayInv(c)'
<1> DEFINE m == cyc[c]
<1>1. UNCHANGED <<next, fn, tinit>> /\ InHand' = InHand
  BY GameQuiet, GameHand, GameLabels
<1>2. \A x \in Node : Owed(x)' <=> Owed(x)
  BY <1>1 DEF Owed
<1>3. pc[c] \in WalkPcs => m \in Node /\ m \in Linked
  <2>1. pc[c] \in WalkPcs => m \in Node
    BY NodeCursor DEF NodePcs
  <2> QED BY <2>1 DEF PayInv, IsList
<1>4. heap' = heap => Linked' = Linked
  BY <1>1 DEF Linked
<1>6. CASE /\ UNCHANGED <<heap, released, cyc, cychead>>
           /\ pc[c] \in WalkPcs /\ pc'[c] \in WalkPcs /\ (Called(c)' <=> Called(c))
  BY <1>1, <1>2, <1>4, <1>6 DEF PayInv, IsList, WalkPcs, LastPcs
<1>7. CASE /\ UNCHANGED <<heap, cyc, cychead>> /\ pc[c] \in WalkPcs /\ pc'[c] \in WalkPcs
           /\ ~Called(c) /\ Called(c)' /\ "deldate" \in fn[m]
           /\ released' = [released EXCEPT ![m] = @ + 1]
  <2>1. released'[m] >= 1 /\ \A x \in Node \ {m} : released'[x] = released[x]
    BY <1>3, <1>7 DEF TypeInv, TypeOK, LocalType
  <2>2. \A x \in Node : Owed(x)' => released'[x] >= 1 \/ (x \in Linked' /\ ~(x = cyc'[c] /\ Called(c)'))
    BY <1>2, <1>4, <1>7, <2>1 DEF PayInv
  <2> QED BY <1>1, <1>4, <1>7, <2>2 DEF PayInv, IsList, WalkPcs, LastPcs
<1>8. CASE /\ UNCHANGED <<heap, released, cyc, cychead>> /\ pc[c] \in WalkPcs /\ pc'[c] \in WalkPcs
           /\ ~Called(c) /\ Called(c)' /\ "deldate" \notin fn[m]
  <2>1. ~Owed(m)
    BY <1>8 DEF Owed
  <2>2. \A x \in Node : Owed(x)' => released'[x] >= 1 \/ (x \in Linked' /\ ~(x = cyc'[c] /\ Called(c)'))
    BY <1>2, <1>4, <1>8, <2>1 DEF PayInv
  <2> QED BY <1>1, <1>4, <1>8, <2>2 DEF PayInv, IsList, WalkPcs, LastPcs
<1>9. CASE /\ UNCHANGED <<released, cychead>> /\ pc[c] = "go_free" /\ ~Called(c)'
           /\ heap' = [heap EXCEPT ![m] = "freed"] /\ cyc'[c] = next[m]
           /\ pc'[c] = IF next[m] = 0 THEN "go_clear" ELSE "go_log"
  <2>1. m \in Node /\ m \in Linked /\ IsList(m, Linked) /\ Called(c)
    BY <1>3, <1>9 DEF PayInv, WalkPcs, Called
  <2>2. Linked' = Linked \ {m}
    <3>1. \A x \in Node : heap'[x] = "live" <=> heap[x] = "live" /\ x # m
      BY <1>9, <2>1 DEF TypeInv, TypeOK, NodeType
    <3> QED BY <1>1, <3>1 DEF Linked
  <2>3. IsList(next[m], Linked \ {m}) /\ (next[m] = 0 => Linked = {m})
    <3>1. Linked \in SUBSET Node
      BY DEF Linked
    <3> QED BY <2>1, <3>1, RestList
  <2>4. IsList(cyc[c], Linked)'
    BY <1>1, <1>9, <2>2, <2>3 DEF IsList
  <2>5. pc'[c] \in LastPcs => Linked' = {}
    BY <1>9, <2>2, <2>3 DEF LastPcs
  <2>6. \A x \in Node : Owed(x)' => released'[x] >= 1 \/ (x \in Linked' /\ ~(x = cyc'[c] /\ Called(c)'))
    BY <1>2, <1>9, <2>1, <2>2 DEF PayInv
  <2> QED BY <2>4, <2>5, <2>6 DEF PayInv
<1>10. CASE UNCHANGED <<heap, released, cyc>> /\ pc[c] \in LastPcs /\ pc'[c] \in LastPcs
  BY <1>1, <1>2, <1>4, <1>10 DEF PayInv, WalkPcs, LastPcs
<1> QED BY <1>6, <1>7, <1>8, <1>9, <1>10, GameEffect

\* A gameover that is alone releases no node twice.
LEMMA OnceStep ==
  ASSUME TypeInv, TypeInv', NEW c \in {"main", "usr1"}, Tearing(c), OnceInv(c), GameStep(c)
  PROVE  OnceInv(c)'
<1> DEFINE m == cyc[c]
<1>1. PayInv(c)'
  BY PayStep DEF OnceInv
<1>2. InHand' = InHand
  BY GameHand
<1>3. pc[c] \in WalkPcs => m \in Node /\ m \in Linked
  <2>1. pc[c] \in WalkPcs => m \in Node
    BY NodeCursor DEF NodePcs
  <2> QED BY <2>1 DEF OnceInv, PayInv, IsList
<1>4. heap' = heap => Linked' = Linked
  BY <1>2 DEF Linked
<1>5. released \in [Node -> Nat] /\ Linked \in SUBSET Node /\ Linked' \in SUBSET Node
  BY DEF Linked, TypeInv, TypeOK, LocalType
<1>6. CASE /\ UNCHANGED <<heap, released, cyc, cychead>>
           /\ pc[c] \in WalkPcs /\ pc'[c] \in WalkPcs /\ (Called(c)' <=> Called(c))
  BY <1>1, <1>4, <1>6 DEF OnceInv
<1>7. CASE /\ UNCHANGED <<heap, cyc, cychead>> /\ pc[c] \in WalkPcs /\ pc'[c] \in WalkPcs
           /\ ~Called(c) /\ Called(c)' /\ "deldate" \in fn[m]
           /\ released' = [released EXCEPT ![m] = @ + 1]
  <2>1. released[m] = 0
    BY <1>3, <1>7 DEF OnceInv
  <2>2. released'[m] = 1 /\ \A x \in Node \ {m} : released'[x] = released[x]
    BY <1>3, <1>5, <1>7, <2>1
  <2>3. \A x \in Node : released'[x] <= 1
    BY <2>2 DEF OnceInv
  <2>4. \A x \in Linked' : released'[x] # 0 => x = cyc'[c] /\ Called(c)'
    BY <1>4, <1>5, <1>7, <2>2 DEF OnceInv
  <2> QED BY <1>1, <1>4, <1>7, <2>3, <2>4 DEF OnceInv
<1>8. CASE /\ UNCHANGED <<heap, released, cyc, cychead>> /\ pc[c] \in WalkPcs /\ pc'[c] \in WalkPcs
           /\ ~Called(c) /\ Called(c)' /\ "deldate" \notin fn[m]
  BY <1>1, <1>4, <1>8 DEF OnceInv
<1>9. CASE /\ UNCHANGED <<released, cychead>> /\ pc[c] = "go_free" /\ ~Called(c)'
           /\ heap' = [heap EXCEPT ![m] = "freed"] /\ cyc'[c] = next[m]
           /\ pc'[c] = IF next[m] = 0 THEN "go_clear" ELSE "go_log"
  <2>1. m \in Node /\ m \in Linked
    BY <1>3, <1>9 DEF WalkPcs
  <2>2. Linked' = Linked \ {m}
    <3>1. \A x \in Node : heap'[x] = "live" <=> heap[x] = "live" /\ x # m
      BY <1>9, <2>1 DEF TypeInv, TypeOK, NodeType
    <3> QED BY <1>2, <3>1 DEF Linked
  <2>3. cychead' \notin Linked'
    BY <1>9, <2>2 DEF OnceInv
  <2> QED BY <1>1, <1>9, <2>2, <2>3 DEF OnceInv
<1>10. CASE UNCHANGED <<heap, released, cyc>> /\ pc[c] \in LastPcs /\ pc'[c] \in LastPcs
  <2>1. Linked' = {}
    BY <1>4, <1>10 DEF OnceInv, PayInv
  <2> QED BY <1>1, <1>10, <2>1 DEF OnceInv
<1> QED BY <1>6, <1>7, <1>8, <1>9, <1>10, GameEffect

\* A step of another frame.
LEMMA OtherFrame ==
  ASSUME NEW c \in {"main", "usr1"}, UNCHANGED <<heap, next, fn, entry, tinit, released, cychead>>,
         pc'["main"] = pc["main"], cyc'["main"] = cyc["main"],
         pc'[c] = pc[c], cyc'[c] = cyc[c], c \in incall' <=> c \in incall
  PROVE  /\ PayInv(c) => PayInv(c)'
         /\ OnceInv(c) => OnceInv(c)'
         /\ Doomed(c) => Doomed(c)'
         /\ Tearing(c)' <=> Tearing(c)
<1>1. Linked' = Linked
  BY DEF Linked, InHand
<1>2. PayInv(c) => PayInv(c)'
  BY <1>1 DEF PayInv, IsList, Owed, Called
<1> QED BY <1>1, <1>2 DEF OnceInv, Called, Doomed, Tearing

\* A gameover that finds a list starts at its head.
LEMMA BeginGame ==
  ASSUME TypeInv, TypeInv', NEW c \in {"main", "usr1"}, ~Tearing(c), GameStep(c), Tearing(c)'
  PROVE  /\ UNCHANGED <<heap, next, fn, entry, tinit, released, cychead>>
         /\ pc'[c] = "go_log" /\ cyc'[c] = cychead /\ cychead # 0 /\ ~Called(c)'
         /\ Linked' = Linked /\ status' = status
<1> USE DEF procVars, heapVars, dataVars, listVars, fileVars, libVars, mainVars, histVars
<1>1. GameOver(c) /\ pc[c] = "go"
  BY GameBegin
<1>2. cychead # 0 /\ GotoNode(c, "go_log", cychead) /\ status' = status
  <2>1. CASE c = "usr1" /\ HandlerReturn(c)
    BY <2>1, GotoLabel DEF HandlerReturn, GotoNode, Tearing, WalkPcs, LastPcs
  <2>2. CASE pc' = pc
    BY <1>1, <2>2 DEF Tearing, WalkPcs, LastPcs
  <2> QED BY <1>1, <2>1, <2>2 DEF GameOver
<1>3. pc'[c] = "go_log" /\ cyc'[c] = cychead
  BY <1>2, GotoCursor
<1>4. UNCHANGED <<heap, next, fn, entry, tinit, released, cychead>>
  BY <1>1 DEF GameOver
<1>5. ~Called(c)'
  BY <1>3 DEF Called, TypeInv, StackOK, Methods
<1>6. Linked' = Linked
  BY <1>4, GameHand DEF Linked
<1> QED BY <1>2, <1>3, <1>4, <1>5, <1>6

\* The first gameover to find work finds the whole list.
LEMMA OnceBegin ==
  ASSUME TypeInv, TypeInv', Intact, ListInv, ReleaseInv,
         NEW c \in {"main", "usr1"}, GameStep(c), Tearing(c)'
  PROVE  OnceInv(c)'
<1>1. /\ UNCHANGED <<next, fn, tinit, released, cychead>> /\ Linked' = Linked
      /\ pc'[c] = "go_log" /\ cyc'[c] = cychead /\ ~Called(c)'
  BY BeginGame DEF Intact
<1>2. IsList(cyc[c], Linked)'
  BY <1>1 DEF ListInv, IsList
<1>3. \A m \in Node : released'[m] = 0 /\ (Owed(m)' => m \in Linked')
  BY <1>1 DEF ReleaseInv, Owed
<1>4. PayInv(c)'
  BY <1>1, <1>2, <1>3 DEF PayInv, LastPcs
<1>5. \A m \in Linked' : m \in Node
  BY DEF Linked
<1> QED BY <1>1, <1>3, <1>4, <1>5 DEF OnceInv, WalkPcs

\* A second one finds the whole list too, or a head that is freed.
LEMMA PayBegin ==
  ASSUME TypeInv, TypeInv', Tearing("main"), OnceInv("main"), ~Tearing("usr1"),
         GameStep("usr1"), Tearing("usr1")'
  PROVE  PayInv("usr1")' \/ Doomed("usr1")'
<1>1. /\ UNCHANGED <<heap, next, fn, tinit, released, cychead>> /\ Linked' = Linked
      /\ pc'["usr1"] = "go_log" /\ cyc'["usr1"] = cychead /\ ~Called("usr1")' /\ cychead # 0
  BY BeginGame
<1>2. CASE heap[cychead] # "live"
  BY <1>1, <1>2 DEF Doomed, WalkPcs
<1>3. CASE heap[cychead] = "live"
  <2>1. cychead \in Linked
    BY <1>1, <1>3 DEF Linked, InHand, Tearing, WalkPcs, LastPcs, TypeInv, TypeOK, GlobalType
  <2>2. IsList(cychead, Linked)
    BY <2>1 DEF OnceInv, PayInv
  <2>3. IsList(cyc["usr1"], Linked)'
    BY <1>1, <2>2 DEF IsList
  <2>4. \A m \in Node : Owed(m)' => released'[m] >= 1 \/ m \in Linked'
    BY <1>1 DEF OnceInv, PayInv, Owed
  <2> QED BY <1>1, <2>3, <2>4 DEF PayInv, LastPcs
<1> QED BY <1>2, <1>3

\* A frame that stands on a freed node makes no step.
LEMMA DoomedStops ==
  ASSUME TypeInv, NEW c \in {"main", "usr1"}, Doomed(c)
  PROVE  ~GameStep(c)
<1>1. Undefined(c) /\ pc[c] # "go"
  <2>1. cyc[c] # 0
    BY NodeCursor DEF Doomed, NodePcs
  <2> QED BY <2>1 DEF Doomed, Undefined, CursorPcs, WalkPcs
<1> QED BY <1>1 DEF GameStep, GameOver, GoLog, GoLd, TimeDel, TimeDelReturn, GoDlclose, GoFree, GoClear,
            GoLogDel, GoExit, Invoke, Return, At, Moves

\* Before gameover no node is released, and only listed ones are initialised.
LEMMA ReleaseIntact ==
  ASSUME Inv, ReleaseInv, [Next]_vars, Intact'
  PROVE  /\ \A m \in Node : released'[m] = 0 /\ (tinit'[m] # "no" => m \in Linked')
         /\ pc'["main"] \in LoadPcs \cup BindPcs => \A m \in Node : tinit'[m] = "no"
<1> USE DEF heapVars, dataVars, listVars, fileVars, libVars, mainVars, histVars
<1>0. TypeInv /\ Intact /\ ListInv
  BY IntactBack DEF Inv, IntactInv
<1>1. ASSUME UNCHANGED <<heap, entry, tinit, released>>, pc'["main"] = pc["main"], cyc'["main"] = cyc["main"]
      PROVE  /\ \A m \in Node : released'[m] = 0 /\ (tinit'[m] # "no" => m \in Linked')
             /\ pc'["main"] \in LoadPcs \cup BindPcs => \A m \in Node : tinit'[m] = "no"
  <2>1. Linked' = Linked
    BY <1>1 DEF Linked, InHand
  <2> QED BY <1>0, <1>1, <2>1 DEF ReleaseInv
<1>2. CASE Idle
  BY <1>0, <1>1, <1>2, IdleSteps
<1>3. CASE LoadStep \/ BindStep
  <2>1. UNCHANGED <<tinit, released>> /\ pc["main"] \in LoadPcs \cup BindPcs
    BY <1>0, <1>3, LoadLabels, BindLabels
  <2> QED BY <1>0, <2>1 DEF ReleaseInv
<1>4. CASE InitStep
  <2>1. UNCHANGED <<heap, released>> /\ pc["main"] \in InitPcs /\ pc'["main"] \in InitPcs \cup {"pause", "go"}
    BY <1>0, <1>4, InitLabels
  <2>2. Linked' = Linked
    BY <2>1 DEF Linked, InHand, InitPcs
  <2>3. \A m \in Node : tinit'[m] # "no" => tinit[m] # "no" \/ m \in Linked
    <3>1. CASE TimeInit
      <4>1. cyc["main"] # 0
        BY <3>1 DEF TimeInit, Invoke
      <4>2. cyc["main"] \in Linked
        BY <1>0, <2>1, <4>1 DEF ListInv, CursorsLinked, InitPcs
      <4> QED BY <1>0, <3>1, <4>2 DEF TimeInit, TypeInv, TypeOK, LocalType
    <3>2. CASE TimeInitReturn
      BY <3>2 DEF TimeInitReturn
    <3>3. CASE InitNext
      <4>1. \/ tinit' = tinit
            \/ pc["main"] = "initnext" /\ tinit' = [tinit EXCEPT ![cyc["main"]] = "ready"]
        BY <3>3 DEF InitNext, Main, At, Moves
      <4>2. pc["main"] = "initnext" => cyc["main"] \in Linked
        BY <1>0 DEF ListInv, CursorsLinked
      <4> QED BY <1>0, <4>1, <4>2 DEF TypeInv, TypeOK, LocalType
    <3> QED BY <1>4, <3>1, <3>2, <3>3 DEF InitStep
  <2>4. pc'["main"] \notin LoadPcs \cup BindPcs
    BY <2>1 DEF LoadPcs, BindPcs, InitPcs
  <2> QED BY <1>0, <2>1, <2>2, <2>3, <2>4 DEF ReleaseInv
<1>5. CASE TickStep
  <2>1. UNCHANGED <<tinit, released>>
    BY <1>5 DEF TickStep, TickStart, Count, TimeDo, TickNext
  <2> QED BY <1>0, <1>1, <1>5, <2>1, TickQuiet
<1>6. ASSUME NEW c \in {"main", "usr1"}, GameStep(c)
      PROVE  /\ \A m \in Node : released'[m] = 0 /\ (tinit'[m] # "no" => m \in Linked')
             /\ pc'["main"] \in LoadPcs \cup BindPcs => \A m \in Node : tinit'[m] = "no"
  <2>1. GameOver(c) /\ pc[c] = "go"
    BY <1>0, <1>6, GameBegin DEF Intact
  <2>2. UNCHANGED <<heap, entry, tinit, released>>
    BY <2>1 DEF GameOver
  <2>3. Linked' = Linked
    BY <1>0, <1>6, <2>2, GameHand DEF Linked
  <2>4. pc'["main"] = pc["main"] \/ pc'["main"] \in GamePcs
    BY <1>0, <1>6, GameLabels, GameQuiet
  <2> QED BY <1>0, <2>2, <2>3, <2>4 DEF ReleaseInv, LoadPcs, BindPcs, GamePcs, WalkPcs, LastPcs
<1> QED BY <1>2, <1>3, <1>4, <1>5, <1>6 DEF Next, MainStep, Ended, Idle

\* Gameover releases each node once, alone or not.
LEMMA ReleaseTear ==
  ASSUME Inv, TypeInv', ReleaseInv, [Next]_vars
  PROVE  /\ Tearing("main")' /\ ~Tearing("usr1")' => OnceInv("main")'
         /\ Tearing("usr1")' /\ ~Tearing("main")' => OnceInv("usr1")'
         /\ Tearing("main")' /\ Tearing("usr1")' => PayInv("usr1")' \/ Doomed("usr1")'
<1> USE DEF heapVars, dataVars, listVars, fileVars, libVars, mainVars, histVars
<1> DEFINE Goal == /\ Tearing("main")' /\ ~Tearing("usr1")' => OnceInv("main")'
                   /\ Tearing("usr1")' /\ ~Tearing("main")' => OnceInv("usr1")'
                   /\ Tearing("main")' /\ Tearing("usr1")' => PayInv("usr1")' \/ Doomed("usr1")'
<1>0. TypeInv
  BY DEF Inv
<1>1. ASSUME UNCHANGED <<heap, next, fn, entry, tinit, released, cychead>>,
             \A c \in {"main", "usr1"} : /\ Tearing(c) => pc'[c] = pc[c]
                                         /\ cyc'[c] = cyc[c] /\ (c \in incall' <=> c \in incall),
             pc'["main"] = pc["main"], Tearing("usr1")' <=> Tearing("usr1")
      PROVE  Goal
  <2>1. Tearing("main")' <=> Tearing("main")
    BY <1>1 DEF Tearing
  <2>2. Tearing("main") => (OnceInv("main") => OnceInv("main")')
    BY <1>1, OtherFrame
  <2>3. Tearing("usr1") => /\ PayInv("usr1") => PayInv("usr1")'
                           /\ OnceInv("usr1") => OnceInv("usr1")'
                           /\ Doomed("usr1") => Doomed("usr1")'
    BY <1>1, OtherFrame
  <2> QED BY <1>1, <2>1, <2>2, <2>3 DEF ReleaseInv
<1>2. CASE Idle
  <2>1. /\ UNCHANGED <<heap, next, fn, entry, tinit, released, cychead, cyc, incall>>
        /\ pc'["main"] = pc["main"]
        /\ (pc'["usr1"] = pc["usr1"] \/ (pc["usr1"] = "idle" /\ pc'["usr1"] = "go"))
    BY <1>0, <1>2, IdleSteps
  <2>2. (Tearing("usr1") => pc'["usr1"] = pc["usr1"]) /\ (Tearing("usr1")' <=> Tearing("usr1"))
    BY <2>1 DEF Tearing, WalkPcs, LastPcs
  <2> QED BY <1>1, <2>1, <2>2
<1>3. CASE MainStep
  BY <1>3, MainIntact DEF Intact
<1>4. CASE TickStep
  <2>1. UNCHANGED <<tinit, released>>
    BY <1>4 DEF TickStep, TickStart, Count, TimeDo, TickNext
  <2>2. Tearing("usr1")' <=> Tearing("usr1")
    BY <1>0, <1>4, TickQuiet DEF Tearing
  <2> QED BY <1>0, <1>1, <1>4, <2>1, <2>2, TickQuiet
<1>5. CASE GameStep("main")
  <2>1. /\ run = "main" /\ \A d \in {"usr1"} : pc'[d] = pc[d]
    BY <1>0, <1>5, GameQuiet
  <2>2. ~Tearing("usr1") /\ ~Tearing("usr1")'
    BY <1>0, <2>1, MainRuns DEF Tearing, WalkPcs, LastPcs
  <2>3. CASE Tearing("main")
    BY <1>0, <1>5, <2>2, <2>3, OnceStep DEF ReleaseInv
  <2>4. CASE ~Tearing("main") /\ Tearing("main")'
    <3>1. Intact /\ ListInv
      BY <2>2, <2>4 DEF Intact, Inv, IntactInv
    <3> QED BY <1>0, <1>5, <2>2, <2>4, <3>1, OnceBegin
  <2> QED BY <2>2, <2>3, <2>4
<1>6. CASE GameStep("usr1")
  <2>1. pc'["main"] = pc["main"] /\ cyc'["main"] = cyc["main"] /\ ("main" \in incall' <=> "main" \in incall)
    BY <1>0, <1>6, GameQuiet
  <2>2. Tearing("main")' <=> Tearing("main")
    BY <2>1 DEF Tearing
  <2>3. CASE Tearing("usr1")
    <3>1. Tearing("usr1")'
      BY <1>0, <1>6, <2>3, TearingStays
    <3>2. CASE ~Tearing("main")
      BY <1>0, <1>6, <2>2, <2>3, <3>2, OnceStep DEF ReleaseInv
    <3>3. CASE Tearing("main")
      BY <1>0, <1>6, <2>2, <2>3, <3>1, <3>3, PayStep, DoomedStops DEF ReleaseInv
    <3> QED BY <3>2, <3>3
  <2>4. CASE ~Tearing("usr1") /\ Tearing("usr1")'
    <3>1. CASE ~Tearing("main")
      <4>1. Intact /\ ListInv
        BY <2>4, <3>1 DEF Intact, Inv, IntactInv
      <4> QED BY <1>0, <1>6, <2>2, <2>4, <3>1, <4>1, OnceBegin
    <3>2. CASE Tearing("main")
      BY <1>0, <1>6, <2>2, <2>4, <3>2, PayBegin DEF ReleaseInv
    <3> QED BY <3>1, <3>2
  <2>5. CASE ~Tearing("usr1") /\ ~Tearing("usr1")'
    <3>1. GameOver("usr1")
      BY <1>0, <1>6, <2>5, GameBegin
    <3>2. UNCHANGED <<heap, next, fn, entry, tinit, released, cychead>>
      BY <3>1 DEF GameOver
    <3>3. Tearing("main") => (OnceInv("main") => OnceInv("main")')
      BY <2>1, <3>2, OtherFrame
    <3> QED BY <2>2, <2>5, <3>3 DEF ReleaseInv
  <2> QED BY <2>3, <2>4, <2>5
<1> QED BY <1>2, <1>3, <1>4, <1>5, <1>6 DEF Next, Ended, Idle

\* The process exits with nothing owed.
LEMMA ReleaseExit ==
  ASSUME Inv, ReleaseInv, [Next]_vars
  PROVE  ExitReleases'
<1> USE DEF heapVars, dataVars, listVars, fileVars, libVars, mainVars, histVars
<1>0. TypeInv
  BY DEF Inv
<1>1. ASSUME UNCHANGED <<fn, tinit, released>>, \A m \in Node : Owed(m) => released[m] >= 1
      PROVE  ExitReleases'
  BY <1>1 DEF ExitReleases, Owed
<1>2. CASE Idle
  BY <1>0, <1>2, IdleSteps DEF ReleaseInv, ExitReleases
<1>3. CASE LoadStep
  <2>1. \A m \in Node : tinit'[m] = "no"
    BY <1>0, <1>3, LoadLabels, MainIntact DEF ReleaseInv, MainStep
  <2> QED BY <2>1 DEF ExitReleases
<1>4. CASE BindStep \/ InitStep
  <2>1. status = "running" /\ status' = status
    BY <1>4 DEF BindStep, MatchNode, MatchEnd, Prune, Unlink, FreeNode, InitStep, TimeInit, TimeInitReturn,
       InitNext, Invoke, Return, Main, At, Moves, procVars
  <2> QED BY <2>1 DEF ExitReleases
<1>5. CASE TickStep
  BY <1>0, <1>5, TickQuiet DEF ExitReleases
<1>6. ASSUME NEW c \in {"main", "usr1"}, GameStep(c) PROVE ExitReleases'
  <2>1. status = "running"
    BY <1>0, <1>6, GameQuiet
  <2>2. CASE GoExit(c)
    <3>1. pc[c] = "go_exit" /\ run = c /\ Tearing(c) /\ UNCHANGED <<fn, tinit, released>>
      BY <2>2 DEF GoExit, At, Moves, Tearing, LastPcs
    <3>2. c = "main" => ~Tearing("usr1")
      BY <1>0, <3>1, MainRuns DEF Tearing, WalkPcs, LastPcs
    <3>3. PayInv(c) \/ Doomed(c)
      BY <3>1, <3>2 DEF ReleaseInv, OnceInv
    <3>4. PayInv(c) /\ Linked = {}
      BY <3>1, <3>3 DEF Doomed, WalkPcs, LastPcs, PayInv
    <3> QED BY <1>1, <3>1, <3>4 DEF PayInv
  <2>3. CASE GameOver(c) /\ Exit
    <3>1. /\ c = "main" /\ cychead = 0 /\ pc[c] = "go" /\ run = c /\ UNCHANGED <<fn, tinit, released>>
      BY <2>1, <2>3 DEF GameOver, At, Moves, Exit, HandlerReturn, procVars
    <3>2. Intact
      BY <1>0, <3>1, MainRuns DEF Intact, Tearing, WalkPcs, LastPcs
    <3>3. Linked = {}
      BY <3>1, <3>2 DEF Inv, IntactInv, ListInv, IsList
    <3> QED BY <1>1, <3>1, <3>2, <3>3 DEF ReleaseInv, Owed
  <2>4. CASE ~GoExit(c) /\ ~(GameOver(c) /\ Exit)
    <3>1. status' = status
      BY <1>6, <2>4 DEF GameStep, GameOver, GoLog, GoLd, TimeDel, TimeDelReturn, GoDlclose, GoFree, GoClear,
         GoLogDel, HandlerReturn, procVars
    <3> QED BY <2>1, <3>1 DEF ExitReleases
  <2> QED BY <2>2, <2>3, <2>4
<1> QED BY <1>2, <1>3, <1>4, <1>5, <1>6 DEF Next, MainStep, Ended, Idle

LEMMA ReleaseStep ==
  ASSUME Inv, TypeInv', ReleaseInv, [Next]_vars
  PROVE  ReleaseInv'
<1>1. Intact' => /\ \A m \in Node : released'[m] = 0 /\ (tinit'[m] # "no" => m \in Linked')
                 /\ pc'["main"] \in LoadPcs \cup BindPcs => \A m \in Node : tinit'[m] = "no"
  BY ReleaseIntact
<1> QED BY <1>1, ReleaseTear, ReleaseExit DEF ReleaseInv

-----------------------------------------------------------------------------
(***************************************************************************)
(* BootInv: the process before sigaction.                                  *)
(***************************************************************************)
LEMMA BootStep ==
  ASSUME Inv, BootInv, [Next]_vars
  PROVE  BootInv'
<1> USE DEF procVars, heapVars, dataVars, listVars, fileVars, libVars, mainVars, histVars
<1>0. TypeInv
  BY DEF Inv
<1>1. CASE Tick \/ Stop \/ (\E c \in Frames : Fault(c)) \/ UNCHANGED vars
  BY <1>1 DEF BootInv, Tick, Stop, Fault, vars
<1>7. ASSUME NEW c \in Frames, MethodLog(c) \/ LogDone(c) PROVE BootInv'
  BY <1>0, <1>7, LogQuiet DEF BootInv
<1>2. ASSUME NEW h \in Handlers, Deliver(h) PROVE BootInv'
  <2>1. caught' = caught /\ h \in pend /\ pc'["main"] = pc["main"]
    BY <1>0, <1>2, GotoLabel DEF Deliver
  <2> QED BY <2>1 DEF BootInv
<1>3. CASE Start \/ SigAction
  <2>1. CASE Start
    <3>1. UNCHANGED <<caught, timer, pend, cychead>> /\ pc["main"] = "start"
      BY <2>1 DEF Start, Exit, Main, At, Moves
    <3>2. pc'["main"] \in {"start", "sigaction"} /\ \A h \in Handlers : pc'[h] = pc[h]
      BY <1>0, <2>1, <3>1, GotoLabel DEF Start
    <3> QED BY <3>1, <3>2 DEF BootInv
  <2>2. CASE SigAction
    <3>1. caught' /\ pc'["main"] = "setitimer"
      BY <1>0, <2>2, GotoLabel DEF SigAction
    <3> QED BY <3>1 DEF BootInv
  <2> QED BY <1>3, <2>1, <2>2
<1>4. CASE MainStep /\ ~Start /\ ~SigAction
  <2>1. pc["main"] \notin {"start", "sigaction"}
    <3>1. CASE LoadStep
      BY <1>4, <3>1 DEF LoadStep, SetTimer, LoadFile, ReadFile, OpenDir, ReadDir, DlSym,
         CycMake, Link, SetTail, Wire, DirEnd, Main, At, Moves
    <3>2. CASE BindStep \/ InitStep
      BY <1>0, <3>2, BindLabels, InitLabels DEF BindPcs, InitPcs
    <3> QED BY <1>4, <3>1, <3>2 DEF MainStep
  <2>2. caught' = caught
    BY <1>4 DEF MainStep, LoadStep, SetTimer, LoadFile, ReadFile, OpenDir, ReadDir, DlSym,
       CycMake, Link, SetTail, Wire, DirEnd, BindStep, MatchNode, MatchEnd, Prune, Unlink, FreeNode,
       InitStep, TimeInit, TimeInitReturn, InitNext
  <2>3. pc'["main"] \notin {"start", "sigaction"}
    <3>1. CASE LoadStep
      <4>1. pc' = pc \/ \E l \in (LoadPcs \ {"start", "sigaction"}) \cup {"match", "go"} : Goto("main", l)
        BY <1>4, <3>1 DEF LoadStep, SetTimer, LoadFile, ReadFile, OpenDir, ReadDir, DlSym,
           CycMake, Link, SetTail, Wire, DirEnd, LoadPcs, GotoNode
      <4> QED BY <1>0, <2>1, <4>1, GotoLabel
    <3>2. CASE BindStep \/ InitStep
      BY <1>0, <3>2, BindLabels, InitLabels DEF BindPcs, InitPcs
    <3> QED BY <1>4, <3>1, <3>2 DEF MainStep
  <2> QED BY <2>1, <2>2, <2>3 DEF BootInv
<1>5. CASE TickStep
  <2>1. UNCHANGED <<caught, timer, pend>>
    BY <1>5 DEF TickStep, TickStart, Count, TimeDo, TickNext, HandlerReturn
  <2>2. pc["alrm"] # "idle"
    BY <1>0, <1>5, TickQuiet DEF TypeInv, StackOK
  <2>3. caught
    BY <2>2 DEF BootInv
  <2> QED BY <1>0, <1>5, <2>1, <2>2, <2>3, TickQuiet DEF BootInv
<1>6. ASSUME NEW c \in {"main", "usr1"}, GameStep(c) PROVE BootInv'
  <2>1. caught /\ caught' = caught
    <3>1. pc[c] \in GamePcs
      BY <1>0, <1>6, GameLabels
    <3>2. caught
      BY <3>1 DEF BootInv, GamePcs, WalkPcs, LastPcs
    <3> QED BY <1>6, <3>2 DEF GameStep, GameOver, GoLog, GoLd, TimeDel, TimeDelReturn, GoDlclose,
            GoFree, GoClear, GoLogDel, GoExit, HandlerReturn, Exit
  <2>2. pc["main"] \notin {"start", "sigaction"}
    BY <2>1 DEF BootInv
  <2>3. pc'["main"] \notin {"start", "sigaction"}
    <3>1. CASE c = "main"
      BY <1>0, <1>6, <3>1, GameLabels DEF GamePcs, WalkPcs, LastPcs
    <3>2. CASE c = "usr1"
      BY <1>0, <1>6, <2>2, <3>2, GameQuiet
    <3> QED BY <3>1, <3>2
  <2> QED BY <2>1, <2>3 DEF BootInv
<1> QED BY <1>1, <1>2, <1>3, <1>4, <1>5, <1>6, <1>7 DEF Next, MainStep, Ended

\* The cursor of the timer handler is 0 when the handler begins and returns.
LEMMA RestStep ==
  ASSUME Inv, RestInv, [Next]_vars
  PROVE  RestInv'
<1> USE DEF procVars, heapVars, dataVars, listVars, fileVars, libVars, mainVars, histVars
<1>0. TypeInv
  BY DEF Inv
<1>1. CASE Tick \/ Stop \/ (\E c \in Frames : Fault(c)) \/ UNCHANGED vars
  BY <1>1 DEF Tick, Stop, Fault, vars, RestInv
<1>6. ASSUME NEW c \in Frames, MethodLog(c) \/ LogDone(c) PROVE RestInv'
  BY <1>0, <1>6, LogQuiet DEF RestInv
<1>2. ASSUME NEW h \in Handlers, Deliver(h) PROVE RestInv'
  <2>1. cyc' = cyc /\ pc[h] = "idle"
    BY <1>0, <1>2 DEF Deliver, TypeInv, StackOK
  <2>2. h # "alrm" => pc'["alrm"] = pc["alrm"]
    BY <1>0, <1>2, GotoLabel DEF Deliver
  <2> QED BY <2>1, <2>2 DEF RestInv
<1>3. CASE MainStep
  <2>1. pc'["alrm"] = pc["alrm"]
    BY <1>0, <1>3, LoadLabels, BindLabels, InitLabels DEF MainStep
  <2>2. cyc' = cyc \/ \E l, m : GotoNode("main", l, m)
    <3>1. CASE LoadStep
      BY <3>1 DEF LoadStep, Start, SigAction, SetTimer, LoadFile, ReadFile, OpenDir, ReadDir, DlSym,
                  CycMake, Link, SetTail, Wire, DirEnd
    <3>2. CASE BindStep
      BY <3>2 DEF BindStep, MatchNode, MatchEnd, Prune, Unlink, FreeNode
    <3>3. CASE InitStep
      BY <3>3 DEF InitStep, TimeInit, TimeInitReturn, InitNext
    <3> QED BY <1>3, <3>1, <3>2, <3>3 DEF MainStep
  <2>3. cyc'["alrm"] = cyc["alrm"]
    BY <1>0, <2>2, GotoCursor
  <2> QED BY <2>1, <2>3 DEF RestInv
<1>4. CASE TickStep
  <2>1. CASE TickStart \/ TickNext
    <3>1. HandlerReturn("alrm") \/ \E m : GotoNode("alrm", "count", m)
      BY <2>1 DEF TickStart, TickNext
    <3> QED BY <1>0, <3>1, GotoCursor DEF HandlerReturn, RestInv
  <2>2. CASE Count
    <3>1. Goto("alrm", "next") \/ Goto("alrm", "seach")
      BY <2>2 DEF Count
    <3> QED BY <1>0, <3>1, GotoLabel DEF RestInv
  <2>3. CASE TimeDo
    <3>1. PICK l \in {"seach", "howdo", "send"} : Invoke("alrm", l) \/ Return("alrm", l)
      BY <2>3 DEF TimeDo
    <3>2. pc'["alrm"] \in {l, AfterCall[l], OnError[l]}
      BY <1>0, <3>1, GotoLabel DEF Invoke, Return, At, Moves
    <3>3. pc'["alrm"] \notin {"idle", "tick"}
      BY <3>2 DEF AfterCall, OnError
    <3> QED BY <3>3 DEF RestInv
  <2> QED BY <1>4, <2>1, <2>2, <2>3 DEF TickStep
<1>5. ASSUME NEW c \in {"main", "usr1"}, GameStep(c) PROVE RestInv'
  BY <1>0, <1>5, GameQuiet DEF RestInv
<1> QED BY <1>1, <1>2, <1>3, <1>4, <1>5, <1>6 DEF Next, Ended

-----------------------------------------------------------------------------
(***************************************************************************)
(* WaitInv: who waits for localtime's lock.                                *)
(***************************************************************************)
\* gameover begins no line after its first one, which Deliver or main begins.
LEMMA GameSilent ==
  ASSUME NEW c \in {"main", "usr1"}, GameStep(c)
  PROVE  logging' = logging /\ logging[c] = "no"
BY DEF GameStep, GameOver, GoLog, GoLd, TimeDel, TimeDelReturn, GoDlclose, GoFree, GoClear,
       GoLogDel, GoExit, Invoke, Return, Silent, At

\* Main begins at most one line in a step.
LEMMA MainBegins ==
  ASSUME MainStep
  PROVE  run = "main" /\ run' = "main" /\ logging["main"] = "no" /\ (Logs("main") \/ logging' = logging)
<1> USE DEF procVars, Exit
<1>1. CASE LoadStep
  BY <1>1 DEF LoadStep, Start, SigAction, SetTimer, LoadFile, ReadFile, OpenDir, ReadDir, DlSym,
              CycMake, Link, SetTail, Wire, DirEnd, LogsError, Silent, Main, At, Moves
<1>2. CASE BindStep
  BY <1>2 DEF BindStep, MatchNode, MatchEnd, Prune, Unlink, FreeNode, LogsError, LogsPrune, Silent,
              Main, At, Moves
<1>3. CASE InitStep
  BY <1>3 DEF InitStep, TimeInit, TimeInitReturn, InitNext, Invoke, Return, Silent, Main, At, Moves
<1> QED BY <1>1, <1>2, <1>3 DEF MainStep

\* The timer handler begins a line when a method fails, and returns without one.
LEMMA TickBegins ==
  ASSUME TickStep
  PROVE  /\ run = "alrm" /\ logging["alrm"] = "no"
         /\ \/ run' = run /\ (Logs("alrm") \/ logging' = logging)
            \/ run' = resume["alrm"] /\ logging' = logging
BY DEF TickStep, TickStart, Count, TimeDo, TickNext, Invoke, Return, At, Moves, HandlerReturn, Silent, procVars

\* A handler that has not begun is not in logLog.
LEMMA FreshHandler ==
  ASSUME TypeInv, NEW h \in Handlers, Deliver(h)
  PROVE  logging[h] = "no" /\ pc[h] = "idle" /\ h # run
BY DEF Deliver, TypeInv, StackOK, LogOK

\* A line is begun by the frame that is on top, or by gameover when it comes on top.
LEMMA LogFrame ==
  ASSUME TypeInv, [Next]_vars
  PROVE  \/ logging' = logging
         \/ \E c \in Frames : /\ logging[c] = "no" /\ Logs(c)
                              /\ run' = c /\ (run = c \/ (c \in Handlers /\ Deliver(c)))
         \/ \E c \in Frames : LogDone(c)
<1>1. CASE Tick \/ Stop \/ (\E c \in Frames : Fault(c)) \/ UNCHANGED vars
  BY <1>1 DEF Tick, Stop, Fault, vars
<1>2. ASSUME NEW h \in Handlers, Deliver(h)
      PROVE  logging' = logging \/ (logging[h] = "no" /\ Logs(h) /\ run' = h)
  BY <1>2, FreshHandler DEF Deliver, Silent
<1>3. ASSUME NEW c \in Frames, MethodLog(c)
      PROVE  logging[c] = "no" /\ Logs(c) /\ run' = c /\ run = c
  BY <1>3 DEF MethodLog, Moves, procVars
<1>4. CASE MainStep
  BY <1>4, MainBegins
<1>5. CASE TickStep
  BY <1>5, TickBegins
<1>6. CASE \E c \in {"main", "usr1"} : GameStep(c)
  BY <1>6, GameSilent
<1> QED BY <1>1, <1>2, <1>3, <1>4, <1>5, <1>6 DEF Next, Ended

\* The frame on top changes when a handler comes or goes, and a handler that goes
\* has ended its line.
LEMMA TopFrame ==
  ASSUME [Next]_vars
  PROVE  \/ run' = run
         \/ \E h \in Handlers : Deliver(h) /\ run' = h
         \/ \E h \in Handlers : run = h /\ logging[h] = "no" /\ run' = resume[h]
<1>1. CASE Tick \/ Stop \/ (\E c \in Frames : MethodLog(c) \/ LogDone(c) \/ Fault(c)) \/ UNCHANGED vars
  BY <1>1 DEF Tick, Stop, MethodLog, LogDone, Fault, vars, procVars
<1>2. CASE \E h \in Handlers : Deliver(h)
  BY <1>2 DEF Deliver
<1>3. CASE MainStep
  BY <1>3, MainBegins
<1>4. CASE TickStep
  BY <1>4, TickBegins
<1>5. ASSUME NEW c \in {"main", "usr1"}, GameStep(c)
      PROVE  run' = run \/ (c = "usr1" /\ run = c /\ logging[c] = "no" /\ run' = resume[c])
  <2>1. run = c /\ logging[c] = "no"
    BY <1>5, GameSilent DEF GameStep, GameOver, GoLog, GoLd, TimeDel, TimeDelReturn, GoDlclose, GoFree,
       GoClear, GoLogDel, GoExit, Invoke, Return, At, Moves
  <2>2. run' = run \/ (c = "usr1" /\ run' = resume[c])
    BY <1>5 DEF GameStep, GameOver, GoLog, GoLd, TimeDel, TimeDelReturn, GoDlclose, GoFree,
       GoClear, GoLogDel, GoExit, HandlerReturn, Exit, procVars
  <2> QED BY <2>1, <2>2
<1> QED BY <1>1, <1>2, <1>3, <1>4, <1>5 DEF Next, Ended

\* Every step.
LEMMA WaitStep ==
  ASSUME TypeInv, WaitInv, [Next]_vars
  PROVE  WaitInv'
<1>0. logging \in [Frames -> {"no", "time", "wait"}]
  BY DEF TypeInv, TypeOK, LogType
<1>1. CASE logging' = logging
  <2>1. logging'["main"] # "wait"
    BY <1>1 DEF WaitInv
  <2>2. ASSUME NEW h \in Handlers, logging[h] = "wait"
        PROVE  /\ \E d \in Frames \ {run'} : logging[d] = "time"
               /\ run' = "usr1" => logging["usr1"] = "wait"
    <3>1. PICK d \in Frames \ {run} : logging[d] = "time"
      BY <2>2 DEF WaitInv
    <3>2. run = "usr1" => logging["usr1"] = "wait"
      BY <2>2 DEF WaitInv
    <3>3. CASE run' = run
      BY <3>1, <3>2, <3>3
    <3>4. ASSUME NEW g \in Handlers, Deliver(g), run' = g
          PROVE  /\ \E x \in Frames \ {run'} : logging[x] = "time"
                 /\ run' = "usr1" => logging["usr1"] = "wait"
      <4>1. g # "usr1"
        BY <1>0, <1>1, <3>1, <3>4, FreshHandler DEF Deliver, Logs
      <4> QED BY <3>1, <3>4, <4>1, FreshHandler
    <3>5. ASSUME NEW g \in Handlers, run = g, logging[g] = "no", run' = resume[g]
          PROVE  /\ \E x \in Frames \ {run'} : logging[x] = "time"
                 /\ run' = "usr1" => logging["usr1"] = "wait"
      <4>1. g = "alrm" /\ h = "usr1" /\ d = "main"
        BY <2>2, <3>1, <3>2, <3>5
      <4>2. pc["usr1"] # "idle"
        BY <2>2, <4>1 DEF TypeInv, LogOK
      <4>3. resume["alrm"] = "usr1"
        BY <3>5, <4>1, <4>2 DEF TypeInv, StackOK
      <4> QED BY <2>2, <3>1, <3>5, <4>1, <4>3
    <3> QED BY <3>3, <3>4, <3>5, TopFrame
  <2> QED BY <1>1, <2>1, <2>2 DEF WaitInv
<1>2. ASSUME NEW c \in Frames, logging[c] = "no", Logs(c), run' = c, run = c \/ c \in Handlers
      PROVE  WaitInv'
  <2>1. \A x \in Frames \ {c} : logging'[x] = logging[x]
    BY <1>0, <1>2 DEF Logs
  <2>2. CASE \E d \in Frames : logging[d] = "time"
    <3>1. PICK d \in Frames : logging[d] = "time"
      BY <2>2
    <3>2. d # c /\ logging'[d] = "time" /\ logging'[c] = "wait"
      BY <1>0, <1>2, <2>1, <3>1 DEF Logs
    <3>3. c # "main"
      <4>1. c = "main" => pc["alrm"] = "idle" /\ pc["usr1"] = "idle"
        BY <1>2, MainRuns
      <4> QED BY <3>1, <3>2, <4>1 DEF TypeInv, LogOK
    <3> QED BY <1>2, <2>1, <3>2, <3>3 DEF WaitInv
  <2>3. CASE ~\E d \in Frames : logging[d] = "time"
    <3>1. logging'[c] = "time" /\ \A h \in Handlers : logging[h] # "wait"
      BY <1>0, <1>2, <2>3 DEF Logs, WaitInv
    <3> QED BY <2>1, <3>1 DEF WaitInv
  <2> QED BY <2>2, <2>3
<1>3. ASSUME NEW c \in Frames, LogDone(c) PROVE WaitInv'
  <2>1. /\ run = c /\ run' = c /\ logging[c] = "time" /\ logging'[c] = "no"
        /\ \A x \in Frames \ {c} : logging'[x] = logging[x]
    BY <1>0, <1>3 DEF LogDone, Moves, procVars
  <2> QED BY <2>1 DEF WaitInv
<1> QED BY <1>1, <1>2, <1>3, LogFrame

-----------------------------------------------------------------------------
(***************************************************************************)
(* The invariant in full.                                                  *)
(***************************************************************************)
LEMMA InitFull == Init => FullInv
<1> SUFFICES ASSUME Init PROVE FullInv
  OBVIOUS
<1>1. Inv
  BY InitInvariant
<1>2. /\ pc["main"] = "start" /\ (\A h \in Handlers : pc[h] = "idle") /\ blocks = << >> /\ cychead = 0
      /\ \A m \in Node : keylen[m] = 0 /\ vallen[m] = 0 /\ fdate[m] = 0 /\ tinit[m] = "no" /\ released[m] = 0
      /\ status = "running" /\ ~caught /\ ~timer /\ pend = {}
  BY DEF Init
<1>3. CountInv
  BY <1>2 DEF CountInv, LoadPcs
<1>4. ConfInv /\ ReadyInv
  BY <1>2 DEF ConfInv, ReadyInv, LoadPcs, BindPcs, InitPcs
<1>5. ReleaseInv
  BY <1>2 DEF ReleaseInv, ExitReleases, Tearing, WalkPcs, LastPcs
<1>6. BootInv
  BY <1>2 DEF BootInv
<1>7. RestInv
  BY DEF Init, RestInv
<1>8. WaitInv
  BY DEF Init, WaitInv
<1> QED BY <1>1, <1>3, <1>4, <1>5, <1>6, <1>7, <1>8 DEF FullInv

LEMMA StepFull == FullInv /\ [Next]_vars => FullInv'
<1> SUFFICES ASSUME FullInv, [Next]_vars PROVE FullInv'
  OBVIOUS
<1>1. Inv'
  BY StepInvariant DEF FullInv
<1>2. TypeInv'
  BY <1>1 DEF Inv
<1>3. CountInv'
  BY CountStep DEF FullInv
<1>4. Intact' => ConfInv' /\ ReadyInv'
  BY ConfStep, ReadyStep DEF FullInv
<1>5. ReleaseInv'
  BY <1>2, ReleaseStep DEF FullInv
<1>6. BootInv'
  BY BootStep DEF FullInv
<1>7. RestInv'
  BY RestStep DEF FullInv
<1>8. WaitInv'
  BY WaitStep DEF FullInv, Inv
<1> QED BY <1>1, <1>3, <1>4, <1>5, <1>6, <1>7, <1>8 DEF FullInv

\* The full invariant of the daemon holds in every reachable state, whenever a
\* signal comes, a line of a log waits for another or logLog deletes a log.
THEOREM FullInvariant == Spec => []FullInv
<1>1. Init => FullInv
  BY InitFull
<1>2. FullInv /\ [Next]_vars => FullInv'
  BY StepFull
<1> QED BY <1>1, <1>2, PTL DEF Spec

\* Between two passes of cycleTimeMethod no library has waited for more passes than
\* its cycle time, whenever main sets that time.
THEOREM NothingOverdue == Spec => []NeverOverdue
<1>1. FullInv => NeverOverdue
  BY DEF FullInv, CountInv, NeverOverdue
<1> QED BY <1>1, FullInvariant, PTL

\* gameover calls a library's release function at most once, unless it interrupts
\* the gameover of main.
THEOREM ReleasesOnce == Spec => []ReleasedOnce
<1>1. FullInv => ReleasedOnce
  <2>2. ASSUME FullInv, NEW m \in Node, released[m] > 1 PROVE Tearing("main") /\ Tearing("usr1")
    <3>1. ~(released[m] <= 1) /\ released[m] # 0
      BY <2>2 DEF FullInv, Inv, TypeInv, TypeOK, LocalType
    <3> QED BY <2>2, <3>1 DEF FullInv, ReleaseInv, OnceInv, Intact
  <2> QED BY <2>2 DEF ReleasedOnce
<1> QED BY <1>1, FullInvariant, PTL

\* A process that exits, by gameover or at the end of main, has released every
\* library whose initialisation it had begun.
THEOREM ReleasesAll == Spec => []ExitReleases
<1>1. FullInv => ExitReleases
  BY DEF FullInv, ReleaseInv
<1> QED BY <1>1, FullInvariant, PTL

\* When TimeInit runs, toSetCycdata has made blocks and libraries correspond one
\* to one.
THEOREM ConfigurationBound == Spec => []ConfigBound
<1>1. FullInv => ConfigBound
  <2>1. \A m \in Linked : m \in Node
    BY DEF Linked
  <2> QED BY <2>1 DEF FullInv, ConfInv, ConfigBound, Bound
<1> QED BY <1>1, FullInvariant, PTL

\* When startup is over, TimeInit has finished with every library that is in the
\* list, for any number of libraries and whatever toSetCycdata has taken out.
THEOREM AllReady == Spec => []UpMeansReady
<1>1. FullInv => UpMeansReady
  BY DEF FullInv, ReadyInv, Ready, UpMeansReady
<1> QED BY <1>1, FullInvariant, PTL

\* The list during a pass: main waits below the handler, and a gameover above it
\* that has found no work leaves the list alone.
LEMMA ListStands ==
  ASSUME Inv, [Next]_vars, resume["alrm"] # "none", Intact'
  PROVE  Linked' = Linked /\ next' = next /\ cychead' = cychead
<1> USE DEF heapVars, dataVars, listVars, mainVars
<1>0. TypeInv /\ Intact
  BY IntactBack DEF Inv
<1>1. CASE Idle
  <2>1. UNCHANGED <<heap, next, cychead, entry, cyc>> /\ pc'["main"] = pc["main"]
    BY <1>0, <1>1, IdleSteps
  <2> QED BY <2>1 DEF Linked, InHand
<1>2. ~MainStep
  BY <1>0, MainIntact DEF TypeInv, StackOK
<1>3. CASE TickStep
  <2>1. UNCHANGED <<heap, next, cychead, entry>> /\ pc'["main"] = pc["main"] /\ cyc'["main"] = cyc["main"]
    BY <1>0, <1>3, TickQuiet
  <2> QED BY <2>1 DEF Linked, InHand
<1>4. ASSUME NEW c \in {"main", "usr1"}, GameStep(c)
      PROVE  Linked' = Linked /\ next' = next /\ cychead' = cychead
  <2>1. GameOver(c) /\ run = c
    BY <1>0, <1>4, GameBegin, GameQuiet DEF Intact
  <2>2. c = "usr1"
    BY <1>0, <2>1 DEF TypeInv, StackOK
  <2>3. UNCHANGED <<heap, next, cychead, entry>>
    BY <2>1 DEF GameOver
  <2>4. pc'["main"] = pc["main"] /\ cyc'["main"] = cyc["main"]
    BY <1>0, <1>4, <2>2, GameQuiet
  <2> QED BY <2>3, <2>4 DEF Linked, InHand
<1> QED BY <1>1, <1>2, <1>3, <1>4 DEF Next, Ended, Idle

\* Where a step of cycleTimeMethod takes its cursor.
LEMMA PassMoves ==
  ASSUME TypeInv, ListInv, RestInv, TickStep, cyc'["alrm"] # cyc["alrm"]
  PROVE  /\ cyc'["alrm"] # 0 => cyc'["alrm"] \in Linked /\ cyc'["alrm"] > cyc["alrm"]
         /\ \A m \in Linked : m > cyc["alrm"] => cyc'["alrm"] # 0 /\ cyc'["alrm"] <= m
<1> DEFINE a == cyc["alrm"]
<1>1. \A m \in Linked : m \in 1..N
  BY DEF Linked
<1>2. CASE TickStart
  <2>1. /\ cychead = 0 <=> Linked = {}
        /\ cychead # 0 => cychead \in Linked /\ \A m \in Linked : cychead <= m
    BY DEF ListInv, IsList
  <2>2. a = 0
    BY <1>2 DEF TickStart, At, Moves, RestInv
  <2>3. cyc'["alrm"] = cychead
    <3>1. CASE cychead = 0 /\ HandlerReturn("alrm")
      BY <3>1, GotoCursor DEF HandlerReturn
    <3>2. CASE cychead # 0 /\ GotoNode("alrm", "count", cychead)
      BY <3>2, GotoCursor
    <3> QED BY <1>2, <3>1, <3>2 DEF TickStart
  <2> QED BY <1>1, <2>1, <2>2, <2>3
<1>3. CASE TickNext
  <2>1. pc["alrm"] = "next" /\ a \in Linked
    BY <1>3 DEF TickNext, At, Moves, ListInv, CursorsLinked, TickPcs
  <2>2. cyc'["alrm"] = next[a]
    <3>1. CASE next[a] = 0 /\ HandlerReturn("alrm")
      BY <3>1, GotoCursor DEF HandlerReturn
    <3>2. CASE next[a] # 0 /\ GotoNode("alrm", "count", next[a])
      BY <3>2, GotoCursor
    <3> QED BY <1>3, <3>1, <3>2 DEF TickNext
  <2>3. /\ next[a] = 0 => \A x \in Linked : x <= a
        /\ next[a] # 0 => /\ next[a] \in Linked /\ next[a] > a
                          /\ \A x \in Linked : x > a => next[a] <= x
    BY <2>1 DEF ListInv, IsList
  <2> HIDE DEF a
  <2>4. \A m \in Linked : m > a => next[a] # 0 /\ next[a] <= m
    BY <1>1, <2>1, <2>3
  <2> QED BY <2>2, <2>3, <2>4 DEF a
<1>4. CASE Count \/ TimeDo
  BY <1>4 DEF Count, TimeDo
<1> QED BY <1>2, <1>3, <1>4 DEF TickStep

\* In each pass cycleTimeMethod comes to every library of an intact list once and
\* in order, for any number of libraries and whatever the pass has interrupted.
THEOREM PassCoversAll == Spec => PassCovers
<1>1. FullInv /\ [Next]_vars => [PassStep]_vars
  <2> SUFFICES ASSUME FullInv, [Next]_vars PROVE PassStep
    OBVIOUS
  <2>1. Inv /\ TypeInv /\ RestInv
    BY DEF FullInv, Inv
  <2>2. ASSUME Intact, run = "alrm", cyc'["alrm"] # cyc["alrm"]
        PROVE  /\ cyc'["alrm"] # 0 => cyc'["alrm"] \in Linked /\ cyc'["alrm"] > cyc["alrm"]
               /\ \A m \in Linked : m > cyc["alrm"] => cyc'["alrm"] # 0 /\ cyc'["alrm"] <= m
    <3>1. ListInv
      BY <2>1, <2>2 DEF Inv, IntactInv
    <3>2. TickStep
      <4>1. ~Idle
        BY <2>1, <2>2, IdleSteps
      <4>2. ~MainStep
        BY <2>1, <2>2, LoadLabels, BindLabels, InitLabels DEF MainStep
      <4>3. \A c \in {"main", "usr1"} : ~GameStep(c)
        BY <2>1, <2>2, GameQuiet
      <4> QED BY <4>1, <4>2, <4>3 DEF Next, Ended, Idle
    <3> QED BY <2>1, <2>2, <3>1, <3>2, PassMoves
  <2>3. resume["alrm"] # "none" /\ Intact' => Linked' = Linked /\ next' = next /\ cychead' = cychead
    BY <2>1, ListStands
  <2> QED BY <2>2, <2>3 DEF PassStep
<1> QED BY <1>1, FullInvariant, PTL DEF Spec, PassCovers

-----------------------------------------------------------------------------
(***************************************************************************)
(* The daemon lives the life of DaemonLife.                                *)
(***************************************************************************)
\* The steps of DaemonLife, in terms of the phase and the stop request.
LEMMA LifeMoves ==
  ASSUME \/ Phase' = Phase /\ (Requested' <=> Requested)
         \/ Phase = "none" /\ Phase' \in {"boot", "gone"} /\ (Requested' <=> Requested)
         \/ Phase = "boot" /\ Phase' \in {"loading", "gone"} /\ (Requested' <=> Requested)
         \/ Phase \in {"loading", "loaded", "ending", "hung"} /\ Phase' = Phase /\ Requested'
         \/ Phase \in {"loading", "ending"} /\ Phase' = Phase /\ Requested
         \/ Phase = "loading" /\ Phase' = "loaded" /\ (Requested' <=> Requested)
         \/ Phase \in {"loading", "ending"} /\ Phase' = "gone" /\ ~Requested'
         \/ Phase = "loaded" /\ Phase' = "ending" /\ (Requested \/ (Requested' <=> Requested))
         \/ Phase \in {"loading", "loaded", "ending"} /\ Phase' = "hung" /\ (Requested' <=> Requested)
         \/ Phase \in {"loaded", "hung"} /\ Phase' = "gone" /\ ~Requested'
  PROVE  [Life!LifeNext]_(Life!lifeVars)
<1> DEFINE life == [p \in {1} |-> Phase]
           stop == IF Requested THEN {1} ELSE {}
<1>1. /\ life[1] = Phase
      /\ life' = [life EXCEPT ![1] = Phase']
      /\ Phase' = Phase => life' = life
      /\ (Requested' <=> Requested) => stop' = stop
      /\ Requested' => stop' = stop \cup {1}
      /\ ~Requested' => stop' = stop \ {1}
      /\ Requested => 1 \in stop
  OBVIOUS
<1>2. CASE Phase' = Phase /\ (Requested' <=> Requested)
  BY <1>1, <1>2 DEF Life!lifeVars
<1>3. CASE Phase = "none" /\ Phase' \in {"boot", "gone"} /\ (Requested' <=> Requested)
  BY <1>1, <1>3 DEF Life!LifeNext, Life!LifeStep, Life!Fork, Life!Abort, Life!Pass
<1>4. CASE Phase = "boot" /\ Phase' \in {"loading", "gone"} /\ (Requested' <=> Requested)
  BY <1>1, <1>4 DEF Life!LifeNext, Life!LifeStep, Life!Catch, Life!LeaveBoot, Life!Pass
<1>5. CASE Phase \in {"loading", "loaded", "ending", "hung"} /\ Phase' = Phase /\ Requested'
  BY <1>1, <1>5 DEF Life!LifeNext, Life!LifeStep, Life!Request
<1>6. CASE Phase \in {"loading", "ending"} /\ Phase' = Phase /\ Requested /\ ~Requested'
  BY <1>1, <1>6 DEF Life!LifeNext, Life!LifeStep, Life!Swallow, Life!Ignore
<1>7. CASE Phase = "loading" /\ Phase' = "loaded" /\ (Requested' <=> Requested)
  BY <1>1, <1>7 DEF Life!LifeNext, Life!LifeStep, Life!Load, Life!Pass
<1>8. CASE Phase \in {"loading", "ending"} /\ Phase' = "gone" /\ ~Requested'
  BY <1>1, <1>8 DEF Life!LifeNext, Life!LifeStep, Life!Fail, Life!End, Life!Pass
<1>9. CASE Phase = "loaded" /\ Phase' = "ending" /\ (Requested' <=> Requested)
  BY <1>1, <1>9 DEF Life!LifeNext, Life!LifeStep, Life!GiveUp, Life!Pass
<1>10. CASE Phase = "loaded" /\ Phase' = "ending" /\ Requested /\ ~Requested'
  BY <1>1, <1>10 DEF Life!LifeNext, Life!LifeStep, Life!Obey, Life!Pass
<1>11. CASE Phase \in {"loading", "loaded", "ending"} /\ Phase' = "hung" /\ (Requested' <=> Requested)
  BY <1>1, <1>11 DEF Life!LifeNext, Life!LifeStep, Life!Hang, Life!Pass
<1>12. CASE Phase \in {"loaded", "hung"} /\ Phase' = "gone" /\ ~Requested'
  BY <1>1, <1>12 DEF Life!LifeNext, Life!LifeStep, Life!Crash, Life!Pass
<1> QED BY <1>2, <1>3, <1>4, <1>5, <1>6, <1>7, <1>8, <1>9, <1>10, <1>11, <1>12

LEMMA LifeInitial == Init => Life!LifeInit
<1> SUFFICES ASSUME Init PROVE Life!LifeInit
  OBVIOUS
<1>1. Phase = "none" /\ ~Requested
  BY DEF Init, Phase, Requested, Hung
<1> QED BY <1>1 DEF Life!LifeInit

\* The phase of a running process that does not hang.
LEMMA PhaseCases ==
  ASSUME BootInv, status = "running", ~Hung
  PROVE  /\ pc["main"] = "start" => Phase = "none"
         /\ pc["main"] = "sigaction" => Phase = "boot"
         /\ pc["main"] \notin {"start", "sigaction"} /\ Intact =>
              Phase = IF cychead # 0 THEN "loaded" ELSE "loading"
         /\ ~Intact => Phase = "ending" /\ pc["main"] \notin {"start", "sigaction"}
BY DEF BootInv, Phase, Intact, Tearing, WalkPcs, LastPcs

\* The same after a step.
LEMMA PhaseCasesNext ==
  ASSUME BootInv', status' = "running", ~Hung'
  PROVE  /\ pc'["main"] = "start" => Phase' = "none"
         /\ pc'["main"] = "sigaction" => Phase' = "boot"
         /\ pc'["main"] \notin {"start", "sigaction"} /\ Intact' =>
              Phase' = IF cychead' # 0 THEN "loaded" ELSE "loading"
         /\ ~Intact' => Phase' = "ending" /\ pc'["main"] \notin {"start", "sigaction"}
BY DEF BootInv, Phase, Intact, Tearing, WalkPcs, LastPcs

\* Signals, lines of the log and faults, of a process that does not hang.
LEMMA LifeSignals ==
  ASSUME FullInv, FullInv', ~Hung, ~Hung', Idle
  PROVE  [Life!LifeNext]_(Life!lifeVars)
<1> USE DEF procVars, heapVars, dataVars, listVars, fileVars, libVars, mainVars, histVars
<1>0. TypeInv /\ BootInv /\ Inv
  BY DEF FullInv, Inv
<1>1. CASE Tick \/ (\E c \in Frames : MethodLog(c) \/ LogDone(c)) \/ UNCHANGED vars
  <2>1. UNCHANGED <<status, pc, caught, cychead>> /\ ("usr1" \in pend' <=> "usr1" \in pend)
    BY <1>0, <1>1, LogQuiet DEF Tick, vars
  <2>2. Phase' = Phase /\ (Requested' <=> Requested)
    BY <2>1 DEF Phase, Requested, Intact, Tearing
  <2> QED BY <2>2, LifeMoves
<1>2. CASE Stop /\ caught
  <2>1. status = "running" /\ UNCHANGED <<status, pc, caught, cychead>> /\ "usr1" \in pend'
    BY <1>2 DEF Stop
  <2>2. Phase' = Phase /\ Requested'
    BY <2>1 DEF Phase, Requested, Intact, Tearing
  <2>3. Phase \in {"loading", "loaded", "ending"}
    BY <1>0, <1>2, <2>1, PhaseCases DEF BootInv
  <2> QED BY <2>2, <2>3, LifeMoves
<1>3. CASE Stop /\ ~caught
  <2>1. status = "running" /\ status' = "killed" /\ pend = {} /\ pc["usr1"] = "idle"
    BY <1>0, <1>3 DEF Stop, BootInv
  <2>2. ~Requested /\ ~Requested' /\ Phase' = "gone"
    BY <2>1 DEF Requested, Phase
  <2>3. Phase \in {"none", "boot"}
    BY <1>0, <1>3, <2>1, PhaseCases DEF BootInv
  <2> QED BY <2>2, <2>3, LifeMoves
<1>4. ASSUME NEW h \in Handlers, Deliver(h) PROVE [Life!LifeNext]_(Life!lifeVars)
  <2>1. /\ status = "running" /\ UNCHANGED <<status, caught, cychead>> /\ h \in pend /\ pend' = pend \ {h}
        /\ pc'[h] = (IF h = "alrm" THEN "tick" ELSE "go") /\ \A d \in Frames \ {h} : pc'[d] = pc[d]
        /\ pc[h] = "idle"
    BY <1>0, <1>4, GotoLabel DEF Deliver, TypeInv, StackOK
  <2>2. pc'["main"] = pc["main"] /\ (Requested' <=> Requested) /\ (Intact' <=> Intact)
    <3>1. CASE h = "alrm"
      BY <2>1, <3>1 DEF Requested, Intact, Tearing
    <3>2. CASE h = "usr1"
      BY <2>1, <3>2 DEF Requested, Intact, Tearing, WalkPcs, LastPcs
    <3> QED BY <3>1, <3>2
  <2>3. Phase' = Phase
    BY <2>1, <2>2 DEF Phase
  <2> QED BY <2>2, <2>3, LifeMoves
<1>5. ASSUME NEW c \in Frames, Fault(c) PROVE [Life!LifeNext]_(Life!lifeVars)
  <2>1. status = "running" /\ status' = "undefined" /\ run = c /\ Undefined(c)
    BY <1>5 DEF Fault
  <2>2. Phase' = "gone" /\ ~Requested'
    BY <2>1 DEF Phase, Requested
  <2>3. CASE pc["main"] \in {"start", "sigaction"}
    <3>1. Phase \in {"none", "boot"} /\ ~Requested
      BY <1>0, <2>1, <2>3, PhaseCases DEF Requested, BootInv, Intact, Tearing, WalkPcs, LastPcs
    <3> QED BY <2>2, <3>1, LifeMoves
  <2>4. CASE pc["main"] \notin {"start", "sigaction"}
    <3>1. Phase \in {"loading", "loaded", "ending"}
      BY <1>0, <2>1, <2>4, PhaseCases
    <3> QED BY <2>2, <3>1, LifeMoves
  <2> QED BY <2>3, <2>4
<1> QED BY <1>1, <1>2, <1>3, <1>4, <1>5 DEF Idle

\* The steps of main.
LEMMA LifeMain ==
  ASSUME FullInv, FullInv', ~Hung, ~Hung', MainStep
  PROVE  [Life!LifeNext]_(Life!lifeVars)
<1> USE DEF procVars, heapVars, dataVars, listVars, fileVars, libVars, mainVars, histVars
<1>0. /\ TypeInv /\ Inv /\ Inv' /\ TypeInv' /\ BootInv /\ BootInv' /\ ListInv
      /\ Intact /\ Intact' /\ ConfInv /\ ConfInv'
  BY MainIntact DEF FullInv, Inv
<1>1. ListInv'
  BY <1>0 DEF Inv, IntactInv
<1>2. status = "running" /\ pc'["usr1"] = pc["usr1"] /\ pend' = pend
  <2>1. status = "running"
    BY DEF MainStep, LoadStep, Start, SigAction, SetTimer, LoadFile, ReadFile, OpenDir, ReadDir, DlSym,
       CycMake, Link, SetTail, Wire, DirEnd, BindStep, MatchNode, MatchEnd, Prune, Unlink, FreeNode,
       InitStep, TimeInit, TimeInitReturn, InitNext, Invoke, Return, Main, At, Moves
  <2>2. pend' = pend
    BY DEF MainStep, LoadStep, Start, SigAction, SetTimer, LoadFile, ReadFile, OpenDir, ReadDir, DlSym,
       CycMake, Link, SetTail, Wire, DirEnd, BindStep, MatchNode, MatchEnd, Prune, Unlink, FreeNode,
       InitStep, TimeInit, TimeInitReturn, InitNext, Exit
  <2> QED BY <1>0, <2>1, <2>2, LoadLabels, BindLabels, InitLabels DEF MainStep
<1>3. CASE Start
  <2>1. pc["main"] = "start" /\ ~Requested
    BY <1>0, <1>2, <1>3 DEF Start, Main, At, Moves, BootInv, Requested
  <2>2. CASE status' = "running" /\ Goto("main", "sigaction")
    <3>1. pc'["main"] = "sigaction" /\ ~Requested'
      BY <1>0, <1>2, <2>1, <2>2, GotoLabel DEF Requested
    <3>2. Phase = "none" /\ Phase' = "boot"
      BY <1>0, <1>2, <2>1, <2>2, <3>1, PhaseCases, PhaseCasesNext
    <3> QED BY <2>1, <3>1, <3>2, LifeMoves
  <2>3. CASE status' = "exited"
    <3>1. Phase = "none" /\ Phase' = "gone" /\ ~Requested'
      BY <1>0, <1>2, <2>1, <2>3, PhaseCases DEF Phase, Requested
    <3> QED BY <2>1, <3>1, LifeMoves
  <2> QED BY <1>2, <1>3, <2>2, <2>3 DEF Start, Exit
<1>4. ASSUME ~Start PROVE status' = "running" /\ (Requested' <=> Requested)
  <2>1. status' = status
    BY <1>4 DEF MainStep, LoadStep, SigAction, SetTimer, LoadFile, ReadFile, OpenDir, ReadDir, DlSym,
       CycMake, Link, SetTail, Wire, DirEnd, BindStep, MatchNode, MatchEnd, Prune, Unlink, FreeNode,
       InitStep, TimeInit, TimeInitReturn, InitNext
  <2> QED BY <1>2, <2>1 DEF Requested
<1>5. CASE SigAction
  <2>1. pc["main"] = "sigaction" /\ pc'["main"] = "setitimer" /\ cychead = 0 /\ cychead' = cychead /\ ~Start
    BY <1>0, <1>5, GotoLabel DEF SigAction, Main, At, Moves, BootInv, Start
  <2>2. Phase = "boot" /\ Phase' = "loading"
    BY <1>0, <1>2, <1>4, <2>1, PhaseCases, PhaseCasesNext
  <2> QED BY <1>4, <2>1, <2>2, LifeMoves
<1>6. CASE ~Start /\ ~SigAction
  <2>1. pc["main"] \notin {"start", "sigaction"} /\ caught
    <3>1. CASE LoadStep
      BY <1>0, <1>6, <3>1 DEF LoadStep, SetTimer, LoadFile, ReadFile, OpenDir, ReadDir, DlSym,
         CycMake, Link, SetTail, Wire, DirEnd, Main, At, Moves, BootInv
    <3>2. CASE BindStep \/ InitStep
      BY <1>0, <3>2, BindLabels, InitLabels DEF BindPcs, InitPcs, BootInv
    <3> QED BY <3>1, <3>2 DEF MainStep
  <2>2. caught' = caught
    BY <1>6 DEF MainStep, LoadStep, SetTimer, LoadFile, ReadFile, OpenDir, ReadDir, DlSym,
       CycMake, Link, SetTail, Wire, DirEnd, BindStep, MatchNode, MatchEnd, Prune, Unlink, FreeNode,
       InitStep, TimeInit, TimeInitReturn, InitNext
  <2>3. pc'["main"] \notin {"start", "sigaction"}
    BY <1>0, <2>1, <2>2 DEF BootInv
  <2>4. /\ Phase = IF cychead # 0 THEN "loaded" ELSE "loading"
        /\ Phase' = IF cychead' # 0 THEN "loaded" ELSE "loading"
    BY <1>0, <1>2, <1>4, <1>6, <2>1, <2>3, PhaseCases, PhaseCasesNext
  <2>5. cychead # 0 => cychead' # 0
    <3>1. CASE Unlink
      <4>1. pc'["main"] = "free"
        BY <1>0, <3>1, GotoLabel DEF Unlink
      <4>2. Bound(Len(blocks))' /\ Len(blocks') >= 1
        BY <1>0, <4>1 DEF ConfInv, BindPcs
      <4>3. Len(blocks') \in Nat
        BY <1>0 DEF TypeInv, TypeOK, GlobalType
      <4>4. Linked' # {}
        BY <4>2, <4>3 DEF Bound
      <4> QED BY <1>1, <4>4 DEF ListInv, IsList
    <3>2. CASE ~Unlink
      <4>1. cychead' = cychead \/ (Link /\ cychead = 0)
        BY <1>6, <3>2 DEF MainStep, LoadStep, SetTimer, LoadFile, ReadFile, OpenDir, ReadDir, DlSym,
           CycMake, Link, SetTail, Wire, DirEnd, BindStep, MatchNode, MatchEnd, Prune, FreeNode,
           InitStep, TimeInit, TimeInitReturn, InitNext
      <4> QED BY <4>1
    <3> QED BY <3>1, <3>2
  <2> QED BY <1>4, <1>6, <2>4, <2>5, LifeMoves
<1> QED BY <1>3, <1>5, <1>6

\* The steps of gameover.
LEMMA LifeGame ==
  ASSUME FullInv, FullInv', ~Hung, ~Hung', NEW c \in {"main", "usr1"}, GameStep(c)
  PROVE  [Life!LifeNext]_(Life!lifeVars)
<1> USE DEF procVars, heapVars, dataVars, listVars, fileVars, libVars, mainVars, histVars
<1>0. TypeInv /\ TypeInv' /\ BootInv /\ BootInv' /\ Inv
  BY DEF FullInv, Inv
<1>1. /\ status = "running" /\ run = c /\ pc[c] \in GamePcs /\ pend' = pend
      /\ \A d \in Frames \ {c} : pc'[d] = pc[d]
  <2>1. pend' = pend
    BY DEF GameStep, GameOver, GoLog, GoLd, TimeDel, TimeDelReturn, GoDlclose, GoFree, GoClear,
       GoLogDel, GoExit, Exit, HandlerReturn
  <2> QED BY <1>0, <2>1, GameQuiet, GameLabels
<1>2. pc["main"] \notin {"start", "sigaction"} /\ pc'["main"] \notin {"start", "sigaction"}
  <2>1. pc["main"] \notin {"start", "sigaction"}
    BY <1>0, <1>1 DEF BootInv, GamePcs, WalkPcs, LastPcs
  <2>2. CASE c = "main"
    BY <1>0, <2>1, <2>2, GameLabels DEF GamePcs, WalkPcs, LastPcs
  <2>3. CASE c = "usr1"
    BY <1>1, <2>1, <2>3
  <2> QED BY <2>1, <2>2, <2>3
<1>3. CASE status' # "running"
  <2>1. Phase' = "gone" /\ ~Requested'
    BY <1>3 DEF Phase, Requested
  <2>2. CASE ~Intact
    BY <1>0, <1>1, <2>1, <2>2, PhaseCases, LifeMoves
  <2>3. CASE Intact
    <3>1. GameOver(c)
      BY <1>0, <2>3, GameBegin DEF Intact
    <3>2. cychead = 0
      BY <1>1, <1>3, <3>1 DEF GameOver
    <3>3. Phase = "loading"
      BY <1>0, <1>1, <1>2, <2>3, <3>2, PhaseCases
    <3> QED BY <2>1, <3>3, LifeMoves
  <2> QED BY <2>2, <2>3
<1>4. CASE status' = "running" /\ Tearing(c)
  <2>1. Tearing(c)'
    BY <1>0, <1>4, TearingStays
  <2>2. Phase = "ending" /\ Phase' = "ending"
    BY <1>0, <1>1, <1>4, <2>1, PhaseCases, PhaseCasesNext DEF Intact
  <2>3. pc["usr1"] = "go" <=> pc'["usr1"] = "go"
    <3>1. CASE c = "main"
      BY <1>1, <3>1
    <3>2. CASE c = "usr1"
      BY <1>4, <2>1, <3>2 DEF Tearing, WalkPcs, LastPcs
    <3> QED BY <3>1, <3>2
  <2>4. Requested' <=> Requested
    BY <1>1, <1>4, <2>3 DEF Requested
  <2> QED BY <2>2, <2>4, LifeMoves
<1>5. CASE status' = "running" /\ ~Tearing(c) /\ c = "main"
  <2>1. pc["usr1"] = "idle" /\ Intact
    BY <1>0, <1>1, <1>5, MainRuns DEF Intact, Tearing, WalkPcs, LastPcs
  <2>2. GameOver(c)
    BY <1>0, <1>5, GameBegin
  <2>3. cychead # 0 /\ GotoNode(c, "go_log", cychead)
    BY <1>5, <2>2 DEF GameOver, Exit
  <2>4. Tearing("main")'
    BY <1>0, <1>5, <2>3, GotoCursor DEF Tearing, WalkPcs
  <2>5. Phase = "loaded" /\ Phase' = "ending"
    BY <1>0, <1>1, <1>2, <1>5, <2>1, <2>3, <2>4, PhaseCases, PhaseCasesNext DEF Intact
  <2>6. Requested' <=> Requested
    BY <1>1, <1>5 DEF Requested
  <2> QED BY <2>5, <2>6, LifeMoves
<1>6. CASE status' = "running" /\ ~Tearing(c) /\ c = "usr1"
  <2>1. GameOver(c) /\ pc["usr1"] = "go"
    BY <1>0, <1>6, GameBegin
  <2>2. Requested /\ cychead' = cychead
    BY <1>1, <2>1 DEF Requested, GameOver
  <2>3. Tearing("main")' <=> Tearing("main")
    BY <1>1, <1>6 DEF Tearing
  <2>4. CASE cychead # 0
    <3>1. Tearing("usr1")'
      <4>1. GotoNode("usr1", "go_log", cychead)
        BY <1>6, <2>1, <2>4 DEF GameOver
      <4> QED BY <1>0, <4>1, GotoCursor DEF Tearing, WalkPcs
    <3>2. Phase' = "ending"
      BY <1>0, <1>6, <3>1, PhaseCasesNext DEF Intact
    <3>3. Phase \in {"loaded", "ending"}
      BY <1>0, <1>1, <1>2, <2>4, PhaseCases
    <3> QED BY <2>2, <3>2, <3>3, LifeMoves
  <2>5. CASE cychead = 0
    <3>1. ~Tearing("usr1")'
      <4>1. Goto("usr1", "idle")
        BY <1>6, <2>1, <2>5 DEF GameOver, HandlerReturn, GotoNode
      <4> QED BY <1>0, <4>1, GotoLabel DEF Tearing, WalkPcs, LastPcs
    <3>2. Intact' <=> Intact
      BY <1>6, <2>3, <3>1 DEF Intact
    <3>3. Phase' = Phase /\ Phase \in {"loading", "ending"}
      BY <1>0, <1>1, <1>2, <1>6, <2>2, <2>5, <3>2, PhaseCases, PhaseCasesNext
    <3> QED BY <2>2, <3>3, LifeMoves
  <2> QED BY <2>4, <2>5
<1> QED BY <1>3, <1>4, <1>5, <1>6

\* Who waits has begun, and keeps waiting.
LEMMA HungStays ==
  ASSUME FullInv, [Next]_vars, Hung, status' = "running"
  PROVE  Hung' /\ caught /\ ~GameStep("usr1")
<1>0. TypeInv /\ BootInv /\ WaitInv /\ logging \in [Frames -> {"no", "time", "wait"}]
  BY DEF FullInv, Inv, TypeInv, TypeOK, LogType
<1>1. PICK h \in Handlers : logging[h] = "wait"
  BY <1>0 DEF Hung, WaitInv
<1>2. logging'[h] = "wait"
  <2>1. ASSUME NEW c \in Frames, logging[c] = "no", Logs(c) PROVE logging'[h] = "wait"
    BY <1>0, <1>1, <2>1 DEF Logs
  <2>2. ASSUME NEW c \in Frames, LogDone(c) PROVE logging'[h] = "wait"
    BY <1>0, <1>1, <2>2 DEF LogDone
  <2> QED BY <1>0, <1>1, <2>1, <2>2, LogFrame
<1>3. caught
  BY <1>0, <1>1 DEF BootInv, TypeInv, LogOK
<1>4. ~GameStep("usr1")
  <2>1. run = "usr1" => logging["usr1"] = "wait"
    BY <1>0, <1>1 DEF WaitInv
  <2> QED BY <1>0, <2>1, GameSilent, GameQuiet
<1> QED BY <1>2, <1>3, <1>4 DEF Hung

\* A stop request of a process goes only when gameover looks at the list.
LEMMA RequestStays ==
  ASSUME Inv, [Next]_vars, status' = "running", ~GameStep("usr1"), Requested
  PROVE  Requested'
<1> USE DEF procVars, heapVars, dataVars, listVars, fileVars, libVars, mainVars, histVars
<1>0. TypeInv
  BY DEF Inv
<1>1. CASE Tick \/ Stop \/ (\E c \in Frames : Fault(c)) \/ UNCHANGED vars
  BY <1>1 DEF Tick, Stop, Fault, vars, Requested
<1>2. ASSUME NEW h \in Handlers, Deliver(h) PROVE Requested'
  <2>1. pend' = pend \ {h} /\ (h = "usr1" => pc'["usr1"] = "go") /\ (h # "usr1" => pc'["usr1"] = pc["usr1"])
    BY <1>0, <1>2, GotoLabel DEF Deliver
  <2> QED BY <2>1 DEF Requested
<1>3. ASSUME NEW c \in Frames, MethodLog(c) \/ LogDone(c) PROVE Requested'
  BY <1>0, <1>3, LogQuiet DEF Requested
<1>4. CASE MainStep
  <2>1. pend' = pend
    BY <1>4 DEF MainStep, LoadStep, Start, SigAction, SetTimer, LoadFile, ReadFile, OpenDir, ReadDir, DlSym,
       CycMake, Link, SetTail, Wire, DirEnd, BindStep, MatchNode, MatchEnd, Prune, Unlink, FreeNode,
       InitStep, TimeInit, TimeInitReturn, InitNext, Exit
  <2>2. pc'["usr1"] = pc["usr1"]
    BY <1>0, <1>4, LoadLabels, BindLabels, InitLabels DEF MainStep
  <2> QED BY <2>1, <2>2 DEF Requested
<1>5. CASE TickStep
  <2>1. pend' = pend
    BY <1>5 DEF TickStep, TickStart, Count, TimeDo, TickNext, HandlerReturn
  <2> QED BY <1>0, <1>5, <2>1, TickQuiet DEF Requested
<1>6. CASE GameStep("main")
  <2>1. pend' = pend
    BY <1>6 DEF GameStep, GameOver, GoLog, GoLd, TimeDel, TimeDelReturn, GoDlclose, GoFree, GoClear,
       GoLogDel, GoExit, Exit, HandlerReturn
  <2> QED BY <1>0, <1>6, <2>1, GameQuiet DEF Requested
<1> QED BY <1>1, <1>2, <1>3, <1>4, <1>5, <1>6 DEF Next, Ended

\* A process that hangs does nothing more but end.
LEMMA LifeHung ==
  ASSUME FullInv, [Next]_vars, Hung
  PROVE  [Life!LifeNext]_(Life!lifeVars)
<1>1. Phase = "hung"
  BY DEF Phase, Hung
<1>2. CASE status' = "running"
  <2>1. Phase' = "hung"
    BY <1>2, HungStays DEF Phase
  <2>2. Requested => Requested'
    BY <1>2, HungStays, RequestStays DEF FullInv
  <2> QED BY <1>1, <2>1, <2>2, LifeMoves
<1>3. CASE status' # "running"
  <2>1. Phase' = "gone" /\ ~Requested'
    BY <1>3 DEF Phase, Requested
  <2> QED BY <1>1, <2>1, LifeMoves
<1> QED BY <1>2, <1>3

\* A handler begins to wait.
LEMMA LifeHangs ==
  ASSUME FullInv, FullInv', [Next]_vars, ~Hung, Hung'
  PROVE  [Life!LifeNext]_(Life!lifeVars)
<1>0. TypeInv /\ Inv /\ BootInv /\ WaitInv /\ WaitInv' /\ logging \in [Frames -> {"no", "time", "wait"}]
  BY DEF FullInv, Inv, TypeInv, TypeOK, LogType
<1>1. status' = "running" /\ \E h \in Handlers : logging'[h] = "wait"
  BY <1>0 DEF Hung, WaitInv
<1>2. PICK h \in Handlers : logging'[h] = "wait"
  BY <1>1
<1>3. status = "running"
  <2>1. status # "running" => UNCHANGED vars
    <3>1. ~Idle \/ status = "running" \/ UNCHANGED vars
      BY DEF Idle, Tick, Stop, Deliver, MethodLog, LogDone, Fault, Moves
    <3>2. ~MainStep \/ status = "running"
      BY DEF MainStep, LoadStep, Start, SigAction, SetTimer, LoadFile, ReadFile, OpenDir, ReadDir, DlSym,
         CycMake, Link, SetTail, Wire, DirEnd, BindStep, MatchNode, MatchEnd, Prune, Unlink, FreeNode,
         InitStep, TimeInit, TimeInitReturn, InitNext, Invoke, Return, Main, At, Moves
    <3>3. ~TickStep \/ status = "running"
      BY <1>0, TickQuiet
    <3>4. \A c \in {"main", "usr1"} : ~GameStep(c) \/ status = "running"
      BY <1>0, GameQuiet
    <3> QED BY <3>1, <3>2, <3>3, <3>4 DEF Next, Ended, Idle
  <2> QED BY <1>1, <2>1 DEF vars, procVars
<1>4. logging[h] # "wait" /\ logging' # logging
  BY <1>2, <1>3 DEF Hung
<1>5. /\ Logs(h) /\ run' = h /\ (run = h \/ Deliver(h))
  <2>1. ASSUME NEW c \in Frames, LogDone(c) PROVE FALSE
    BY <1>0, <1>2, <1>4, <2>1 DEF LogDone
  <2>2. ASSUME NEW c \in Frames, Logs(c) PROVE c = h
    BY <1>0, <1>2, <1>4, <2>2 DEF Logs
  <2> QED BY <1>0, <1>4, <2>1, <2>2, LogFrame
<1>6. pc["main"] \notin {"start", "sigaction"}
  <2>1. CASE run = h
    BY <1>0, <2>1 DEF BootInv, TypeInv, StackOK
  <2>2. CASE Deliver(h)
    BY <1>0, <2>2 DEF Deliver, BootInv
  <2> QED BY <1>5, <2>1, <2>2
<1>7. Phase \in {"loading", "loaded", "ending"} /\ Phase' = "hung"
  BY <1>0, <1>1, <1>3, <1>6, PhaseCases DEF Phase
<1>8. Requested' <=> Requested
  <2>1. ~GameStep("usr1")
    BY <1>4, GameSilent
  <2>2. Requested => Requested'
    BY <1>0, <1>1, <2>1, RequestStays
  <2>3. ASSUME Requested' PROVE Requested
    <3>1. CASE Deliver(h)
      <4>1. h = "usr1"
        BY <1>4, <3>1 DEF Deliver, Silent
      <4> QED BY <1>3, <3>1, <4>1 DEF Deliver, Requested
    <3>2. CASE run = h /\ ~Deliver(h)
      <4>1. ~(Tick \/ Stop \/ (\E c \in Frames : LogDone(c) \/ Fault(c)) \/ UNCHANGED vars)
        <5>1. \A c \in Frames : ~LogDone(c)
          BY <1>0, <1>2, <1>4 DEF LogDone
        <5> QED BY <1>4, <5>1 DEF Tick, Stop, Fault, vars
      <4>2. \A g \in Handlers : ~Deliver(g)
        BY <1>5, <3>2 DEF Deliver
      <4>3. ~MainStep
        BY <3>2, MainBegins
      <4>4. \A c \in {"main", "usr1"} : ~GameStep(c)
        BY <1>4, GameSilent
      <4>5. CASE TickStep
        <5>1. pend' = pend
          BY <4>5 DEF TickStep, TickStart, Count, TimeDo, TickNext, HandlerReturn, procVars
        <5> QED BY <1>0, <1>3, <2>3, <4>5, <5>1, TickQuiet DEF Requested
      <4>6. ASSUME NEW c \in Frames, MethodLog(c) PROVE Requested
        BY <1>0, <2>3, <4>6, LogQuiet DEF Requested, procVars
      <4> QED BY <4>1, <4>2, <4>3, <4>4, <4>5, <4>6 DEF Next, Ended
    <3> QED BY <1>5, <3>1, <3>2
  <2> QED BY <2>2, <2>3
<1> QED BY <1>7, <1>8, LifeMoves

\* Every step of the daemon is a step of its life or leaves it as it is.
LEMMA LifeStep ==
  FullInv /\ FullInv' /\ [Next]_vars => [Life!LifeNext]_(Life!lifeVars)
<1> SUFFICES ASSUME FullInv, FullInv', [Next]_vars PROVE [Life!LifeNext]_(Life!lifeVars)
  OBVIOUS
<1>1. CASE Hung
  BY <1>1, LifeHung
<1>2. CASE ~Hung /\ Hung'
  BY <1>2, LifeHangs
<1>3. CASE ~Hung /\ ~Hung'
  <2>1. CASE TickStep
    <3>1. TypeInv
      BY DEF FullInv, Inv
    <3>2. UNCHANGED <<caught, pend>>
      BY <2>1 DEF TickStep, TickStart, Count, TimeDo, TickNext, HandlerReturn, procVars
    <3>3. Phase' = Phase /\ (Requested' <=> Requested)
      BY <1>3, <2>1, <3>1, <3>2, TickQuiet DEF Phase, Requested, Intact, Tearing
    <3> QED BY <3>3, LifeMoves
  <2> QED BY <1>3, <2>1, LifeSignals, LifeMain, LifeGame DEF Next, Ended, Idle
<1> QED BY <1>1, <1>2, <1>3

\* The daemon of main.c, with its two handlers and for every number of libraries
\* and every configuration, implements the life that start.sh relies on.
THEOREM Lives == Spec => LivesALife
<1>1. Init => Life!LifeInit
  BY LifeInitial
<1>2. FullInv /\ FullInv' /\ [Next]_vars => [Life!LifeNext]_(Life!lifeVars)
  BY LifeStep
<1> QED BY <1>1, <1>2, FullInvariant, PTL DEF Spec, LivesALife, Life!LifeSpec

=============================================================================
