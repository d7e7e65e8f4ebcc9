-------------------------- MODULE TimeDaemonProofs --------------------------
(***************************************************************************)
(* Machine-checked proofs about TimeDaemon, for every number of libraries, *)
(* every configuration and every cycle time.                               *)
(***************************************************************************)
EXTENDS TimeDaemonProps, TLAPS

USE NAssumption, MaxKeyAssumption, ExportAssumption, ConfAssumption
USE DEF Node, Handlers, Frames

-----------------------------------------------------------------------------
(***************************************************************************)
(* How the frames move.                                                    *)
(***************************************************************************)
\* Each frame has the labels of the code it runs.
LEMMA Labels ==
  /\ LoadPcs \cup BindPcs \cup InitPcs \cup {"pause"} \cup GamePcs \subseteq FramePcs["main"] \ {"idle"}
  /\ TickPcs \subseteq FramePcs["alrm"] \ {"idle"}
  /\ GamePcs \subseteq FramePcs["usr1"] \ {"idle"}
  /\ "idle" \in FramePcs["alrm"] \cap FramePcs["usr1"]
BY DEF FramePcs, LoadPcs, BindPcs, InitPcs, GamePcs, TickPcs, WalkPcs, LastPcs

\* After a method a frame is at a label of its own, where it has the same node.
LEMMA CallLabels ==
  ASSUME NEW c \in Frames, NEW l \in Methods \cap FramePcs[c]
  PROVE  /\ AfterCall[l] \in FramePcs[c] \ {"idle"} /\ OnError[l] \in FramePcs[c] \ {"idle"}
         /\ AfterCall[l] \notin EntryPcs /\ OnError[l] \notin EntryPcs
BY DEF Methods, EntryPcs, AfterCall, OnError, FramePcs, LoadPcs, BindPcs, InitPcs, GamePcs, TickPcs,
       WalkPcs, LastPcs

\* The running frame is not idle.
LEMMA RunActive == StackOK => pc[run] # "idle" \/ run = "main"
BY DEF StackOK

\* The running frame c moves to label l and leaves the other frames alone.
LEMMA Move ==
  ASSUME TypeInv, NEW c \in Frames, NEW l \in FramePcs[c] \ {"idle"}, NEW m \in 0..N,
         run = c, c \notin incall, UNCHANGED <<run, resume, incall>>,
         GotoNode(c, l, m), l \in NodePcs => m # 0,
         entry' = entry \/ entry' # 0, l \in EntryPcs => entry' # 0
  PROVE  FrameType' /\ StackOK' /\ CursorOK'
<1>1. /\ DOMAIN pc' = Frames /\ pc'[c] = l /\ \A d \in Frames \ {c} : pc'[d] = pc[d]
      /\ cyc' \in [Frames -> 0..N] /\ cyc'[c] = m /\ \A d \in Frames \ {c} : cyc'[d] = cyc[d]
  BY DEF TypeInv, TypeOK, FrameType, GotoNode, Goto
<1>2. FrameType'
  BY <1>1 DEF TypeInv, TypeOK, FrameType
<1>3. CursorOK'
  BY <1>1 DEF TypeInv, CursorOK
<1>4. StackOK'
  <2>1. \A h \in Handlers : resume'[h] = "none" <=> pc'[h] = "idle"
    BY <1>1 DEF TypeInv, StackOK
  <2>2. \A d \in incall' : pc'[d] \in Methods
    BY <1>1 DEF TypeInv, TypeOK, FrameType, StackOK
  <2> QED BY <2>1, <2>2 DEF TypeInv, StackOK
<1> QED BY <1>2, <1>3, <1>4

\* The same when the cursor stays where it is.
LEMMA MoveSame ==
  ASSUME TypeInv, NEW c \in Frames, NEW l \in FramePcs[c] \ {"idle"},
         run = c, c \notin incall, UNCHANGED <<run, resume, incall, cyc>>,
         Goto(c, l), l \in NodePcs => cyc[c] # 0,
         entry' = entry \/ entry' # 0, l \in EntryPcs => entry' # 0
  PROVE  FrameType' /\ StackOK' /\ CursorOK'
<1>1. cyc[c] \in 0..N /\ GotoNode(c, l, cyc[c])
  BY DEF TypeInv, TypeOK, FrameType, GotoNode
<1> QED BY <1>1, Move

\* Nothing of the frames changes.
LEMMA Still ==
  ASSUME TypeInv, UNCHANGED <<run, resume, pc, incall, cyc>>, entry' = entry \/ entry' # 0
  PROVE  FrameType' /\ StackOK' /\ CursorOK'
BY DEF TypeInv, TypeOK, FrameType, StackOK, CursorOK

\* The running frame tests a method's pointer and enters the method.
LEMMA Enter ==
  ASSUME TypeInv, NEW c \in Frames, NEW l \in Methods, Invoke(c, l),
         UNCHANGED <<run, resume, cyc, entry>>
  PROVE  FrameType' /\ StackOK' /\ CursorOK'
<1>1. run = c /\ pc[c] = l /\ c \notin incall /\ cyc[c] # 0 /\ l \in FramePcs[c]
  BY DEF Invoke, At, Moves, TypeInv, TypeOK, FrameType
<1>2. CASE incall' = incall \cup {c} /\ pc' = pc
  BY <1>1, <1>2 DEF TypeInv, TypeOK, FrameType, StackOK, CursorOK
<1>3. CASE incall' = incall /\ Goto(c, AfterCall[l])
  BY <1>1, <1>3, CallLabels, MoveSame
<1> QED BY <1>2, <1>3 DEF Invoke

\* The method the running frame is in returns.
LEMMA Leave ==
  ASSUME TypeInv, NEW c \in Frames, NEW l \in Methods, Return(c, l),
         UNCHANGED <<run, resume, cyc, entry>>
  PROVE  FrameType' /\ StackOK' /\ CursorOK'
<1>1. run = c /\ pc[c] = l /\ c \in incall /\ cyc[c] # 0 /\ l \in FramePcs[c] /\ l # "idle"
  BY DEF Return, At, Moves, TypeInv, TypeOK, FrameType, CursorOK, Methods
<1>2. PICK k \in FramePcs[c] \ {"idle"} : Goto(c, k) /\ k \notin EntryPcs
  BY <1>1, CallLabels DEF Return
<1>3. /\ DOMAIN pc' = Frames /\ pc'[c] = k /\ \A d \in Frames \ {c} : pc'[d] = pc[d]
      /\ incall' = incall \ {c}
  BY <1>2 DEF TypeInv, TypeOK, FrameType, Goto, Return
<1>4. FrameType' /\ CursorOK'
  BY <1>1, <1>2, <1>3 DEF TypeInv, TypeOK, FrameType, CursorOK
<1>5. StackOK'
  <2>1. \A h \in Handlers : resume'[h] = "none" <=> pc'[h] = "idle"
    BY <1>1, <1>3 DEF TypeInv, StackOK
  <2>2. \A d \in incall' : pc'[d] \in Methods
    BY <1>3 DEF TypeInv, TypeOK, FrameType, StackOK
  <2> QED BY <2>1, <2>2 DEF TypeInv, StackOK
<1> QED BY <1>4, <1>5

\* A handler that is on top returns.
LEMMA Back ==
  ASSUME TypeInv, NEW h \in Handlers, run = h, h \notin incall,
         UNCHANGED <<incall, entry>>, HandlerReturn(h)
  PROVE  ProcType' /\ FrameType' /\ StackOK' /\ CursorOK'
<1>1. /\ DOMAIN pc' = Frames /\ pc'[h] = "idle" /\ \A d \in Frames \ {h} : pc'[d] = pc[d]
      /\ cyc' \in [Frames -> 0..N] /\ cyc'[h] = 0 /\ \A d \in Frames \ {h} : cyc'[d] = cyc[d]
  BY DEF TypeInv, TypeOK, FrameType, HandlerReturn, GotoNode, Goto
<1>2. /\ resume[h] \in Frames /\ resume'[h] = "none" /\ run' = resume[h]
      /\ resume' \in [Handlers -> Frames \cup {"none"}]
      /\ \A d \in Handlers \ {h} : resume'[d] = resume[d]
  BY DEF TypeInv, TypeOK, ProcType, StackOK, HandlerReturn
<1>3. ProcType'
  BY <1>2 DEF TypeInv, TypeOK, ProcType, HandlerReturn
<1>4. FrameType'
  BY <1>1, Labels DEF TypeInv, TypeOK, FrameType
<1>5. CursorOK'
  BY <1>1 DEF TypeInv, CursorOK, NodePcs, WalkPcs, EntryPcs
<1>6. StackOK'
  <2>1. \A d \in Handlers : resume'[d] = "none" <=> pc'[d] = "idle"
    BY <1>1, <1>2 DEF TypeInv, StackOK
  <2>2. \A d \in incall' : pc'[d] \in Methods
    BY <1>1 DEF TypeInv, TypeOK, FrameType, StackOK
  <2>3. CASE h = "alrm"
    BY <1>2, <2>1, <2>2, <2>3 DEF TypeInv, StackOK
  <2>4. CASE h = "usr1"
    BY <1>2, <2>1, <2>2, <2>4 DEF TypeInv, StackOK
  <2> QED BY <2>3, <2>4
<1> QED BY <1>3, <1>4, <1>5, <1>6

\* A frame at a label that is no method's runs and is in no method.
LEMMA AtLabel ==
  ASSUME TypeInv, NEW c, NEW k, At(c, k), k \notin Methods
  PROVE  run = c /\ pc[c] = k /\ c \notin incall
BY DEF TypeInv, StackOK, At, Moves

\* The cursor of a frame that follows it, and its successor in the list.
LEMMA NodeCursor ==
  ASSUME TypeInv, NEW c \in Frames
  PROVE  /\ cyc[c] \in 0..N
         /\ cyc[c] # 0 => cyc[c] \in Node /\ next[cyc[c]] \in 0..N
         /\ pc[c] \in NodePcs => cyc[c] # 0
<1>1. cyc[c] \in 0..N
  BY DEF TypeInv, TypeOK, FrameType
<1>2. ASSUME cyc[c] # 0 PROVE cyc[c] \in Node /\ next[cyc[c]] \in 0..N
  <2>1. cyc[c] \in Node
    BY <1>1, <1>2
  <2> QED BY <2>1 DEF TypeInv, TypeOK, NodeType
<1>3. pc[c] \in NodePcs => cyc[c] # 0
  BY DEF TypeInv, CursorOK
<1> QED BY <1>1, <1>2, <1>3

\* Neither the heap nor the locals of main change.
LEMMA DataSame ==
  ASSUME TypeOK, UNCHANGED <<heapVars, mainVars, histVars>>
  PROVE  NodeType' /\ GlobalType' /\ LocalType'
<1> USE DEF heapVars, dataVars, listVars, fileVars, libVars, mainVars, histVars
<1>1. NodeType'
  BY DEF TypeOK, NodeType
<1>2. GlobalType'
  BY DEF TypeOK, GlobalType
<1>3. LocalType'
  BY DEF TypeOK, LocalType
<1> QED BY <1>1, <1>2, <1>3

-----------------------------------------------------------------------------
(***************************************************************************)
(* Type correctness: every action keeps the type of every variable, the    *)
(* shape of the stack and the cursors.                                     *)
(***************************************************************************)
\* The initial state.
LEMMA InitTypeInv == Init => TypeInv
<1> SUFFICES ASSUME Init PROVE TypeInv
  OBVIOUS
<1>1. ProcType
  BY DEF Init, ProcType
<1>2. FrameType
  BY Labels DEF Init, FrameType, LoadPcs
<1>3. NodeType
  BY DEF Init, NodeType
<1>4. GlobalType
  <2>1. blocks \in Confs \cup {<< >>}
    BY Zenon DEF Init
  <2>2. cychead \in 0..N /\ cycheadnext \in 0..N
    BY DEF Init
  <2>3. /\ shead \in BOOLEAN /\ mainld \in {"null", "open", "dead", "lost"}
        /\ fdlib \subseteq Node /\ mapped \subseteq Node
    BY DEF Init
  <2> QED BY <2>1, <2>2, <2>3 DEF GlobalType
<1>5. LocalType
  BY DEF Init, LocalType
<1>6. StackOK /\ CursorOK
  BY DEF Init, StackOK, CursorOK, NodePcs, WalkPcs, EntryPcs
<1>7. LogType /\ LogOK
  BY DEF Init, LogType, LogOK
<1> QED BY <1>1, <1>2, <1>3, <1>4, <1>5, <1>6, <1>7 DEF TypeInv, TypeOK

\* All of it but what each frame is doing in logLog, which follows further down.
Typed ==
  ProcType /\ FrameType /\ NodeType /\ GlobalType /\ LocalType /\ StackOK /\ CursorOK

\* main from the start of the program to the end of loadLib.
LEMMA LoadTypes == TypeInv /\ LoadStep => Typed'
<1> SUFFICES ASSUME TypeInv, LoadStep PROVE Typed'
  OBVIOUS
<1> USE DEF Typed, TypeInv, TypeOK, heapVars, dataVars, listVars, fileVars, libVars, mainVars, histVars,
       procVars
<1>1. CASE Start
  <2>1. FrameType' /\ StackOK' /\ CursorOK'
    BY <1>1, MoveSame, Still, AtLabel, Labels DEF Start, Exit, Main, LoadPcs, Methods, NodePcs,
           WalkPcs, EntryPcs, CursorOK, LocalType
  <2>2. ProcType' /\ NodeType' /\ GlobalType' /\ LocalType'
    BY <1>1, Zenon DEF Start, ProcType, NodeType, GlobalType, LocalType, Exit
  <2> QED BY <2>1, <2>2
<1>2. CASE SigAction
  <2>1. FrameType' /\ StackOK' /\ CursorOK'
    BY <1>2, MoveSame, AtLabel, Labels DEF SigAction, Main, LoadPcs, GamePcs, Methods, NodePcs,
         WalkPcs, EntryPcs
  <2>2. ProcType' /\ NodeType' /\ GlobalType' /\ LocalType'
    BY <1>2, DataSame DEF SigAction, ProcType
  <2> QED BY <2>1, <2>2
<1>3. CASE SetTimer
  <2>1. FrameType' /\ StackOK' /\ CursorOK'
    BY <1>3, MoveSame, AtLabel, Labels DEF SetTimer, Main, LoadPcs, GamePcs, Methods, NodePcs,
         WalkPcs, EntryPcs
  <2>2. ProcType' /\ NodeType' /\ GlobalType' /\ LocalType'
    BY <1>3, DataSame DEF SetTimer, ProcType
  <2> QED BY <2>1, <2>2
<1>4. CASE LoadFile
  <2>1. FrameType' /\ StackOK' /\ CursorOK'
    BY <1>4, MoveSame, AtLabel, Labels DEF LoadFile, Main, LoadPcs, GamePcs, Methods, NodePcs,
         WalkPcs, EntryPcs
  <2>2. ProcType' /\ NodeType' /\ GlobalType' /\ LocalType'
    BY <1>4, ZenonT(40) DEF LoadFile, ProcType, NodeType, GlobalType, LocalType
  <2> QED BY <2>1, <2>2
<1>5. CASE ReadFile
  <2>1. FrameType' /\ StackOK' /\ CursorOK'
    BY <1>5, MoveSame, AtLabel, Labels DEF ReadFile, Main, LoadPcs, GamePcs, Methods, NodePcs,
         WalkPcs, EntryPcs
  <2>2. ProcType' /\ NodeType' /\ GlobalType' /\ LocalType'
    BY <1>5, ZenonT(40) DEF ReadFile, ProcType, NodeType, GlobalType, LocalType
  <2> QED BY <2>1, <2>2
<1>6. CASE OpenDir
  <2>1. FrameType' /\ StackOK' /\ CursorOK'
    BY <1>6, MoveSame, AtLabel, Labels DEF OpenDir, Main, LoadPcs, GamePcs, Methods, NodePcs,
         WalkPcs, EntryPcs
  <2>2. ProcType' /\ NodeType' /\ GlobalType' /\ LocalType'
    BY <1>6, DataSame DEF OpenDir, ProcType
  <2> QED BY <2>1, <2>2
<1>7. CASE ReadDir
  <2>1. entry + 1 \in Node /\ entry' = entry + 1 /\ entry' \in 0..N /\ entry' # 0
    BY <1>7 DEF ReadDir, LocalType
  <2>2. /\ mapped' = mapped \/ mapped' = mapped \cup {entry + 1}
        /\ syms' = syms \/ syms' \in ExportSets
        /\ pc' = pc \/ Goto("main", "go") \/ Goto("main", "dlsym")
    BY <1>7 DEF ReadDir
  <2>3. FrameType' /\ StackOK' /\ CursorOK'
    <3>1. run = "main" /\ "main" \notin incall /\ UNCHANGED <<run, resume, incall, cyc>>
      BY <1>7, AtLabel DEF ReadDir, Main, Methods
    <3> QED BY <2>1, <2>2, <3>1, MoveSame, Still, Labels
            DEF LoadPcs, GamePcs, NodePcs, WalkPcs
  <2>4. ProcType' /\ NodeType'
    BY <1>7 DEF ReadDir, ProcType, NodeType
  <2>5. GlobalType'
    BY <1>7, <2>1, <2>2 DEF ReadDir, GlobalType
  <2>6. LocalType'
    BY <1>7, <2>1, <2>2 DEF ReadDir, LocalType
  <2> QED BY <2>3, <2>4, <2>5, <2>6
<1>8. CASE DlSym
  <2>1. FrameType' /\ StackOK' /\ CursorOK'
    BY <1>8, MoveSame, AtLabel, Labels, Zenon DEF DlSym, Main, LoadPcs, GamePcs, Methods, NodePcs,
         WalkPcs, EntryPcs, CursorOK, LocalType
  <2>2. ProcType' /\ NodeType' /\ GlobalType' /\ LocalType'
    BY <1>8, ZenonT(40) DEF DlSym, ProcType, NodeType, GlobalType, LocalType
  <2> QED BY <2>1, <2>2
<1>9. CASE CycMake
  <2>1. /\ run = "main" /\ "main" \notin incall /\ entry # 0
        /\ UNCHANGED <<run, resume, incall, cyc, entry>>
        /\ Goto("main", "link") \/ Goto("main", "go")
    BY <1>9, AtLabel DEF CycMake, Main, Methods, CursorOK, EntryPcs
  <2>2. FrameType' /\ StackOK' /\ CursorOK'
    BY <2>1, MoveSame, Labels DEF LoadPcs, GamePcs, NodePcs, WalkPcs
  <2>3. ProcType' /\ GlobalType' /\ LocalType'
    BY <1>9 DEF CycMake, ProcType, GlobalType, LocalType
  <2>4. NodeType'
    BY <1>9 DEF CycMake, NodeType
  <2> QED BY <2>2, <2>3, <2>4
<1>10. CASE Link
  <2>1. FrameType' /\ StackOK' /\ CursorOK'
    BY <1>10, MoveSame, AtLabel, Labels DEF Link, Main, LoadPcs, GamePcs, Methods, NodePcs,
         WalkPcs, EntryPcs, CursorOK, LocalType
  <2>2. ProcType' /\ LocalType'
    BY <1>10 DEF Link, ProcType, LocalType
  <2>3. GlobalType'
    BY <1>10 DEF Link, GlobalType, LocalType
  <2>4. NodeType'
    BY <1>10 DEF Link, NodeType, GlobalType, LocalType
  <2> QED BY <2>1, <2>2, <2>3, <2>4
<1>11. CASE SetTail
  <2>1. FrameType' /\ StackOK' /\ CursorOK'
    BY <1>11, MoveSame, AtLabel, Labels DEF SetTail, Main, LoadPcs, GamePcs, Methods, NodePcs,
         WalkPcs, EntryPcs, CursorOK, LocalType
  <2>2. ProcType' /\ NodeType' /\ GlobalType' /\ LocalType'
    BY <1>11, Zenon DEF SetTail, ProcType, NodeType, GlobalType, LocalType
  <2> QED BY <2>1, <2>2
<1>12. CASE Wire
  <2>1. entry \in Node /\ syms \subseteq Methods
    <3>1. pc["main"] = "wire"
      BY <1>12 DEF Wire, Main, At
    <3> QED BY <3>1 DEF CursorOK, EntryPcs, LocalType
  <2>2. fn' \in [Node -> SUBSET Methods] /\ fdlib' \subseteq Node
    <3>1. fn \in [Node -> SUBSET Methods] /\ fdlib \subseteq Node
      BY DEF NodeType, GlobalType
    <3>2. fdlib' = fdlib \/ fdlib' = fdlib \cup {entry}
      BY <1>12 DEF Wire
    <3>3. fn' = fn \/ \E S \in SUBSET Methods : fn' = [fn EXCEPT ![entry] = S]
      BY <1>12, <2>1, <3>1 DEF Wire
    <3> QED BY <2>1, <3>1, <3>2, <3>3
  <2>3. FrameType' /\ StackOK' /\ CursorOK'
    BY <1>12, MoveSame, Still, AtLabel, Labels DEF Wire, Main, LoadPcs, Methods, NodePcs, WalkPcs,
           EntryPcs
  <2>4. ProcType' /\ GlobalType'
    BY <1>12, <2>2 DEF Wire, ProcType, GlobalType
  <2>5. NodeType'
    BY <1>12, <2>2 DEF Wire, NodeType
  <2>6. LocalType'
    BY <1>12 DEF Wire, LocalType, Pointers
  <2> QED BY <2>3, <2>4, <2>5, <2>6
<1>13. CASE DirEnd
  <2>1. FrameType' /\ StackOK' /\ CursorOK'
    BY <1>13, Move, MoveSame, AtLabel, Labels, Zenon DEF DirEnd, Main, LoadPcs, BindPcs, InitPcs,
           GamePcs, Methods, NodePcs, WalkPcs, EntryPcs, CursorOK, LocalType, GlobalType
  <2>2. ProcType' /\ NodeType' /\ GlobalType'
    BY <1>13, Zenon DEF DirEnd, ProcType, NodeType, GlobalType
  <2>3. LocalType'
    BY <1>13 DEF DirEnd, LocalType
  <2> QED BY <2>1, <2>2, <2>3
<1> QED BY <1>1, <1>2, <1>3, <1>4, <1>5, <1>6, <1>7, <1>8, <1>9, <1>10, <1>11, <1>12, <1>13
       DEF LoadStep

\* toSetCycdata.
LEMMA BindTypes == TypeInv /\ BindStep => Typed'
<1> SUFFICES ASSUME TypeInv, BindStep PROVE Typed'
  OBVIOUS
<1> USE DEF Typed, TypeInv, TypeOK, heapVars, dataVars, listVars, fileVars, libVars, mainVars, histVars,
       procVars
<1>1. CASE MatchNode
  <2>1. run = "main" /\ "main" \notin incall /\ UNCHANGED <<run, resume, incall, entry>>
    BY <1>1, AtLabel DEF MatchNode, Main, Methods
  <2>2. next[cyc["main"]] \in 0..N /\ cychead \in 0..N
    BY <1>1, NodeCursor DEF MatchNode, GlobalType
  <2>3. FrameType' /\ StackOK' /\ CursorOK'
    <3>1. \/ \E m \in 0..N : GotoNode("main", "match", m)
          \/ Goto("main", "go") /\ cyc' = cyc
      BY <1>1, <2>2 DEF MatchNode
    <3> QED BY <2>1, <3>1, Move, MoveSame, Labels DEF BindPcs, GamePcs, NodePcs, WalkPcs, EntryPcs
  <2>4. ProcType' /\ GlobalType'
    BY <1>1 DEF MatchNode, ProcType, GlobalType
  <2>5. NodeType'
    <3>1. /\ fdate' = fdate \/ fdate' = [fdate EXCEPT ![cyc["main"]] = filetem]
          /\ ld' = ld \/ ld' = [ld EXCEPT ![cyc["main"]] = "main"]
      BY <1>1 DEF MatchNode
    <3>2. fdate' \in [Node -> Nat]
      <4>1. filetem \in Nat /\ fdate \in [Node -> Nat]
        BY DEF NodeType, LocalType
      <4> QED BY <3>1, <4>1
    <3>3. ld' \in [Node -> {"null", "main", "own", "dead", "lost"}]
      BY <3>1 DEF NodeType
    <3> QED BY <1>1, <3>2, <3>3 DEF MatchNode, NodeType
  <2>6. LocalType'
    BY <1>1 DEF MatchNode, LocalType
  <2> QED BY <2>3, <2>4, <2>5, <2>6
<1>2. CASE MatchEnd
  <2>1. run = "main" /\ "main" \notin incall /\ UNCHANGED <<run, resume, incall, entry>>
    BY <1>2, AtLabel DEF MatchEnd, Main, Methods
  <2>2. FrameType' /\ StackOK' /\ CursorOK'
    <3>1. CASE Goto("main", "go") /\ cyc' = cyc
      BY <2>1, <3>1, MoveSame, Labels DEF GamePcs, NodePcs, WalkPcs, EntryPcs
    <3>2. CASE GotoNode("main", "prune", cychead)
      BY <2>1, <3>2, Move, Labels DEF GlobalType, BindPcs, NodePcs, WalkPcs, EntryPcs
    <3> QED BY <1>2, <3>1, <3>2 DEF MatchEnd
  <2>3. ProcType' /\ NodeType' /\ GlobalType' /\ LocalType'
    BY <1>2, DataSame DEF MatchEnd, ProcType
  <2> QED BY <2>2, <2>3
<1>3. CASE Prune
  <2>1. run = "main" /\ "main" \notin incall /\ UNCHANGED <<run, resume, incall, entry>>
    BY <1>3, AtLabel DEF Prune, Main, Methods
  <2>2. cychead \in 0..N /\ (cyc["main"] # 0 => next[cyc["main"]] \in 0..N)
    BY NodeCursor DEF GlobalType
  <2>3. FrameType' /\ StackOK' /\ CursorOK'
    <3>1. \/ \E m \in 0..N, l \in {"prune", "init"} : GotoNode("main", l, m)
          \/ Goto("main", "unlink") /\ cyc["main"] # 0 /\ cyc' = cyc
      BY <1>3, <2>2 DEF Prune
    <3> QED BY <2>1, <3>1, Move, MoveSame, Labels DEF BindPcs, InitPcs, NodePcs, WalkPcs, EntryPcs
  <2>4. ProcType' /\ NodeType' /\ GlobalType'
    BY <1>3 DEF Prune, ProcType, NodeType, GlobalType
  <2>5. cycnext' \in 0..N
    BY <1>3, <2>2 DEF Prune, LocalType
  <2>6. LocalType'
    BY <1>3, <2>5 DEF Prune, LocalType
  <2> QED BY <2>3, <2>4, <2>6
<1>4. CASE Unlink
  <2>1. run = "main" /\ "main" \notin incall /\ UNCHANGED <<run, resume, incall, cyc, entry>>
    BY <1>4, AtLabel DEF Unlink, Main, Methods
  <2>2. cyc["main"] # 0 /\ next[cyc["main"]] \in 0..N
    BY <1>4, NodeCursor DEF Unlink, Main, At, NodePcs
  <2>3. FrameType' /\ StackOK' /\ CursorOK'
    <3>1. Goto("main", "free")
      BY <1>4 DEF Unlink
    <3> QED BY <2>1, <2>2, <3>1, MoveSame, Labels DEF BindPcs, EntryPcs
  <2>4. ProcType' /\ LocalType'
    BY <1>4 DEF Unlink, ProcType, LocalType
  <2>5. cychead' \in 0..N
    BY <1>4, <2>2 DEF Unlink, GlobalType
  <2>6. next' = next \/ \E BB \in Node : next' = [next EXCEPT ![BB] = next[cyc["main"]]]
    BY <1>4 DEF Unlink
  <2>7. next' \in [Node -> 0..N]
    BY <2>2, <2>6 DEF NodeType
  <2>8. GlobalType' /\ NodeType'
    BY <1>4, <2>5, <2>7 DEF Unlink, GlobalType, NodeType
  <2> QED BY <2>3, <2>4, <2>8
<1>5. CASE FreeNode
  <2>1. FrameType' /\ StackOK' /\ CursorOK'
    BY <1>5, Move, MoveSame, AtLabel, Labels, NodeCursor DEF FreeNode, Main, BindPcs, GamePcs,
           Methods,
         NodePcs, WalkPcs, EntryPcs, GlobalType, LocalType
  <2>2. ProcType' /\ NodeType' /\ GlobalType' /\ LocalType'
    BY <1>5, ZenonT(40) DEF FreeNode, ProcType, NodeType, GlobalType, LocalType
  <2> QED BY <2>1, <2>2
<1> QED BY <1>1, <1>2, <1>3, <1>4, <1>5 DEF BindStep

\* The TimeInit loop.
LEMMA InitTypes == TypeInv /\ InitStep => Typed'
<1> SUFFICES ASSUME TypeInv, InitStep PROVE Typed'
  OBVIOUS
<1> USE DEF Typed, TypeInv, TypeOK, heapVars, dataVars, listVars, fileVars, libVars, mainVars, histVars,
       procVars
<1>1. CASE TimeInit
  <2>1. FrameType' /\ StackOK' /\ CursorOK'
    BY <1>1, Enter, Leave DEF TimeInit, Methods
  <2>2. ProcType' /\ NodeType' /\ GlobalType' /\ LocalType'
    BY <1>1, ZenonT(40) DEF TimeInit, ProcType, NodeType, GlobalType, LocalType
  <2> QED BY <2>1, <2>2
<1>2. CASE TimeInitReturn
  <2>1. FrameType' /\ StackOK' /\ CursorOK'
    BY <1>2, Leave DEF TimeInitReturn, Methods
  <2>2. /\ keylen' = keylen \/ \E k \in -1..MaxKey : keylen' = [keylen EXCEPT ![cyc["main"]] = k]
        /\ ld' = ld \/ \E o \in {"main", "own"} : ld' = [ld EXCEPT ![cyc["main"]] = o]
    BY <1>2 DEF TimeInitReturn
  <2>3. keylen' \in [Node -> -1..MaxKey]
    <3>1. keylen \in [Node -> -1..MaxKey]
      BY DEF NodeType
    <3> QED BY <2>2, <3>1
  <2>6. ld' \in [Node -> {"null", "main", "own", "dead", "lost"}]
    BY <2>2 DEF NodeType
  <2>4. NodeType'
    BY <1>2, <2>3, <2>6 DEF TimeInitReturn, NodeType
  <2>5. ProcType' /\ GlobalType' /\ LocalType'
    BY <1>2 DEF TimeInitReturn, ProcType, GlobalType, LocalType
  <2> QED BY <2>1, <2>4, <2>5
<1>3. CASE InitNext
  <2>1. FrameType' /\ StackOK' /\ CursorOK'
    <3>1. CASE Main("initnext") /\ GotoNode("main", "init", next[cyc["main"]])
      <4>1. next[cyc["main"]] \in 0..N
        BY <3>1, NodeCursor DEF Main, At, NodePcs
      <4> QED BY <1>3, <3>1, <4>1, Move, AtLabel, Labels, Zenon
              DEF InitNext, Main, InitPcs, Methods, NodePcs, WalkPcs, EntryPcs
    <3>2. CASE Main("init") /\ cyc["main"] = 0 /\ cyc' = cyc /\ Goto("main", "pause")
      <4>1. run = "main" /\ "main" \notin incall
        BY <3>2 DEF Main, At, Moves, CursorOK
      <4> QED BY <1>3, <3>2, <4>1, MoveSame, Labels DEF InitNext, NodePcs, WalkPcs, EntryPcs
    <3> QED BY <1>3, <3>1, <3>2 DEF InitNext
  <2>2. ProcType' /\ NodeType' /\ GlobalType'
    BY <1>3, Zenon DEF InitNext, ProcType, NodeType, GlobalType
  <2>3. LocalType'
    BY <1>3 DEF InitNext, LocalType
  <2> QED BY <2>1, <2>2, <2>3
<1> QED BY <1>1, <1>2, <1>3 DEF InitStep

\* cycleTimeMethod.
LEMMA TickTypes == TypeInv /\ TickStep => Typed'
<1> SUFFICES ASSUME TypeInv, TickStep PROVE Typed'
  OBVIOUS
<1> USE DEF Typed, TypeInv, TypeOK, heapVars, dataVars, listVars, fileVars, libVars, mainVars, histVars,
       procVars
<1>1. CASE TickStart
  <2>1. run = "alrm" /\ "alrm" \notin incall /\ UNCHANGED <<incall, entry>>
    BY <1>1, AtLabel DEF TickStart, Methods
  <2>2. CASE HandlerReturn("alrm")
    <3>1. ProcType' /\ FrameType' /\ StackOK' /\ CursorOK'
      BY <2>1, <2>2, Back
    <3>2. NodeType' /\ GlobalType' /\ LocalType'
      BY <1>1 DEF TickStart, NodeType, GlobalType, LocalType
    <3> QED BY <3>1, <3>2
  <2>3. CASE /\ \E m \in 0..N : m # 0 /\ GotoNode("alrm", "count", m)
             /\ UNCHANGED procVars
    <3>1. FrameType' /\ StackOK' /\ CursorOK'
      BY <2>1, <2>3, Move, Labels DEF TickPcs, EntryPcs
    <3>2. ProcType' /\ NodeType' /\ GlobalType' /\ LocalType'
      BY <1>1, <2>3, ZenonT(40) DEF TickStart, ProcType, NodeType, GlobalType, LocalType
    <3> QED BY <3>1, <3>2
  <2> QED BY <1>1, <2>2, <2>3 DEF TickStart, GlobalType
<1>2. CASE Count
  <2>1. FrameType' /\ StackOK' /\ CursorOK'
    BY <1>2, MoveSame, AtLabel, Labels, NodeCursor DEF Count, TickPcs, Methods, NodePcs, EntryPcs
  <2>2. ProcType' /\ GlobalType' /\ LocalType'
    BY <1>2 DEF Count, ProcType, GlobalType, LocalType
  <2>3. cyc["alrm"] \in Node
    BY <1>2, NodeCursor DEF Count, At, NodePcs
  <2>4. vallen' = vallen \/ \E k \in 0..MaxKey : vallen' = [vallen EXCEPT ![cyc["alrm"]] = k]
    <3>1. vallen[cyc["alrm"]] \in 0..MaxKey /\ keylen[cyc["alrm"]] \in -1..MaxKey
      BY <2>3 DEF NodeType
    <3> QED BY <1>2, <3>1 DEF Count, Due
  <2>5. vallen' \in [Node -> 0..MaxKey]
    <3>1. vallen \in [Node -> 0..MaxKey]
      BY DEF NodeType
    <3> QED BY <2>4, <3>1
  <2>6. NodeType'
    BY <1>2, <2>5 DEF Count, NodeType
  <2> QED BY <2>1, <2>2, <2>6
<1>3. CASE TimeDo
  <2>1. FrameType' /\ StackOK' /\ CursorOK'
    BY <1>3, Enter, Leave DEF TimeDo, Methods
  <2>2. ProcType' /\ NodeType' /\ GlobalType' /\ LocalType'
    BY <1>3, ZenonT(40) DEF TimeDo, ProcType, NodeType, GlobalType, LocalType
  <2> QED BY <2>1, <2>2
<1>4. CASE TickNext
  <2>1. run = "alrm" /\ "alrm" \notin incall /\ UNCHANGED <<incall, entry>>
    BY <1>4, AtLabel DEF TickNext, Methods
  <2>2. CASE HandlerReturn("alrm")
    <3>1. ProcType' /\ FrameType' /\ StackOK' /\ CursorOK'
      BY <2>1, <2>2, Back
    <3>2. NodeType' /\ GlobalType' /\ LocalType'
      BY <1>4 DEF TickNext, NodeType, GlobalType, LocalType
    <3> QED BY <3>1, <3>2
  <2>3. CASE /\ \E m \in 0..N : m # 0 /\ GotoNode("alrm", "count", m)
             /\ UNCHANGED procVars
    <3>1. FrameType' /\ StackOK' /\ CursorOK'
      BY <2>1, <2>3, Move, Labels DEF TickPcs, EntryPcs
    <3>2. ProcType' /\ NodeType' /\ GlobalType' /\ LocalType'
      BY <1>4, <2>3, ZenonT(40) DEF TickNext, ProcType, NodeType, GlobalType, LocalType
    <3> QED BY <3>1, <3>2
  <2>4. next[cyc["alrm"]] \in 0..N
    BY <1>4, NodeCursor DEF TickNext, At, NodePcs
  <2> QED BY <1>4, <2>2, <2>3, <2>4 DEF TickNext
<1> QED BY <1>1, <1>2, <1>3, <1>4 DEF TickStep

\* gameover.
LEMMA GameTypes ==
  ASSUME TypeInv, NEW c \in {"main", "usr1"}, GameStep(c)
  PROVE  Typed'
<1> USE DEF Typed, TypeInv, TypeOK, heapVars, dataVars, listVars, fileVars, libVars, mainVars, histVars,
       procVars
<1>1. CASE GameOver(c)
  <2>1. run = c /\ c \notin incall /\ UNCHANGED <<incall, entry>>
    BY <1>1, AtLabel DEF GameOver, Methods
  <2>2. NodeType' /\ GlobalType' /\ LocalType'
    BY <1>1 DEF GameOver, NodeType, GlobalType, LocalType
  <2>3. CASE c = "usr1" /\ HandlerReturn(c)
    BY <2>1, <2>2, <2>3, Back
  <2>4. CASE Exit /\ UNCHANGED <<pc, cyc>>
    BY <2>1, <2>2, <2>4, Still DEF Exit, ProcType
  <2>5. CASE cychead # 0 /\ GotoNode(c, "go_log", cychead) /\ UNCHANGED procVars
    <3>1. FrameType' /\ StackOK' /\ CursorOK'
      BY <2>1, <2>5, Move, Labels DEF GlobalType, GamePcs, WalkPcs, EntryPcs
    <3>2. ProcType'
      BY <2>5 DEF ProcType
    <3> QED BY <2>2, <3>1, <3>2
  <2> QED BY <1>1, <2>3, <2>4, <2>5 DEF GameOver
<1>2. CASE GoLog(c)
  <2>1. FrameType' /\ StackOK' /\ CursorOK'
    BY <1>2, Move, MoveSame, AtLabel, Labels, NodeCursor, Zenon
           DEF GoLog, GamePcs, LastPcs, Methods, NodePcs, WalkPcs, EntryPcs, GlobalType
  <2>2. ProcType' /\ NodeType' /\ GlobalType' /\ LocalType'
    BY <1>2, ZenonT(40) DEF GoLog, ProcType, NodeType, GlobalType, LocalType
  <2> QED BY <2>1, <2>2
<1>3. CASE GoLd(c)
  <2>1. FrameType' /\ StackOK' /\ CursorOK'
    BY <1>3, Move, MoveSame, AtLabel, Labels, NodeCursor DEF GoLd, GamePcs, LastPcs, Methods,
           NodePcs, WalkPcs, EntryPcs, GlobalType
  <2>2. ProcType' /\ NodeType' /\ GlobalType' /\ LocalType'
    BY <1>3, ZenonT(40) DEF GoLd, ProcType, NodeType, GlobalType, LocalType
  <2> QED BY <2>1, <2>2
<1>4. CASE TimeDel(c)
  <2>1. FrameType' /\ StackOK' /\ CursorOK'
    BY <1>4, Enter, Leave DEF TimeDel, Methods
  <2>2. ProcType'
    BY <1>4 DEF TimeDel, ProcType
  <2>3. NodeType'
    BY <1>4 DEF TimeDel, NodeType
  <2>4. GlobalType'
    BY <1>4 DEF TimeDel, GlobalType
  <2>5. LocalType'
    <3>1. released' \in [Node -> Nat]
      <4>1. released \in [Node -> Nat] /\ cyc[c] \in 0..N
        BY NodeCursor DEF LocalType
      <4>2. cyc[c] \in Node
        BY <1>4, <4>1 DEF TimeDel, Invoke
      <4>3. (IF c \in incall' THEN released[cyc[c]] + 1 ELSE released[cyc[c]]) \in Nat
        BY <4>1, <4>2
      <4> QED BY <1>4, <4>1, <4>3 DEF TimeDel
    <3> QED BY <1>4, <3>1 DEF TimeDel, LocalType
  <2> QED BY <2>1, <2>2, <2>3, <2>4, <2>5
<1>5. CASE TimeDelReturn(c)
  <2>1. FrameType' /\ StackOK' /\ CursorOK'
    BY <1>5, Enter, Leave DEF TimeDelReturn, Methods
  <2>2. ProcType' /\ NodeType' /\ GlobalType' /\ LocalType'
    BY <1>5, ZenonT(40) DEF TimeDelReturn, ProcType, NodeType, GlobalType, LocalType
  <2> QED BY <2>1, <2>2
<1>6. CASE GoDlclose(c)
  <2>1. FrameType' /\ StackOK' /\ CursorOK'
    BY <1>6, Move, MoveSame, AtLabel, Labels, NodeCursor DEF GoDlclose, GamePcs, LastPcs, Methods,
           NodePcs, WalkPcs, EntryPcs, GlobalType
  <2>2. ProcType' /\ NodeType' /\ GlobalType' /\ LocalType'
    BY <1>6, ZenonT(40) DEF GoDlclose, ProcType, NodeType, GlobalType, LocalType
  <2> QED BY <2>1, <2>2
<1>7. CASE GoFree(c)
  <2>1. FrameType' /\ StackOK' /\ CursorOK'
    BY <1>7, Move, MoveSame, AtLabel, Labels, NodeCursor, Zenon
           DEF GoFree, GamePcs, LastPcs, Methods, NodePcs, WalkPcs, EntryPcs, GlobalType
  <2>2. ProcType' /\ NodeType' /\ GlobalType' /\ LocalType'
    BY <1>7, ZenonT(40) DEF GoFree, ProcType, NodeType, GlobalType, LocalType
  <2> QED BY <2>1, <2>2
<1>8. CASE GoClear(c)
  <2>1. FrameType' /\ StackOK' /\ CursorOK'
    BY <1>8, Move, MoveSame, AtLabel, Labels, NodeCursor DEF GoClear, GamePcs, LastPcs, Methods,
           NodePcs, WalkPcs, EntryPcs, GlobalType
  <2>2. ProcType'
    BY <1>8 DEF GoClear, ProcType
  <2>3. NodeType'
    BY <1>8 DEF GoClear, NodeType
  <2>4. GlobalType'
    <3>1. cychead' \in 0..N /\ cycheadnext' \in 0..N
      BY <1>8 DEF GoClear
    <3>2. blocks' \in Confs \cup {<< >>}
      BY <1>8, Zenon DEF GoClear
    <3> QED BY <1>8, <3>1, <3>2 DEF GoClear, GlobalType
  <2>5. LocalType'
    BY <1>8 DEF GoClear, LocalType
  <2> QED BY <2>1, <2>2, <2>3, <2>4, <2>5
<1>9. CASE GoLogDel(c)
  <2>1. FrameType' /\ StackOK' /\ CursorOK'
    BY <1>9, Move, MoveSame, AtLabel, Labels, NodeCursor DEF GoLogDel, GamePcs, LastPcs, Methods,
           NodePcs, WalkPcs, EntryPcs, GlobalType
  <2>2. ProcType' /\ NodeType' /\ GlobalType' /\ LocalType'
    BY <1>9 DEF GoLogDel, ProcType, NodeType, GlobalType, LocalType
  <2> QED BY <2>1, <2>2
<1>10. CASE GoExit(c)
  <2>1. FrameType' /\ StackOK' /\ CursorOK'
    BY <1>10, Still DEF GoExit, Exit
  <2>2. ProcType' /\ NodeType' /\ GlobalType' /\ LocalType'
    BY <1>10 DEF GoExit, ProcType, NodeType, GlobalType, LocalType, Exit
  <2> QED BY <2>1, <2>2
<1> QED BY <1>1, <1>2, <1>3, <1>4, <1>5, <1>6, <1>7, <1>8, <1>9, <1>10 DEF GameStep


\* The timer, a stop request and the delivery of a signal.
LEMMA SignalTypes ==
  ASSUME TypeInv, Tick \/ Stop \/ \E h \in Handlers : Deliver(h)
  PROVE  Typed'
<1> USE DEF Typed, TypeInv, TypeOK, heapVars, dataVars, listVars, fileVars, libVars, mainVars, histVars
<1>1. NodeType' /\ GlobalType' /\ LocalType'
  <2>1. UNCHANGED <<heapVars, mainVars, histVars>>
    BY DEF Tick, Stop, Deliver
  <2> QED BY <2>1, DataSame DEF TypeInv
<1>2. CASE Tick \/ Stop
  BY <1>1, <1>2, Still DEF Tick, Stop, ProcType
<1>3. ASSUME NEW h \in Handlers, Deliver(h) PROVE Typed'
  <2>1. /\ DOMAIN pc' = Frames /\ \A d \in Frames \ {h} : pc'[d] = pc[d]
        /\ pc'[h] = IF h = "alrm" THEN "tick" ELSE "go"
    BY <1>3 DEF Deliver, Goto, FrameType
  <2>2. /\ resume[h] = "none" /\ resume'[h] = run /\ run' = h
        /\ resume' \in [Handlers -> Frames \cup {"none"}]
        /\ \A d \in Handlers \ {h} : resume'[d] = resume[d]
    BY <1>3 DEF Deliver, ProcType
  <2>3. ProcType'
    BY <1>3, <2>2 DEF Deliver, ProcType
  <2>4. FrameType'
    BY <1>3, <2>1, Labels DEF Deliver, FrameType, TickPcs, GamePcs
  <2>5. CursorOK'
    BY <1>3, <2>1 DEF Deliver, CursorOK, NodePcs, WalkPcs
  <2>6. StackOK'
    <3>1. \A d \in Handlers : resume'[d] = "none" <=> pc'[d] = "idle"
      BY <2>1, <2>2 DEF StackOK, ProcType
    <3>2. h \notin incall
      BY <2>2 DEF StackOK, Methods
    <3>3. \A d \in incall' : pc'[d] \in Methods
      BY <1>3, <2>1, <3>2 DEF Deliver, FrameType, StackOK
    <3> QED BY <2>2, <3>1, <3>3 DEF StackOK
  <2> QED BY <1>1, <2>3, <2>4, <2>5, <2>6
<1> QED BY <1>2, <1>3

\* A fault, and the end of the process, change nothing a type depends on.
LEMMA FaultTypes ==
  ASSUME TypeInv, (\E c \in Frames : Fault(c)) \/ UNCHANGED vars
  PROVE  Typed'
<1> USE DEF vars, procVars, heapVars, dataVars, listVars, fileVars, libVars, mainVars, histVars
<1>1. NodeType' /\ GlobalType' /\ LocalType'
  BY DEF Fault, TypeInv, TypeOK, NodeType, GlobalType, LocalType
<1>2. ProcType'
  BY DEF Fault, TypeInv, TypeOK, ProcType
<1>3. FrameType' /\ StackOK' /\ CursorOK'
  BY Still DEF Fault
<1> QED BY <1>1, <1>2, <1>3 DEF Typed, TypeInv, TypeOK

-----------------------------------------------------------------------------
(***************************************************************************)
(* logLog.                                                                 *)
(***************************************************************************)
\* A line of a log and its end.
LEMMA LogTypes ==
  ASSUME TypeInv, NEW c \in Frames, MethodLog(c) \/ LogDone(c)
  PROVE  Typed'
<1> USE DEF Typed, TypeInv, TypeOK, heapVars, dataVars, listVars, fileVars, libVars, mainVars,
       histVars, procVars
<1>1. FrameType' /\ StackOK' /\ CursorOK'
  BY Still DEF MethodLog, LogDone
<1>2. ProcType' /\ LocalType'
  BY DEF MethodLog, LogDone, ProcType, LocalType
<1>3. ld' = ld \/ ld' = [ld EXCEPT ![cyc[c]] = "lost"]
  BY DEF MethodLog, LogDone
<1>4. NodeType'
  BY <1>3 DEF MethodLog, LogDone, NodeType
<1>5. GlobalType'
  BY DEF MethodLog, LogDone, GlobalType
<1> QED BY <1>1, <1>2, <1>4, <1>5

\* Frame c, which is neither idle nor done with the list, begins or ends a line.
LEMMA LogMoves ==
  ASSUME TypeInv, NEW c \in Frames,
         logging' = logging \/ \E v \in {"no", "time", "wait"} : logging' = [logging EXCEPT ![c] = v],
         pc'[c] \in {"idle"} \cup LastPcs => logging'[c] = "no",
         \A d \in Frames \ {c} : pc'[d] = pc[d]
  PROVE  LogType' /\ LogOK'
<1>1. LogType'
  BY DEF TypeInv, TypeOK, LogType
<1>2. \A d \in Frames \ {c} : logging'[d] = logging[d]
  BY DEF TypeInv, TypeOK, LogType
<1> QED BY <1>1, <1>2 DEF TypeInv, LogOK

\* What Logs and Silent do to the frame that takes the step.
LEMMA LogsOne ==
  ASSUME NEW c \in Frames, Logs(c) \/ Silent
  PROVE  logging' = logging \/ \E v \in {"no", "time", "wait"} : logging' = [logging EXCEPT ![c] = v]
BY DEF Logs, Silent

\* main never gets to the labels in question but from gameover.
LEMMA MainLogs == TypeInv /\ MainStep => LogType' /\ LogOK'
<1> SUFFICES ASSUME TypeInv, MainStep PROVE LogType' /\ LogOK'
  OBVIOUS
<1> USE DEF heapVars, mainVars, histVars, procVars
<1>1. Logs("main") \/ Silent
  <2>1. CASE LoadStep
    BY <2>1 DEF LoadStep, Start, SigAction, SetTimer, LoadFile, ReadFile, OpenDir, ReadDir, DlSym,
                CycMake, Link, SetTail, Wire, DirEnd, LogsError, Silent
  <2>2. CASE BindStep
    BY <2>2 DEF BindStep, MatchNode, MatchEnd, Prune, Unlink, FreeNode, LogsError, LogsPrune, Silent
  <2>3. CASE InitStep
    BY <2>3 DEF InitStep, TimeInit, TimeInitReturn, InitNext, Invoke, Return, Silent
  <2> QED BY <2>1, <2>2, <2>3 DEF MainStep
<1>2. /\ pc["main"] \in LoadPcs \cup BindPcs \cup InitPcs
      /\ pc' = pc \/ \E l \in LoadPcs \cup BindPcs \cup InitPcs \cup {"pause", "go"} : Goto("main", l)
  <2>1. CASE LoadStep
    BY <2>1 DEF LoadStep, Start, SigAction, SetTimer, LoadFile, ReadFile, OpenDir, ReadDir, DlSym,
                CycMake, Link, SetTail, Wire, DirEnd, LoadPcs, BindPcs, GotoNode, Main, At
  <2>2. CASE BindStep
    BY <2>2 DEF BindStep, MatchNode, MatchEnd, Prune, Unlink, FreeNode, BindPcs, InitPcs, GotoNode,
                Main, At
  <2>3. CASE InitStep
    BY <2>3 DEF InitStep, TimeInit, TimeInitReturn, InitNext, Invoke, Return, AfterCall,
           OnError, InitPcs, GotoNode, Main, At
  <2> QED BY <2>1, <2>2, <2>3 DEF MainStep
<1>3. /\ pc'["main"] \notin {"idle"} \cup LastPcs /\ \A d \in Frames \ {"main"} : pc'[d] = pc[d]
  BY <1>2 DEF Goto, TypeInv, TypeOK, FrameType, LoadPcs, BindPcs, InitPcs, LastPcs
<1> QED BY <1>1, <1>3, LogsOne, LogMoves

\* The timer handler and gameover come there with no line begun.
LEMMA HandlerLogs ==
  ASSUME TypeInv, NEW c \in Frames, (c = "alrm" /\ TickStep) \/ (c # "alrm" /\ GameStep(c))
  PROVE  LogType' /\ LogOK'
<1> USE DEF heapVars, mainVars, histVars, procVars
<1>1. CASE \/ c = "alrm" /\ (TickStart \/ Count \/ TickNext)
           \/ c # "alrm" /\ \/ GameOver(c) \/ GoLog(c) \/ GoLd(c) \/ GoDlclose(c)
                            \/ GoFree(c) \/ GoClear(c) \/ GoLogDel(c) \/ GoExit(c)
  <2>1. logging' = logging /\ logging[c] = "no"
    BY <1>1 DEF TickStart, Count, TickNext, GameOver, GoLog, GoLd, GoDlclose, GoFree, GoClear,
           GoLogDel, GoExit, At
  <2>2. pc' = pc \/ \E l : Goto(c, l)
    BY <1>1 DEF TickStart, Count, TickNext, GameOver, GoLog, GoLd, GoDlclose, GoFree, GoClear,
           GoLogDel, GoExit, HandlerReturn, GotoNode
  <2>3. \A d \in Frames \ {c} : pc'[d] = pc[d]
    BY <2>2 DEF Goto, TypeInv, TypeOK, FrameType
  <2> QED BY <2>1, <2>3, LogMoves
<1>2. ASSUME NEW l \in {"seach", "howdo", "send", "deldate"}, Invoke(c, l) \/ Return(c, l)
      PROVE  LogType' /\ LogOK'
  <2>1. Logs(c) \/ Silent
    BY <1>2 DEF Invoke, Return
  <2>2. /\ pc[c] = l
        /\ pc' = pc \/ \E k \in {"howdo", "send", "next", "go_dl"} : Goto(c, k)
    BY <1>2 DEF Invoke, Return, At, AfterCall, OnError
  <2>3. pc'[c] \notin {"idle"} \cup LastPcs /\ \A d \in Frames \ {c} : pc'[d] = pc[d]
    BY <2>2 DEF Goto, TypeInv, TypeOK, FrameType, LastPcs
  <2> QED BY <2>1, <2>3, LogsOne, LogMoves
<1>3. CASE c = "alrm" /\ TickStep
  <2>1. CASE TimeDo
    <3>1. \E l \in {"seach", "howdo", "send"} : Invoke(c, l) \/ Return(c, l)
      BY <1>3, <2>1 DEF TimeDo
    <3> QED BY <1>2, <3>1
  <2>2. CASE TickStart \/ Count \/ TickNext
    BY <1>1, <1>3, <2>2, Zenon
  <2> QED BY <1>3, <2>1, <2>2 DEF TickStep
<1>4. CASE c # "alrm" /\ GameStep(c)
  BY <1>1, <1>2, <1>4 DEF GameStep, TimeDel, TimeDelReturn
<1> QED BY <1>3, <1>4

\* Signals, the lines of the log themselves, and steps that leave logLog alone.
LEMMA OtherLogs ==
  ASSUME TypeInv,
         \/ Tick \/ Stop \/ \E h \in Handlers : Deliver(h)
         \/ \E c \in Frames : MethodLog(c) \/ LogDone(c) \/ Fault(c)
         \/ UNCHANGED vars
  PROVE  LogType' /\ LogOK'
<1>1. CASE Tick \/ Stop \/ (\E c \in Frames : Fault(c)) \/ UNCHANGED vars
  BY <1>1 DEF Tick, Stop, Fault, vars, TypeInv, TypeOK, LogType, LogOK
<1>2. ASSUME NEW h \in Handlers, Deliver(h) PROVE LogType' /\ LogOK'
  <2>1. Logs(h) \/ Silent
    BY <1>2 DEF Deliver
  <2>2. pc'[h] \in {"tick", "go"} /\ \A d \in Frames \ {h} : pc'[d] = pc[d]
    BY <1>2 DEF Deliver, Goto, TypeInv, TypeOK, FrameType
  <2> QED BY <2>1, <2>2, LogsOne, LogMoves DEF LastPcs
<1>3. ASSUME NEW c \in Frames, MethodLog(c) PROVE LogType' /\ LogOK'
  <2>1. Logs(c) /\ pc' = pc /\ pc[c] \in Methods
    BY <1>3 DEF MethodLog, TypeInv, StackOK
  <2> QED BY <2>1, LogsOne, LogMoves DEF Methods, LastPcs
<1>4. ASSUME NEW c \in Frames, LogDone(c) PROVE LogType' /\ LogOK'
  <2>1. logging' = [logging EXCEPT ![c] = "no"] /\ pc' = pc
    BY <1>4 DEF LogDone
  <2>2. logging'[c] = "no"
    BY <2>1 DEF TypeInv, TypeOK, LogType
  <2> QED BY <2>1, <2>2, LogMoves
<1> QED BY <1>1, <1>2, <1>3, <1>4

\* Every step.
LEMMA StepTypes == TypeInv /\ [Next]_vars => TypeInv'
<1> SUFFICES ASSUME TypeInv, [Next]_vars PROVE TypeInv'
  OBVIOUS
<1>1. Typed'
  BY SignalTypes, FaultTypes, LoadTypes, BindTypes, InitTypes, TickTypes, GameTypes, LogTypes
     DEF Next, MainStep, Ended
<1>2. LogType' /\ LogOK'
  BY OtherLogs, MainLogs, HandlerLogs DEF Next, Ended
<1> QED BY <1>1, <1>2 DEF Typed, TypeInv, TypeOK

\* Every reachable state is well typed, the frames of the process form one of
\* five stacks, and main, cycleTimeMethod and gameover never follow a NULL
\* cursor: the type invariant of the daemon.
THEOREM TypeCorrect == Spec => []TypeOK
<1>1. Spec => []TypeInv
  BY InitTypeInv, StepTypes, PTL DEF Spec
<1>2. TypeInv => TypeOK
  BY DEF TypeInv
<1> QED BY <1>1, <1>2, PTL

=============================================================================
