----------------------- MODULE TimeDaemonSafetyProofs -----------------------
(***************************************************************************)
(* The list of libraries is intact whatever a signal interrupts, and       *)
(* undefined behaviour needs a handler that interrupts a gameover or a log *)
(* that could not be opened again: proofs for every number of libraries,   *)
(* every configuration and every cycle time.                               *)
(***************************************************************************)
EXTENDS TimeDaemonProofs

USE NAssumption, MaxKeyAssumption, ExportAssumption, ConfAssumption
USE DEF Node, Handlers, Frames

-----------------------------------------------------------------------------
(***************************************************************************)
(* What the type invariant says of the stack.                              *)
(***************************************************************************)
\* While main runs no handler is active and at most main is in a method.
LEMMA MainRuns ==
  ASSUME TypeInv, run = "main"
  PROVE  pc["alrm"] = "idle" /\ pc["usr1"] = "idle" /\ incall \subseteq {"main"}
BY DEF TypeInv, TypeOK, ProcType, FrameType, StackOK, Methods

\* The label a Goto leads to, and the labels of the other frames.
LEMMA GotoLabel ==
  ASSUME TypeInv, NEW c \in Frames, NEW l, Goto(c, l)
  PROVE  pc'[c] = l /\ \A d \in Frames \ {c} : pc'[d] = pc[d]
BY DEF Goto, TypeInv, TypeOK, FrameType

\* The same for the cursor.
LEMMA GotoCursor ==
  ASSUME TypeInv, NEW c \in Frames, NEW l, NEW m, GotoNode(c, l, m)
  PROVE  /\ pc'[c] = l /\ \A d \in Frames \ {c} : pc'[d] = pc[d]
         /\ cyc'[c] = m /\ \A d \in Frames \ {c} : cyc'[d] = cyc[d]
BY DEF GotoNode, Goto, TypeInv, TypeOK, FrameType

\* With nothing in hand the linked nodes are the live ones.
LEMMA AllLinked ==
  pc["main"] \notin {"link", "free"} => Linked = {m \in Node : heap[m] = "live"}
BY DEF Linked, InHand

-----------------------------------------------------------------------------
(***************************************************************************)
(* The next step of the running frame is undefined only for a log that     *)
(* logLog has deleted.                                                     *)
(***************************************************************************)
\* Outside gameover.
LEMMA IntactDefined ==
  ASSUME TypeInv, Intact, ListInv, NEW c \in Frames, run = c, Undefined(c)
  PROVE  UsesLost(c)
<1>1. \A m \in Linked : m \in Node /\ heap[m] = "live"
  BY DEF Linked
<1>2. pc[c] \in CursorPcs /\ cyc[c] # 0 => cyc[c] \in Linked
  <2>1. CASE c = "main"
    BY <2>1 DEF CursorPcs, ListInv, CursorsLinked, Intact, Tearing, TypeInv, TypeOK, FrameType,
           FramePcs, LoadPcs, BindPcs, InitPcs, GamePcs, WalkPcs, LastPcs
  <2>2. CASE c = "alrm"
    BY <2>2 DEF CursorPcs, ListInv, CursorsLinked, TypeInv, TypeOK, FrameType, FramePcs, TickPcs,
           WalkPcs
  <2>3. CASE c = "usr1"
    BY <2>3 DEF CursorPcs, Intact, Tearing, TypeInv, TypeOK, FrameType, FramePcs, GamePcs,
           WalkPcs, LastPcs
  <2> QED BY <2>1, <2>2, <2>3
<1>3. pc[c] = "link" /\ cychead # 0 => cycheadnext \in Linked
  <2>1. ASSUME pc[c] = "link" PROVE c = "main"
    BY <2>1 DEF TypeInv, TypeOK, FrameType, FramePcs, TickPcs, GamePcs, WalkPcs, LastPcs
  <2> QED BY <2>1 DEF ListInv, TailOK, LoadPcs
<1>4. c \in incall => cyc[c] \in mapped
  <2>1. ASSUME c \in incall PROVE pc[c] \in CursorPcs /\ cyc[c] # 0 /\ fn[cyc[c]] # {}
    BY <2>1 DEF TypeInv, StackOK, CursorOK, Methods, CursorPcs, WalkPcs, ListInv, CursorsLinked
  <2> QED BY <1>2, <2>1 DEF ListInv, NodesOK
<1>5. mainld # "dead" /\ \A m \in Linked : ld[m] # "dead"
  BY DEF ListInv, NodesOK
<1>6. pc[c] = "go_log" => pc[c] \in CursorPcs
  BY DEF CursorPcs, WalkPcs
<1>7. cycheadnext \in Linked => cycheadnext # 0
  BY <1>1
<1>8. c \in incall => cyc[c] \in Linked
  BY <1>2 DEF TypeInv, StackOK, CursorOK, Methods, CursorPcs, WalkPcs
<1>9. LogOf(c) # "dead"
  BY <1>5, <1>8 DEF LogOf
<1>10. pc[c] \notin LastPcs
  BY DEF Intact, Tearing, TypeInv, TypeOK, FrameType, FramePcs, TickPcs, LastPcs
<1> QED BY <1>1, <1>2, <1>3, <1>4, <1>5, <1>6, <1>7, <1>9, <1>10
        DEF Undefined, UsesLost, LogDeleted, Deleted, LastPcs

\* In a gameover that no other gameover has interrupted or was interrupted by.
LEMMA WalkDefined ==
  ASSUME TypeInv, NEW c \in {"main", "usr1"}, Tearing(c), WalkInv(c), run = c, Undefined(c)
  PROVE  UsesLost(c)
<1>1. pc[c] \in WalkPcs => cyc[c] \in Linked /\ heap[cyc[c]] = "live"
  BY DEF WalkInv, IsList, Linked, TypeInv, CursorOK, NodePcs
<1>2. pc[c] \in CursorPcs => pc[c] \in WalkPcs
  BY DEF Tearing, CursorPcs, WalkPcs, LastPcs
<1>3. c \in incall => pc[c] = "deldate" /\ pc[c] \in WalkPcs
  BY DEF TypeInv, StackOK, Methods, Tearing, WalkPcs, LastPcs
<1>4. c \in incall => cyc[c] \in mapped
  BY <1>1, <1>3 DEF WalkInv
<1>5. pc[c] # "link"
  BY DEF Tearing, WalkPcs, LastPcs
<1>6. pc[c] = "go_log" /\ cyc[c] # 0 => ld[cyc[c]] # "dead"
  BY <1>1 DEF WalkInv, WalkPcs
<1>7. pc[c] # "go_exit" => mainld # "dead"
  BY DEF WalkInv
<1>8. logging[c] # "no" => pc[c] # "go_exit" /\ LogOf(c) # "dead"
  BY <1>1, <1>3 DEF WalkInv, LogOf, TypeInv, LogOK, LastPcs
<1> QED BY <1>1, <1>2, <1>4, <1>5, <1>6, <1>7, <1>8 DEF Undefined, UsesLost, LogDeleted, Deleted

-----------------------------------------------------------------------------
(***************************************************************************)
(* The steps of main keep the list, its nodes and the cursors as they      *)
(* should be, as long as no gameover has begun.                            *)
(***************************************************************************)
QuietPcs == {"sigaction", "setitimer", "loadFile", "readFile", "opendir", "readdir", "go"}

\* A step of main that touches neither the list nor the libraries, before
\* toSetCycdata or into gameover.
LEMMA QuietStep ==
  ASSUME TypeInv, ListInv, run = "main", "main" \notin incall,
         UNCHANGED <<heap, next, fn, ld, cychead, cycheadnext, entry, incall, mapped>>,
         mainld' # "dead", NEW l \in QuietPcs, Goto("main", l),
         pc["main"] \in LoadPcs \ {"link", "tail"} \/ (l = "go" /\ pc["main"] \notin {"link", "free"})
  PROVE  ListInv'
<1>1. pc'["main"] = l /\ pc'["alrm"] = "idle" /\ incall' = {}
  BY MainRuns, GotoLabel
<1>2. Linked' = Linked
  BY <1>1 DEF Linked, InHand, QuietPcs, LoadPcs
<1>3. IsList(cychead, Linked)'
  BY <1>2 DEF ListInv, IsList
<1>4. NodesOK'
  BY <1>2 DEF ListInv, NodesOK
<1>5. FreshOK'
  BY <1>1 DEF ListInv, FreshOK, QuietPcs, EntryPcs
<1>6. TailOK'
  BY <1>1, <1>2 DEF ListInv, TailOK, QuietPcs, LoadPcs
<1>7. CursorsLinked'
  BY <1>1 DEF CursorsLinked, QuietPcs, TickPcs
<1> QED BY <1>3, <1>4, <1>5, <1>6, <1>7 DEF ListInv

\* main from the start of the program to the end of loadLib.
LEMMA LoadInv ==
  ASSUME TypeInv, ListInv, LoadStep
  PROVE  ListInv'
<1> USE DEF procVars, heapVars, dataVars, listVars, fileVars, libVars, mainVars, histVars
<1>0. run = "main" /\ "main" \notin incall /\ pc["alrm"] = "idle" /\ incall = {} /\ incall' = incall
  <2>1. run = "main" /\ pc["main"] \notin Methods
    BY DEF LoadStep, Start, SigAction, SetTimer, LoadFile, ReadFile, OpenDir, ReadDir, DlSym,
           CycMake, Link, SetTail, Wire, DirEnd, Main, At, Moves, Methods
  <2>2. incall' = incall
    BY DEF LoadStep, Start, SigAction, SetTimer, LoadFile, ReadFile, OpenDir, ReadDir, DlSym,
           CycMake, Link, SetTail, Wire, DirEnd
  <2> QED BY <2>1, <2>2, MainRuns DEF TypeInv, StackOK
<1>1. CASE Start \/ SigAction \/ SetTimer \/ LoadFile \/ ReadFile \/ OpenDir
  <2>1. /\ UNCHANGED <<heap, next, fn, ld, cychead, cycheadnext, entry, cycnext, mapped>>
        /\ mainld' # "dead"
    BY <1>1 DEF Start, SigAction, SetTimer, LoadFile, ReadFile, OpenDir, ListInv, NodesOK
  <2>2. pc["main"] \in LoadPcs \ {"link", "tail"}
    BY <1>1 DEF Start, SigAction, SetTimer, LoadFile, ReadFile, OpenDir, Main, At, Moves, LoadPcs
  <2>3. CASE \E l \in QuietPcs : Goto("main", l)
    BY <1>0, <2>1, <2>2, <2>3, QuietStep
  <2>4. CASE UNCHANGED <<pc, cyc, mainld>>
    <3>1. Linked' = Linked
      BY <1>1, <2>1, <2>4 DEF Linked, InHand, Start, SigAction, SetTimer, LoadFile, ReadFile,
             OpenDir
    <3>2. IsList(cychead, Linked)' /\ NodesOK'
      BY <2>1, <3>1 DEF ListInv, IsList, NodesOK
    <3>3. FreshOK' /\ TailOK'
      BY <2>1, <2>4, <3>1 DEF ListInv, FreshOK, TailOK
    <3>4. CursorsLinked'
      BY <1>0, <2>1, <2>4, <3>1 DEF ListInv, CursorsLinked
    <3> QED BY <3>2, <3>3, <3>4 DEF ListInv
  <2> QED BY <1>1, <2>3, <2>4 DEF Start, SigAction, SetTimer, LoadFile, ReadFile, OpenDir, QuietPcs
<1>2. CASE ReadDir
  <2>1. pc["main"] = "readdir" /\ entry \in 0..N /\ entry' = entry + 1 /\ entry + 1 \in Node
    BY <1>2 DEF ReadDir, Main, At, Moves, TypeInv, TypeOK, LocalType
  <2>2. /\ pc'["main"] \in {"readdir", "go", "dlsym"} /\ pc'["alrm"] = "idle"
        /\ pc'["main"] = "dlsym" => entry' \in mapped'
    BY <1>0, <1>2, <2>1, GotoLabel DEF ReadDir
  <2>3. UNCHANGED <<heap, next, fn, ld, cychead, cycheadnext, mainld>> /\ mapped \subseteq mapped'
    BY <1>2 DEF ReadDir
  <2>4. Linked' = Linked
    BY <2>1, <2>2, <2>3 DEF Linked, InHand
  <2>5. IsList(cychead, Linked)' /\ NodesOK'
    BY <2>3, <2>4 DEF ListInv, IsList, NodesOK
  <2>6. FreshOK'
    BY <2>1, <2>2, <2>3 DEF ListInv, FreshOK, EntryPcs
  <2>7. TailOK'
    BY <2>1, <2>2, <2>3, <2>4 DEF ListInv, TailOK, LoadPcs
  <2>8. CursorsLinked'
    BY <1>0, <2>2 DEF CursorsLinked, TickPcs
  <2> QED BY <2>5, <2>6, <2>7, <2>8 DEF ListInv
<1>3. CASE DlSym
  <2>1. pc["main"] = "dlsym" /\ heap[entry] = "none" /\ UNCHANGED <<heap, next, fn, ld, cychead,
         cycheadnext, mainld, entry>>
    BY <1>3 DEF DlSym, Main, At, Moves, ListInv, FreshOK
  <2>2. /\ pc'["main"] \in {"go", "cycmake"} /\ pc'["alrm"] = "idle"
        /\ pc'["main"] = "cycmake" => mapped' = mapped
        /\ mapped \ {entry} \subseteq mapped'
    BY <1>0, <1>3, GotoLabel DEF DlSym
  <2>3. Linked' = Linked /\ entry \notin Linked
    BY <2>1, <2>2 DEF Linked, InHand
  <2>4. IsList(cychead, Linked)' /\ NodesOK'
    BY <2>1, <2>2, <2>3 DEF ListInv, IsList, NodesOK
  <2>5. FreshOK'
    BY <2>1, <2>2 DEF ListInv, FreshOK, EntryPcs
  <2>6. TailOK'
    BY <2>1, <2>2, <2>3 DEF ListInv, TailOK, LoadPcs
  <2>7. CursorsLinked'
    BY <1>0, <2>2 DEF CursorsLinked, TickPcs
  <2> QED BY <2>4, <2>5, <2>6, <2>7 DEF ListInv
<1>4. CASE CycMake
  <2>1. /\ pc["main"] = "cycmake" /\ entry \in Node /\ heap[entry] = "none" /\ entry \in mapped
        /\ UNCHANGED <<next, fn, ld, cychead, cycheadnext, mainld, entry, mapped>>
    BY <1>4 DEF CycMake, Main, At, Moves, ListInv, FreshOK, EntryPcs, TypeInv, TypeOK, LocalType, CursorOK
  <2>2. CASE heap' = heap /\ Goto("main", "go")
    BY <1>0, <2>1, <2>2, QuietStep DEF QuietPcs, LoadPcs, ListInv, NodesOK
  <2>3. CASE heap' = [heap EXCEPT ![entry] = "live"] /\ Goto("main", "link")
    <3>1. pc'["main"] = "link" /\ pc'["alrm"] = "idle"
      BY <1>0, <2>3, GotoLabel
    <3>2. heap'[entry] = "live" /\ \A m \in Node \ {entry} : heap'[m] = heap[m]
      BY <2>1, <2>3 DEF TypeInv, TypeOK, NodeType
    <3>3. Linked' = Linked
      BY <2>1, <3>1, <3>2 DEF Linked, InHand
    <3>4. IsList(cychead, Linked)' /\ NodesOK'
      BY <2>1, <3>3 DEF ListInv, IsList, NodesOK
    <3>5. FreshOK'
      BY <2>1, <3>1, <3>2 DEF ListInv, FreshOK, EntryPcs
    <3>6. TailOK'
      BY <2>1, <3>1, <3>3 DEF ListInv, TailOK, LoadPcs
    <3>7. CursorsLinked'
      BY <1>0, <3>1 DEF CursorsLinked, TickPcs
    <3> QED BY <3>4, <3>5, <3>6, <3>7 DEF ListInv
  <2> QED BY <1>4, <2>2, <2>3 DEF CycMake
<1>5. CASE Link
  <2>1. /\ pc["main"] = "link" /\ entry \in Node /\ heap[entry] = "live" /\ entry \in mapped
        /\ next[entry] = 0 /\ fn[entry] = {} /\ ld[entry] = "null"
        /\ UNCHANGED <<heap, fn, ld, cycheadnext, mainld, entry, mapped>>
    BY <1>5 DEF Link, Main, At, Moves, ListInv, FreshOK, EntryPcs, TypeInv, TypeOK, LocalType, CursorOK
  <2>2. pc'["main"] = "tail" /\ pc'["alrm"] = "idle"
    BY <1>0, <1>5, GotoLabel DEF Link
  <2>3. Linked' = Linked \cup {entry} /\ Linked \subseteq Node
    BY <2>1, <2>2 DEF Linked, InHand
  <2>4. \A m \in Linked : m < entry
    BY <2>1 DEF Linked, InHand, ListInv, FreshOK
  <2>5. IsList(cychead, Linked)'
    <3>1. CASE cychead = 0
      <4>1. Linked' = {entry} /\ cychead' = entry /\ next'[entry] = 0
        BY <1>5, <2>1, <2>3, <3>1 DEF Link, ListInv, IsList
      <4> QED BY <2>1, <4>1 DEF IsList
    <3>2. CASE cychead # 0
      <4>1. cychead' = cychead /\ cycheadnext \in Linked /\ \A m \in Linked : m <= cycheadnext
        BY <1>5, <2>1, <3>2 DEF Link, ListInv, TailOK, LoadPcs
      <4>2. next'[cycheadnext] = entry /\ \A m \in Node \ {cycheadnext} : next'[m] = next[m]
        BY <1>5, <2>3, <3>2, <4>1 DEF Link, TypeInv, TypeOK, NodeType
      <4>6. /\ entry \in Int /\ \A x \in Linked : x \in Int /\ x \in Node
            /\ \A x : x \in Linked' <=> x \in Linked \/ x = entry
        <5>1. entry \in Int
          BY <2>1 DEF Node
        <5>2. \A x \in Linked : x \in Int /\ x \in Node
          BY <2>3 DEF Node
        <5>3. \A x : x \in Linked' <=> x \in Linked \/ x = entry
          BY <2>3, Zenon
        <5> QED BY <5>1, <5>2, <5>3
      <4>7. cychead \in Linked /\ \A m \in Linked : cychead <= m
        BY <3>2 DEF ListInv, IsList
      <4>3. /\ cychead' \in Linked' /\ cychead' # 0
            /\ \A m \in Linked' : cychead' <= m
        BY <2>4, <3>2, <4>1, <4>6, <4>7
      <4>4. ASSUME NEW m \in Linked', m # entry, m # cycheadnext
            PROVE  /\ next'[m] = next[m] /\ next[m] \in Linked /\ next[m] > m
                   /\ \A x \in Linked : x > m => next[m] <= x
        BY <2>3, <4>1, <4>2, <4>4 DEF ListInv, IsList
      <4>5. ASSUME NEW m \in Linked'
            PROVE  /\ next'[m] = 0 => \A x \in Linked' : x <= m
                   /\ next'[m] # 0 => /\ next'[m] \in Linked' /\ next'[m] > m
                                     /\ \A x \in Linked' : x > m => next'[m] <= x
        <5>1. CASE m = entry
          BY <2>1, <2>4, <4>1, <4>2, <4>6, <5>1
        <5>2. CASE m = cycheadnext
          BY <2>1, <2>4, <4>1, <4>2, <4>6, <5>2
        <5>3. CASE m # entry /\ m # cycheadnext
          BY <2>4, <4>4, <4>6, <5>3
        <5> QED BY <5>1, <5>2, <5>3
      <4> QED BY <4>3, <4>5 DEF IsList
    <3> QED BY <3>1, <3>2
  <2>6. NodesOK'
    BY <2>1, <2>3 DEF ListInv, NodesOK
  <2>7. FreshOK'
    <3>1. \A m \in Node : heap[m] = "none" => next'[m] = next[m]
      BY <1>5, <2>1 DEF Link, ListInv, TailOK, LoadPcs, Linked, TypeInv, TypeOK, NodeType
    <3> QED BY <2>1, <2>2, <3>1 DEF ListInv, FreshOK, EntryPcs
  <2>8. TailOK' /\ CursorsLinked'
    BY <1>0, <2>2 DEF TailOK, CursorsLinked, TickPcs
  <2> QED BY <2>5, <2>6, <2>7, <2>8 DEF ListInv
<1>6. CASE SetTail
  <2>1. /\ pc["main"] = "tail" /\ entry \in Node /\ heap[entry] = "live" /\ cycheadnext' = entry
        /\ UNCHANGED <<heap, next, fn, ld, cychead, mainld, entry, mapped>>
    BY <1>6 DEF SetTail, Main, At, Moves, ListInv, FreshOK, EntryPcs, TypeInv, TypeOK, LocalType, CursorOK
  <2>2. pc'["main"] = "wire" /\ pc'["alrm"] = "idle"
    BY <1>0, <1>6, GotoLabel DEF SetTail
  <2>3. Linked' = Linked /\ entry \in Linked /\ Linked \subseteq Node
    BY <2>1, <2>2 DEF Linked, InHand
  <2>4. \A m \in Linked : m <= entry
    BY <2>1, <2>3 DEF Linked, ListInv, FreshOK
  <2>5. IsList(cychead, Linked)' /\ NodesOK'
    BY <2>1, <2>3 DEF ListInv, IsList, NodesOK
  <2>6. FreshOK'
    BY <2>1, <2>2 DEF ListInv, FreshOK, EntryPcs
  <2>7. TailOK' /\ CursorsLinked'
    BY <1>0, <2>1, <2>2, <2>3, <2>4 DEF TailOK, CursorsLinked, TickPcs
  <2> QED BY <2>5, <2>6, <2>7 DEF ListInv
<1>7. CASE Wire
  <2>1. /\ pc["main"] = "wire" /\ entry \in Node /\ heap[entry] = "live" /\ entry \in mapped
        /\ UNCHANGED <<heap, next, ld, cychead, cycheadnext, mainld, entry, mapped>>
    BY <1>7 DEF Wire, Main, At, Moves, ListInv, FreshOK, EntryPcs, TypeInv, TypeOK, LocalType, CursorOK
  <2>2. pc'["main"] \in {"wire", "readdir"} /\ pc'["alrm"] = "idle"
    BY <1>0, <1>7, <2>1, GotoLabel DEF Wire
  <2>3. \A m \in Node \ {entry} : fn'[m] = fn[m]
    BY <1>7 DEF Wire, TypeInv, TypeOK, NodeType
  <2>4. Linked' = Linked /\ Linked \subseteq Node
    BY <2>1, <2>2 DEF Linked, InHand
  <2>5. IsList(cychead, Linked)'
    BY <2>1, <2>4 DEF ListInv, IsList
  <2>6. NodesOK'
    BY <2>1, <2>3, <2>4 DEF ListInv, NodesOK
  <2>7. FreshOK'
    BY <2>1, <2>2, <2>3 DEF ListInv, FreshOK, EntryPcs
  <2>8. TailOK' /\ CursorsLinked'
    BY <1>0, <2>1, <2>2, <2>4 DEF ListInv, TailOK, CursorsLinked, TickPcs, LoadPcs
  <2> QED BY <2>5, <2>6, <2>7, <2>8 DEF ListInv
<1>8. CASE DirEnd
  <2>1. /\ pc["main"] = "readdir"
        /\ UNCHANGED <<heap, next, fn, ld, cychead, cycheadnext, mainld, entry, mapped>>
    BY <1>8 DEF DirEnd, Main, At, Moves
  <2>2. CASE Goto("main", "go")
    BY <1>0, <2>1, <2>2, QuietStep DEF QuietPcs, LoadPcs, ListInv, NodesOK
  <2>3. CASE GotoNode("main", "match", cychead)
    <3>1. pc'["main"] = "match" /\ pc'["alrm"] = "idle" /\ cyc'["main"] = cychead
      BY <1>0, <2>3, GotoCursor
    <3>2. Linked' = Linked
      BY <2>1, <3>1 DEF Linked, InHand
    <3>3. IsList(cychead, Linked)' /\ NodesOK'
      BY <2>1, <3>2 DEF ListInv, IsList, NodesOK
    <3>4. FreshOK' /\ TailOK'
      BY <2>1, <3>1 DEF ListInv, FreshOK, TailOK, EntryPcs, LoadPcs
    <3>5. CursorsLinked'
      BY <1>0, <3>1, <3>2 DEF CursorsLinked, TickPcs, ListInv, IsList
    <3> QED BY <3>3, <3>4, <3>5 DEF ListInv
  <2> QED BY <1>8, <2>2, <2>3 DEF DirEnd
<1> QED BY <1>1, <1>2, <1>3, <1>4, <1>5, <1>6, <1>7, <1>8 DEF LoadStep

\* toSetCycdata and freeCycdata.
LEMMA BindInv ==
  ASSUME TypeInv, ListInv, BindStep
  PROVE  ListInv'
<1> USE DEF procVars, heapVars, dataVars, listVars, fileVars, libVars, mainVars, histVars
<1>0. /\ run = "main" /\ "main" \notin incall /\ pc["alrm"] = "idle" /\ incall = {} /\ incall' = incall
      /\ UNCHANGED <<fn, mainld, entry, cycheadnext>>
  <2>1. run = "main" /\ pc["main"] \notin Methods
    BY DEF BindStep, MatchNode, MatchEnd, Prune, Unlink, FreeNode, Main, At, Moves, Methods
  <2>2. incall' = incall /\ UNCHANGED <<fn, mainld, entry, cycheadnext>>
    BY DEF BindStep, MatchNode, MatchEnd, Prune, Unlink, FreeNode
  <2> QED BY <2>1, <2>2, MainRuns DEF TypeInv, StackOK
<1>1. \A m \in Linked : next[m] \in Linked \cup {0}
  BY DEF ListInv, IsList
<1>2. cychead \in Linked \cup {0}
  BY DEF ListInv, IsList
<1>3. CASE MatchNode
  <2>1. /\ pc["main"] = "match" /\ cyc["main"] \in Linked
        /\ UNCHANGED <<heap, next, cychead, mapped>>
    BY <1>3 DEF MatchNode, Main, At, Moves, ListInv, CursorsLinked
  <2>2. CASE Goto("main", "go") /\ ld' = ld
    BY <1>0, <2>1, <2>2, QuietStep DEF QuietPcs, ListInv, NodesOK
  <2>3. CASE /\ \E m \in Linked \cup {0} : GotoNode("main", "match", m)
             /\ ld' = ld \/ ld' = [ld EXCEPT ![cyc["main"]] = "main"]
    <3>1. pc'["main"] = "match" /\ pc'["alrm"] = "idle" /\ cyc'["main"] \in Linked \cup {0}
      BY <1>0, <2>3, GotoCursor
    <3>2. Linked' = Linked /\ Linked \subseteq Node /\ heap[cyc["main"]] = "live"
      BY <2>1, <3>1 DEF Linked, InHand
    <3>3. \A m \in Node : ld'[m] = ld[m] \/ (ld'[m] = "main" /\ heap[m] = "live")
      BY <2>3, <3>2 DEF TypeInv, TypeOK, NodeType
    <3>4. IsList(cychead, Linked)' /\ NodesOK'
      BY <1>0, <2>1, <3>2, <3>3 DEF ListInv, IsList, NodesOK
    <3>5. FreshOK'
      BY <1>0, <2>1, <3>1, <3>3 DEF ListInv, FreshOK, EntryPcs
    <3>6. TailOK' /\ CursorsLinked'
      BY <1>0, <3>1, <3>2 DEF TailOK, CursorsLinked, LoadPcs, TickPcs
    <3> QED BY <3>4, <3>5, <3>6 DEF ListInv
  <2> QED BY <1>1, <1>2, <1>3, <2>1, <2>2, <2>3 DEF MatchNode
<1>4. CASE MatchEnd
  <2>1. pc["main"] = "match" /\ UNCHANGED <<heap, next, ld, cychead, mapped>>
    BY <1>4 DEF MatchEnd, Main, At, Moves
  <2>2. CASE Goto("main", "go")
    BY <1>0, <2>1, <2>2, QuietStep DEF QuietPcs, ListInv, NodesOK
  <2>3. CASE GotoNode("main", "prune", cychead)
    <3>1. pc'["main"] = "prune" /\ pc'["alrm"] = "idle" /\ cyc'["main"] = cychead
      BY <1>0, <2>3, GotoCursor
    <3>2. Linked' = Linked
      BY <2>1, <3>1 DEF Linked, InHand
    <3>3. IsList(cychead, Linked)' /\ NodesOK'
      BY <1>0, <2>1, <3>2 DEF ListInv, IsList, NodesOK
    <3>4. FreshOK' /\ TailOK' /\ CursorsLinked'
      BY <1>0, <1>2, <2>1, <3>1, <3>2 DEF ListInv, FreshOK, TailOK, CursorsLinked, EntryPcs,
             LoadPcs, TickPcs
    <3> QED BY <3>3, <3>4 DEF ListInv
  <2> QED BY <1>4, <2>2, <2>3 DEF MatchEnd
<1>5. CASE Prune
  <2>1. /\ pc["main"] = "prune" /\ cyc["main"] \in Linked \cup {0}
        /\ UNCHANGED <<heap, next, ld, cychead, mapped>>
    BY <1>5 DEF Prune, Main, At, Moves, ListInv, CursorsLinked
  <2>2. /\ pc'["main"] \in {"prune", "init", "unlink"} /\ pc'["alrm"] = "idle"
        /\ cyc'["main"] \in Linked \cup {0}
        /\ pc'["main"] = "unlink" => cyc'["main"] \in Linked /\ cycnext' = next[cyc'["main"]]
    <3>1. CASE \E l \in {"prune", "init"}, m \in Linked \cup {0} : GotoNode("main", l, m)
      BY <1>0, <3>1, GotoCursor
    <3>2. CASE cyc["main"] # 0 /\ Goto("main", "unlink") /\ cyc' = cyc /\ cycnext' = next[cyc["main"]]
      BY <1>0, <2>1, <3>2, GotoLabel
    <3> QED BY <1>1, <1>2, <1>5, <2>1, <3>1, <3>2 DEF Prune
  <2>3. Linked' = Linked
    BY <2>1, <2>2 DEF Linked, InHand
  <2>4. IsList(cychead, Linked)' /\ NodesOK'
    BY <1>0, <2>1, <2>3 DEF ListInv, IsList, NodesOK
  <2>5. FreshOK' /\ TailOK'
    BY <1>0, <2>1, <2>2 DEF ListInv, FreshOK, TailOK, EntryPcs, LoadPcs
  <2>6. CursorsLinked'
    BY <1>0, <2>1, <2>2, <2>3 DEF CursorsLinked, TickPcs
  <2> QED BY <2>4, <2>5, <2>6 DEF ListInv
<1>6. CASE Unlink
  <2> DEFINE m == cyc["main"]
  <2>1. /\ pc["main"] = "unlink" /\ m \in Linked /\ cycnext = next[m]
        /\ UNCHANGED <<heap, ld, mapped, cyc, cycnext>>
    BY <1>6 DEF Unlink, Main, At, Moves, ListInv, CursorsLinked
  <2>2. pc'["main"] = "free" /\ pc'["alrm"] = "idle"
    BY <1>0, <1>6, GotoLabel DEF Unlink
  <2>3. /\ \A x : x \in Linked' <=> x \in Linked /\ x # m
        /\ \A x \in Linked : x \in Node /\ x \in Int /\ heap[x] = "live"
    BY <2>1, <2>2 DEF Linked, InHand
  <2>4. next[m] \in Linked' \cup {0}
    BY <2>1, <2>3 DEF ListInv, IsList
  <2>5. /\ IsList(cychead, Linked)'
        /\ \A x \in Node : heap[x] = "none" => next'[x] = next[x]
    <3>1. CASE m = cychead /\ cychead' = next[m] /\ next' = next
      <4>1. IsList(cychead, Linked)'
        BY <2>1, <2>3, <3>1 DEF ListInv, IsList
      <4> QED BY <3>1, <4>1
    <3>2. ASSUME m # cychead, cychead' = cychead, NEW BB \in Node, heap[BB] = "live", next[BB] = m,
                 next' = [next EXCEPT ![BB] = next[m]]
          PROVE  IsList(cychead, Linked)' /\ \A x \in Node : heap[x] = "none" => next'[x] = next[x]
      <4>1. BB \in Linked' /\ BB < m
        BY <2>1, <2>3, <3>2 DEF Linked, InHand, ListInv, IsList
      <4>2. next'[BB] = next[m] /\ \A x \in Node \ {BB} : next'[x] = next[x]
        BY <3>2 DEF TypeInv, TypeOK, NodeType
      <4>3. cychead' \in Linked' /\ cychead' # 0 /\ \A x \in Linked' : cychead' <= x
        BY <2>1, <2>3, <3>2 DEF ListInv, IsList
      <4>4. ASSUME NEW x \in Linked'
            PROVE  /\ next'[x] = 0 => \A y \in Linked' : y <= x
                   /\ next'[x] # 0 => /\ next'[x] \in Linked' /\ next'[x] > x
                                     /\ \A y \in Linked' : y > x => next'[x] <= y
        <5>1. CASE x = BB
          BY <2>1, <2>3, <3>2, <4>1, <4>2, <5>1 DEF ListInv, IsList
        <5>2. CASE x # BB
          <6>1. next[x] # m
            BY <2>1, <2>3, <3>2, <4>1, <5>2 DEF ListInv, IsList
          <6> QED BY <2>3, <4>2, <5>2, <6>1 DEF ListInv, IsList
        <5> QED BY <5>1, <5>2
      <4>5. IsList(cychead, Linked)'
        BY <4>3, <4>4 DEF IsList
      <4> QED BY <3>2, <4>2, <4>5
    <3> QED BY <1>6, <3>1, <3>2 DEF Unlink
  <2>6. NodesOK'
    BY <1>0, <2>1, <2>3 DEF ListInv, NodesOK
  <2>7. FreshOK'
    BY <1>0, <2>1, <2>2, <2>5 DEF ListInv, FreshOK, EntryPcs
  <2>8. TailOK' /\ CursorsLinked'
    BY <1>0, <2>1, <2>2, <2>3, <2>4 DEF TailOK, CursorsLinked, LoadPcs, TickPcs
  <2> QED BY <2>5, <2>6, <2>7, <2>8 DEF ListInv
<1>7. CASE FreeNode
  <2> DEFINE m == cyc["main"]
  <2>1. /\ pc["main"] = "free" /\ heap[m] = "live" /\ cycnext \in Linked \cup {0}
        /\ UNCHANGED <<next, ld, cychead>> /\ mapped \ {m} \subseteq mapped'
    BY <1>7 DEF FreeNode, Main, At, Moves, ListInv, CursorsLinked
  <2>2. pc'["main"] = "prune" /\ pc'["alrm"] = "idle" /\ cyc'["main"] = cycnext
    BY <1>0, <1>7, GotoCursor DEF FreeNode
  <2>3. m \in Node
    BY <2>1, NodeCursor DEF NodePcs
  <2>4. heap'[m] = "freed" /\ \A x \in Node \ {m} : heap'[x] = heap[x]
    BY <1>7, <2>3 DEF FreeNode, TypeInv, TypeOK, NodeType
  <2>5. Linked' = Linked /\ m \notin Linked
    BY <2>1, <2>2, <2>3, <2>4 DEF Linked, InHand
  <2>6. IsList(cychead, Linked)' /\ NodesOK'
    BY <1>0, <2>1, <2>5 DEF ListInv, IsList, NodesOK
  <2>7. FreshOK'
    BY <1>0, <2>1, <2>2, <2>3, <2>4 DEF ListInv, FreshOK, EntryPcs
  <2>8. TailOK' /\ CursorsLinked'
    BY <1>0, <2>1, <2>2, <2>5 DEF TailOK, CursorsLinked, LoadPcs, TickPcs
  <2> QED BY <2>6, <2>7, <2>8 DEF ListInv
<1> QED BY <1>3, <1>4, <1>5, <1>6, <1>7 DEF BindStep

\* The nodes, the list and the code and logs of its nodes are what they were.
LEMMA SameList ==
  ASSUME ListInv, UNCHANGED <<heap, next, fn, mapped, cychead, cycheadnext, mainld, entry>>,
         pc["main"] \notin {"link", "free"}, pc'["main"] \notin LoadPcs \cup {"free"},
         \A m \in Node : ld'[m] = ld[m] \/ (ld'[m] # "dead" /\ heap[m] = "live")
  PROVE  Linked' = Linked /\ IsList(cychead, Linked)' /\ NodesOK' /\ FreshOK' /\ TailOK'
<1>1. Linked' = Linked /\ Linked \subseteq Node
  BY DEF Linked, InHand, LoadPcs
<1>2. IsList(cychead, Linked)' /\ NodesOK'
  BY <1>1 DEF ListInv, IsList, NodesOK
<1>3. FreshOK' /\ TailOK'
  BY DEF ListInv, FreshOK, TailOK, EntryPcs, LoadPcs
<1> QED BY <1>1, <1>2, <1>3

\* TimeInit for one library after the other.
LEMMA InitInv ==
  ASSUME TypeInv, ListInv, InitStep
  PROVE  ListInv'
<1> USE DEF procVars, heapVars, dataVars, listVars, fileVars, libVars, mainVars, histVars
<1>1. /\ run = "main" /\ pc["main"] \in {"init", "login", "initnext"}
      /\ pc["alrm"] = "idle" /\ incall \subseteq {"main"}
      /\ UNCHANGED <<heap, next, fn, mapped, cychead, cycheadnext, mainld, entry>>
  <2>1. run = "main" /\ pc["main"] \in {"init", "login", "initnext"}
    BY DEF InitStep, TimeInit, TimeInitReturn, InitNext, Invoke, Return, Main, At, Moves
  <2>2. UNCHANGED <<heap, next, fn, mapped, cychead, cycheadnext, mainld, entry>>
    BY DEF InitStep, TimeInit, TimeInitReturn, InitNext
  <2> QED BY <2>1, <2>2, MainRuns
<1>2. cyc["main"] \in Linked \cup {0} /\ \A m \in Linked : heap[m] = "live" /\ next[m] \in Linked \cup {0}
  BY <1>1 DEF ListInv, CursorsLinked, IsList, Linked
<1>3. CASE TimeInit
  <2>1. PICK l \in {"init", "login"} : Invoke("main", l)
    BY <1>3 DEF TimeInit
  <2>2. cyc["main"] \in Linked /\ UNCHANGED <<cyc, ld>>
    BY <1>2, <1>3, <2>1 DEF TimeInit, Invoke
  <2>3. /\ pc'["main"] \in {"init", "login", "initnext"} /\ pc'["alrm"] = "idle"
        /\ incall' \subseteq {"main"} /\ ("main" \in incall' => fn[cyc["main"]] # {})
    <3>1. CASE l \in fn[cyc["main"]] /\ incall' = incall \cup {"main"} /\ pc' = pc
      BY <1>1, <3>1
    <3>2. CASE incall' = incall /\ "main" \notin incall /\ Goto("main", AfterCall[l])
      <4>1. AfterCall[l] \in {"login", "initnext"}
        BY DEF AfterCall
      <4> QED BY <1>1, <3>2, <4>1, GotoLabel
    <3> QED BY <2>1, <3>1, <3>2 DEF Invoke
  <2>4. Linked' = Linked /\ IsList(cychead, Linked)' /\ NodesOK' /\ FreshOK' /\ TailOK'
    BY <1>1, <2>2, <2>3, SameList DEF LoadPcs
  <2>5. CursorsLinked'
    BY <1>1, <2>2, <2>3, <2>4 DEF CursorsLinked, TickPcs
  <2> QED BY <2>4, <2>5 DEF ListInv
<1>4. CASE TimeInitReturn
  <2>1. PICK l \in {"init", "login"} : Return("main", l)
    BY <1>4 DEF TimeInitReturn
  <2>2. /\ cyc["main"] \in Linked /\ cyc' = cyc
        /\ ld' = ld \/ \E o \in {"main", "own"} : ld' = [ld EXCEPT ![cyc["main"]] = o]
    BY <1>2, <1>4, <2>1 DEF TimeInitReturn, Return, TypeInv, CursorOK
  <2>3. \A m \in Node : ld'[m] = ld[m] \/ (ld'[m] # "dead" /\ heap[m] = "live")
    BY <1>2, <2>2 DEF TypeInv, TypeOK, NodeType
  <2>4. pc'["main"] \in {"login", "initnext", "go"} /\ pc'["alrm"] = "idle" /\ incall' = {}
    <3>1. AfterCall[l] \in {"login", "initnext"} /\ OnError[l] = "go"
      BY DEF AfterCall, OnError
    <3> QED BY <1>1, <2>1, <3>1, GotoLabel DEF Return
  <2>5. Linked' = Linked /\ IsList(cychead, Linked)' /\ NodesOK' /\ FreshOK' /\ TailOK'
    BY <1>1, <2>3, <2>4, SameList DEF LoadPcs
  <2>6. CursorsLinked'
    BY <2>2, <2>4, <2>5 DEF CursorsLinked, TickPcs
  <2> QED BY <2>5, <2>6 DEF ListInv
<1>5. CASE InitNext
  <2>1. incall' = incall /\ ld' = ld /\ incall = {}
    <3>1. "main" \notin incall
      BY <1>5 DEF InitNext, Main, At, Moves, TypeInv, StackOK, CursorOK, Methods
    <3> QED BY <1>1, <1>5, <3>1 DEF InitNext
  <2>2. /\ pc'["main"] \in {"init", "pause"} /\ pc'["alrm"] = "idle"
        /\ pc'["main"] = "init" => cyc'["main"] \in Linked \cup {0}
    <3>1. CASE Main("initnext") /\ GotoNode("main", "init", next[cyc["main"]])
      <4>1. cyc["main"] \in Linked
        BY <3>1 DEF Main, At, Moves, ListInv, CursorsLinked
      <4> QED BY <1>1, <1>2, <3>1, <4>1, GotoCursor
    <3>2. CASE Goto("main", "pause")
      BY <1>1, <3>2, GotoLabel
    <3> QED BY <1>5, <3>1, <3>2 DEF InitNext
  <2>3. Linked' = Linked /\ IsList(cychead, Linked)' /\ NodesOK' /\ FreshOK' /\ TailOK'
    BY <1>1, <2>1, <2>2, SameList DEF LoadPcs
  <2>4. CursorsLinked'
    BY <2>1, <2>2, <2>3 DEF CursorsLinked, TickPcs
  <2> QED BY <2>3, <2>4 DEF ListInv
<1> QED BY <1>3, <1>4, <1>5 DEF InitStep

-----------------------------------------------------------------------------
(***************************************************************************)
(* The timer handler reads the list, whatever it has interrupted.          *)
(***************************************************************************)
\* What the timer handler leaves alone.
LEMMA TickQuiet ==
  ASSUME TypeInv, TickStep
  PROVE  /\ run = "alrm" /\ status = "running" /\ status' = status
         /\ UNCHANGED <<heap, next, fn, ld, mapped, cychead, cycheadnext, mainld, entry, cycnext>>
         /\ \A d \in Frames \ {"alrm"} : /\ pc'[d] = pc[d] /\ cyc'[d] = cyc[d]
                                         /\ d \in incall' <=> d \in incall
<1> USE DEF procVars, heapVars, dataVars, listVars, fileVars, libVars, mainVars, histVars
<1>1. run = "alrm" /\ status = "running" /\ status' = status
  BY DEF TickStep, TickStart, Count, TimeDo, TickNext, Invoke, Return, At, Moves, HandlerReturn
<1>2. UNCHANGED <<heap, next, fn, ld, mapped, cychead, cycheadnext, mainld, entry, cycnext>>
  BY DEF TickStep, TickStart, Count, TimeDo, TickNext
<1>3. /\ pc' = pc \/ \E l : Goto("alrm", l)
      /\ cyc' = cyc \/ \E m : cyc' = [cyc EXCEPT !["alrm"] = m]
      /\ incall' \in {incall, incall \cup {"alrm"}, incall \ {"alrm"}}
  <2>1. CASE TickStart \/ TickNext
    BY <2>1 DEF TickStart, TickNext, HandlerReturn, GotoNode
  <2>2. CASE Count
    BY <2>2 DEF Count
  <2>3. CASE TimeDo
    BY <2>3 DEF TimeDo, Invoke, Return
  <2> QED BY <2>1, <2>2, <2>3 DEF TickStep
<1>4. \A d \in Frames \ {"alrm"} : pc'[d] = pc[d] /\ cyc'[d] = cyc[d]
  BY <1>3 DEF Goto, TypeInv, TypeOK, FrameType
<1> QED BY <1>1, <1>2, <1>3, <1>4

\* The cursor of the timer handler stays on the list.
LEMMA TickCursor ==
  ASSUME TypeInv, ListInv, TickStep
  PROVE  /\ pc'["alrm"] \in TickPcs \ {"tick"} => cyc'["alrm"] \in Linked
         /\ "alrm" \in incall' => fn[cyc'["alrm"]] # {}
<1> USE DEF procVars, heapVars, dataVars, listVars, fileVars, libVars, mainVars, histVars
<1>1. cychead \in Linked \cup {0}
  BY DEF ListInv, IsList
<1>2. \A m \in Linked : next[m] \in Linked \cup {0}
  BY DEF ListInv, IsList
<1>3. pc["alrm"] \in TickPcs \ {"tick"} => cyc["alrm"] \in Linked
  BY DEF ListInv, CursorsLinked
<1>4. CASE TickStart
  <2>1. "alrm" \notin incall /\ incall' = incall
    BY <1>4, AtLabel DEF TickStart, Methods
  <2>2. CASE HandlerReturn("alrm")
    BY <2>1, <2>2, GotoCursor DEF HandlerReturn, TickPcs
  <2>3. CASE cychead # 0 /\ GotoNode("alrm", "count", cychead)
    BY <1>1, <2>1, <2>3, GotoCursor
  <2> QED BY <1>4, <2>2, <2>3 DEF TickStart
<1>5. CASE Count
  <2>1. pc["alrm"] = "count" /\ "alrm" \notin incall /\ incall' = incall /\ cyc' = cyc
    BY <1>5, AtLabel DEF Count, Methods
  <2> QED BY <1>3, <2>1 DEF TickPcs
<1>6. CASE TimeDo
  <2>1. PICK l \in {"seach", "howdo", "send"} : Invoke("alrm", l) \/ Return("alrm", l)
    BY <1>6 DEF TimeDo
  <2>2. pc["alrm"] = l /\ cyc' = cyc
    BY <1>6, <2>1 DEF TimeDo, Invoke, Return, At, Moves
  <2>3. cyc["alrm"] \in Linked
    BY <1>3, <2>2 DEF TickPcs
  <2>4. "alrm" \in incall' => fn[cyc["alrm"]] # {}
    BY <2>1 DEF Invoke, Return
  <2> QED BY <2>2, <2>3, <2>4
<1>7. CASE TickNext
  <2>1. "alrm" \notin incall /\ incall' = incall /\ pc["alrm"] = "next"
    BY <1>7, AtLabel DEF TickNext, Methods
  <2>2. CASE HandlerReturn("alrm")
    BY <2>1, <2>2, GotoCursor DEF HandlerReturn, TickPcs
  <2>3. CASE next[cyc["alrm"]] # 0 /\ GotoNode("alrm", "count", next[cyc["alrm"]])
    BY <1>2, <1>3, <2>1, <2>3, GotoCursor DEF TickPcs
  <2> QED BY <1>7, <2>2, <2>3 DEF TickNext
<1> QED BY <1>4, <1>5, <1>6, <1>7 DEF TickStep

\* A log is what it was, or logLog has deleted it.
LogsKept ==
  /\ mainld' = mainld \/ mainld' = "lost"
  /\ \A m \in Node : ld'[m] = ld[m] \/ (ld[m] = "own" /\ ld'[m] = "lost")

\* What a line of a log leaves alone.
LEMMA LogQuiet ==
  ASSUME TypeInv, NEW c \in Frames, MethodLog(c) \/ LogDone(c)
  PROVE  /\ LogsKept /\ run = c /\ status = "running"
         /\ UNCHANGED <<procVars, pc, cyc, incall, heap, next, keylen, vallen, fn, fdate,
                        listVars, blocks, shead, libVars, mainVars, histVars>>
<1> USE DEF procVars, heapVars, dataVars, listVars, fileVars, libVars, mainVars, histVars
<1>1. /\ run = c /\ status = "running"
      /\ UNCHANGED <<procVars, pc, cyc, incall, heap, next, keylen, vallen, fn, fdate,
                     listVars, blocks, shead, libVars, mainVars, histVars>>
  BY DEF MethodLog, LogDone, Moves
<1>2. LogsKept
  <2>1. CASE UNCHANGED <<ld, mainld>>
    BY <2>1 DEF LogsKept
  <2>2. CASE mainld' = "lost" /\ ld' = ld
    BY <2>2 DEF LogsKept
  <2>3. CASE LogOf(c) = "own" /\ ld' = [ld EXCEPT ![cyc[c]] = "lost"] /\ mainld' = mainld
    BY <2>3 DEF LogsKept, LogOf, TypeInv, TypeOK, NodeType
  <2> QED BY <2>1, <2>2, <2>3 DEF MethodLog, LogDone
<1> QED BY <1>1, <1>2

\* Nothing changes but the timer handler's frame and what logLog does.
LEMMA FrameOnly ==
  ASSUME ListInv, TypeInv, incall' \subseteq Frames, LogsKept,
         UNCHANGED <<heap, next, fn, mapped, cychead, cycheadnext, entry, cycnext>>,
         \A c \in {"main", "usr1"} : cyc'[c] = cyc[c] /\ (c \in incall' <=> c \in incall),
         pc'["main"] = pc["main"],
         pc'["alrm"] \in TickPcs \ {"tick"} => cyc'["alrm"] \in Linked,
         "alrm" \in incall' => fn[cyc'["alrm"]] # {}
  PROVE  ListInv'
<1>1. Linked' = Linked
  BY DEF Linked, InHand
<1>2. IsList(cychead, Linked)'
  BY <1>1 DEF ListInv, IsList
<1>5. Linked \subseteq Node
  BY DEF Linked
<1>6. NodesOK'
  BY <1>1, <1>5 DEF ListInv, NodesOK, LogsKept
<1>3. FreshOK' /\ TailOK'
  BY <1>1 DEF ListInv, FreshOK, TailOK, LogsKept
<1>4. CursorsLinked'
  BY <1>1 DEF ListInv, CursorsLinked
<1> QED BY <1>2, <1>3, <1>4, <1>6 DEF ListInv

\* The timer handler on an intact list.
LEMMA TickInv ==
  ASSUME TypeInv, TypeInv', ListInv, TickStep
  PROVE  ListInv'
<1>1. incall' \subseteq Frames
  BY DEF TypeInv, TypeOK, FrameType
<1>2. /\ UNCHANGED <<heap, next, fn, ld, mapped, cychead, cycheadnext, mainld, entry, cycnext>>
      /\ \A c \in {"main", "usr1"} : cyc'[c] = cyc[c] /\ (c \in incall' <=> c \in incall)
      /\ pc'["main"] = pc["main"]
  BY TickQuiet
<1>3. /\ pc'["alrm"] \in TickPcs \ {"tick"} => cyc'["alrm"] \in Linked
      /\ "alrm" \in incall' => fn[cyc'["alrm"]] # {}
  BY TickCursor
<1> QED BY <1>1, <1>2, <1>3, FrameOnly DEF LogsKept

-----------------------------------------------------------------------------
(***************************************************************************)
(* gameover walks down the list and frees the node it stands on.           *)
(***************************************************************************)
\* What a step of gameover leaves alone.
LEMMA GameQuiet ==
  ASSUME TypeInv, NEW c \in {"main", "usr1"}, GameStep(c)
  PROVE  /\ run = c /\ status = "running" /\ status' \in {"running", "exited"}
         /\ UNCHANGED <<next, fn, entry, cycnext>>
         /\ \A d \in Frames \ {c} : /\ pc'[d] = pc[d] /\ cyc'[d] = cyc[d]
                                    /\ d \in incall' <=> d \in incall
<1> USE DEF procVars, heapVars, dataVars, listVars, fileVars, libVars, mainVars, histVars
<1>1. run = c /\ status = "running"
  BY DEF GameStep, GameOver, GoLog, GoLd, TimeDel, TimeDelReturn, GoDlclose, GoFree, GoClear,
         GoLogDel, GoExit, Invoke, Return, At, Moves
<1>2. status' \in {"running", "exited"}
  BY <1>1 DEF GameStep, GameOver, GoLog, GoLd, TimeDel, TimeDelReturn, GoDlclose, GoFree, GoClear,
         GoLogDel, GoExit, Exit, HandlerReturn
<1>3. UNCHANGED <<next, fn, entry, cycnext>>
  BY DEF GameStep, GameOver, GoLog, GoLd, TimeDel, TimeDelReturn, GoDlclose, GoFree, GoClear,
         GoLogDel, GoExit
<1>4. /\ pc' = pc \/ \E l : Goto(c, l)
      /\ cyc' = cyc \/ \E m : cyc' = [cyc EXCEPT ![c] = m]
      /\ incall' \in {incall, incall \cup {c}, incall \ {c}}
  <2>1. CASE GameOver(c) \/ GoFree(c)
    BY <2>1 DEF GameOver, GoFree, HandlerReturn, GotoNode
  <2>2. CASE TimeDel(c) \/ TimeDelReturn(c)
    BY <2>2 DEF TimeDel, TimeDelReturn, Invoke, Return
  <2>3. CASE GoLog(c) \/ GoLd(c) \/ GoDlclose(c) \/ GoClear(c) \/ GoLogDel(c) \/ GoExit(c)
    BY <2>3 DEF GoLog, GoLd, GoDlclose, GoClear, GoLogDel, GoExit
  <2> QED BY <2>1, <2>2, <2>3 DEF GameStep
<1>5. \A d \in Frames \ {c} : pc'[d] = pc[d] /\ cyc'[d] = cyc[d]
  BY <1>4 DEF Goto, TypeInv, TypeOK, FrameType
<1> QED BY <1>1, <1>2, <1>3, <1>4, <1>5

\* A gameover that has begun does not return.
LEMMA TearingStays ==
  ASSUME TypeInv, NEW c \in {"main", "usr1"}, Tearing(c), GameStep(c)
  PROVE  Tearing(c)'
<1>1. ~GameOver(c)
  BY DEF GameOver, At, Moves, Tearing, WalkPcs, LastPcs
<1>2. CASE TimeDel(c) \/ TimeDelReturn(c)
  <2>1. pc' = pc \/ Goto(c, "go_dl")
    BY <1>2 DEF TimeDel, TimeDelReturn, Invoke, Return, AfterCall, OnError
  <2> QED BY <2>1, GotoLabel DEF Tearing, WalkPcs
<1>3. CASE GoFree(c)
  <2>1. \E l \in {"go_clear", "go_log"} : \E m : GotoNode(c, l, m)
    BY <1>3 DEF GoFree
  <2> QED BY <2>1, GotoCursor DEF Tearing, WalkPcs, LastPcs
<1>4. CASE GoLog(c) \/ GoLd(c) \/ GoDlclose(c) \/ GoClear(c) \/ GoLogDel(c) \/ GoExit(c)
  <2>1. pc' = pc \/ \E l \in {"go_ld", "deldate", "go_free", "go_logdel", "go_exit"} : Goto(c, l)
    BY <1>4 DEF GoLog, GoLd, GoDlclose, GoClear, GoLogDel, GoExit
  <2> QED BY <2>1, GotoLabel DEF Tearing, WalkPcs, LastPcs
<1> QED BY <1>1, <1>2, <1>3, <1>4 DEF GameStep

\* The gameover frame and what it walks over are untouched.
LEMMA WalkSame ==
  ASSUME NEW c \in {"main", "usr1"}, WalkInv(c), LogsKept,
         UNCHANGED <<heap, next, fn, mapped, entry>>,
         pc'["main"] = pc["main"], cyc'["main"] = cyc["main"],
         pc'[c] = pc[c], cyc'[c] = cyc[c], c \in incall' <=> c \in incall
  PROVE  WalkInv(c)'
<1>1. Linked' = Linked
  BY DEF Linked, InHand
<1>2. (pc[c] \in WalkPcs => IsList(cyc[c], Linked))'
  BY <1>1 DEF WalkInv, IsList
<1>3. Linked \subseteq Node
  BY DEF Linked
<1> QED BY <1>1, <1>2, <1>3 DEF WalkInv, LogsKept

\* gameover begins on an intact list, or returns.
LEMMA BeginWalk ==
  ASSUME TypeInv, NEW c \in {"main", "usr1"}, Intact, ListInv, GameStep(c)
  PROVE  \/ Tearing(c)' /\ WalkInv(c)'
         \/ Intact' /\ ListInv'
<1> USE DEF procVars, heapVars, dataVars, listVars, fileVars, libVars, mainVars, histVars
<1>1. GameOver(c)
  BY DEF GameStep, GoLog, GoLd, TimeDel, TimeDelReturn, GoDlclose, GoFree, GoClear, GoLogDel,
         GoExit,
         Invoke, Return, At, Moves, Intact, Tearing, WalkPcs, LastPcs
<1>2. /\ pc[c] = "go" /\ c \notin incall /\ incall' = incall
      /\ UNCHANGED <<heap, next, fn, ld, mapped, cychead, cycheadnext, mainld, entry, cycnext>>
  BY <1>1, AtLabel DEF GameOver, Methods
<1>3. CASE cychead # 0 /\ GotoNode(c, "go_log", cychead)
  <2>1. pc'[c] = "go_log" /\ cyc'[c] = cychead /\ \A d \in Frames \ {c} : pc'[d] = pc[d] /\ cyc'[d] = cyc[d]
    BY <1>3, GotoCursor
  <2>2. Linked' = Linked
    BY <1>2, <2>1 DEF Linked, InHand
  <2>3. (pc[c] \in WalkPcs => IsList(cyc[c], Linked))'
    BY <1>2, <2>1, <2>2 DEF ListInv, IsList
  <2>4. WalkInv(c)'
    BY <1>2, <2>1, <2>2, <2>3 DEF WalkInv, ListInv, NodesOK
  <2> QED BY <2>1, <2>4 DEF Tearing, WalkPcs
<1>4. CASE c = "usr1" /\ HandlerReturn(c)
  <2>1. pc'[c] = "idle" /\ \A d \in Frames \ {c} : pc'[d] = pc[d] /\ cyc'[d] = cyc[d]
    BY <1>4, GotoCursor DEF HandlerReturn
  <2>2. Linked' = Linked
    BY <1>2, <1>4, <2>1 DEF Linked, InHand
  <2>3. IsList(cychead, Linked)' /\ NodesOK' /\ FreshOK' /\ TailOK'
    BY <1>2, <1>4, <2>1, <2>2 DEF ListInv, IsList, NodesOK, FreshOK, TailOK
  <2>4. CursorsLinked'
    BY <1>2, <1>4, <2>1, <2>2 DEF ListInv, CursorsLinked, TypeInv, TypeOK, FrameType
  <2>5. Intact'
    BY <1>4, <2>1 DEF Intact, Tearing, WalkPcs, LastPcs
  <2> QED BY <2>3, <2>4, <2>5 DEF ListInv
<1>5. CASE UNCHANGED <<pc, cyc>>
  <2>1. Linked' = Linked
    BY <1>2, <1>5 DEF Linked, InHand
  <2>2. IsList(cychead, Linked)' /\ NodesOK' /\ FreshOK' /\ TailOK'
    BY <1>2, <1>5, <2>1 DEF ListInv, IsList, NodesOK, FreshOK, TailOK
  <2>3. CursorsLinked' /\ Intact'
    BY <1>2, <1>5, <2>1 DEF ListInv, CursorsLinked, Intact, Tearing
  <2> QED BY <2>2, <2>3 DEF ListInv
<1> QED BY <1>1, <1>3, <1>4, <1>5 DEF GameOver

\* A step of a gameover that is alone.
LEMMA WalkStep ==
  ASSUME TypeInv, NEW c \in {"main", "usr1"}, Tearing(c), WalkInv(c), GameStep(c)
  PROVE  WalkInv(c)'
<1> USE DEF procVars, heapVars, dataVars, listVars, fileVars, libVars, mainVars, histVars
<1> DEFINE m == cyc[c]
<1>1. ~GameOver(c)
  BY DEF GameOver, At, Moves, Tearing, WalkPcs, LastPcs
<1>2. c \in incall => pc[c] = "deldate"
  BY DEF TypeInv, StackOK, Methods, Tearing, WalkPcs, LastPcs
<1>3. /\ pc[c] \in WalkPcs => m \in Linked /\ m \in Node
      /\ \A x \in Linked : x \in Node /\ x \in Int
  BY DEF WalkInv, IsList, Linked, TypeInv, CursorOK, NodePcs
<1>4. UNCHANGED <<next, fn, entry>> /\ \A d \in Frames \ {c} : pc'[d] = pc[d] /\ cyc'[d] = cyc[d]
  BY GameQuiet
<1>5. CASE GoLog(c) \/ GoLd(c)
  <2>1. /\ pc[c] \in {"go_log", "go_ld"} /\ pc'[c] = (IF pc[c] = "go_log" THEN "go_ld" ELSE "deldate")
        /\ cyc' = cyc /\ incall' = incall /\ UNCHANGED <<heap, mapped, mainld>>
    BY <1>5, GotoLabel DEF GoLog, GoLd, At, Moves
  <2>2. Linked' = Linked
    BY <1>4, <2>1 DEF Linked, InHand
  <2>3. (pc[c] \in WalkPcs => IsList(cyc[c], Linked))'
    BY <1>4, <2>1, <2>2 DEF WalkInv, IsList, WalkPcs
  <2>4. /\ \A x \in Node \ {m} : ld'[x] = ld[x]
        /\ pc[c] = "go_ld" /\ m \in Node => ld'[m] = "null"
    <3>1. CASE GoLog(c)
      BY <3>1 DEF GoLog, At, Moves, TypeInv, TypeOK, NodeType
    <3>2. CASE GoLd(c)
      BY <3>2 DEF GoLd, At, Moves, TypeInv, TypeOK, NodeType
    <3> QED BY <1>5, <3>1, <3>2
  <2>5. (\A x \in Linked : ld[x] = "dead" => x = cyc[c] /\ pc[c] = "go_ld")'
    BY <1>3, <2>1, <2>2, <2>4 DEF WalkInv, WalkPcs
  <2> QED BY <1>2, <1>4, <2>1, <2>2, <2>3, <2>5 DEF WalkInv
<1>6. CASE TimeDel(c) \/ TimeDelReturn(c)
  <2>1. /\ pc[c] = "deldate" /\ cyc' = cyc /\ UNCHANGED <<heap, ld, mapped, mainld>>
        /\ pc' = pc \/ Goto(c, "go_dl")
        /\ c \in incall' => pc' = pc /\ fn[m] # {}
    BY <1>6 DEF TimeDel, TimeDelReturn, Invoke, Return, AfterCall, OnError, At, Moves
  <2>2. pc'[c] \in {"deldate", "go_dl"}
    BY <2>1, GotoLabel
  <2>3. Linked' = Linked
    BY <1>4, <2>1, <2>2 DEF Linked, InHand
  <2>4. (pc[c] \in WalkPcs => IsList(cyc[c], Linked))'
    BY <1>4, <2>1, <2>2, <2>3 DEF WalkInv, IsList, WalkPcs
  <2> QED BY <1>4, <2>1, <2>2, <2>3, <2>4 DEF WalkInv
<1>7. CASE GoDlclose(c)
  <2>1. /\ pc[c] = "go_dl" /\ pc'[c] = "go_free" /\ cyc' = cyc /\ incall' = incall
        /\ UNCHANGED <<heap, ld, mainld>> /\ mapped \ {m} \subseteq mapped'
    BY <1>7, GotoLabel DEF GoDlclose, At, Moves
  <2>2. Linked' = Linked
    BY <1>4, <2>1 DEF Linked, InHand
  <2>3. (pc[c] \in WalkPcs => IsList(cyc[c], Linked))'
    BY <1>4, <2>1, <2>2 DEF WalkInv, IsList, WalkPcs
  <2> QED BY <1>2, <1>4, <2>1, <2>2, <2>3 DEF WalkInv
<1>8. CASE GoFree(c)
  <2>1. /\ pc[c] = "go_free" /\ pc'[c] = (IF next[m] = 0 THEN "go_clear" ELSE "go_log")
        /\ cyc'[c] = next[m] /\ incall' = incall /\ UNCHANGED <<ld, mainld, mapped>>
        /\ heap' = [heap EXCEPT ![m] = "freed"]
    BY <1>8, GotoCursor DEF GoFree, At, Moves
  <2>2. m \in Linked /\ m \in Node /\ IsList(m, Linked)
    BY <1>3, <2>1 DEF WalkInv, WalkPcs
  <2>3. InHand' = InHand /\ heap'[m] = "freed" /\ \A x \in Node \ {m} : heap'[x] = heap[x]
    BY <1>4, <2>1, <2>2 DEF InHand, TypeInv, TypeOK, NodeType
  <2>4. \A x : x \in Linked' <=> x \in Linked /\ x # m
    BY <2>2, <2>3 DEF Linked
  <2>5. ASSUME next[m] # 0 PROVE IsList(cyc[c], Linked)'
    BY <1>3, <1>4, <2>1, <2>2, <2>4, <2>5 DEF IsList
  <2>6. (pc[c] \in WalkPcs => IsList(cyc[c], Linked))'
    BY <2>1, <2>5 DEF WalkPcs
  <2>7. \A x \in Linked' : ld'[x] # "dead" /\ (fn'[x] # {} => x \in mapped')
    BY <1>4, <2>1, <2>4 DEF WalkInv
  <2> QED BY <1>2, <2>1, <2>6, <2>7 DEF WalkInv
<1>9. CASE GoClear(c) \/ GoLogDel(c) \/ GoExit(c)
  <2>1. /\ pc[c] \in LastPcs /\ pc'[c] \in LastPcs /\ cyc' = cyc /\ incall' = incall
        /\ UNCHANGED <<heap, ld,
               mapped>> /\ (mainld' = "dead" => mainld = "dead" \/ pc'[c] = "go_exit")
        /\ mainld = "dead" => mainld' # "dead" \/ pc'[c] = "go_exit"
    BY <1>9, GotoLabel DEF GoClear, GoLogDel, GoExit, At, Moves, LastPcs, WalkInv
  <2>2. Linked' = Linked
    BY <1>4, <2>1 DEF Linked, InHand, LastPcs
  <2> QED BY <1>2, <1>4, <2>1, <2>2 DEF WalkInv, WalkPcs, LastPcs
<1> QED BY <1>1, <1>5, <1>6, <1>7, <1>8, <1>9 DEF GameStep

-----------------------------------------------------------------------------
(***************************************************************************)
(* The invariant.                                                          *)
(***************************************************************************)
\* The initial state.
LEMMA InitInvariant == Init => Inv
<1> SUFFICES ASSUME Init PROVE Inv
  OBVIOUS
<1>1. TypeInv
  BY InitTypeInv
<1>2. pc["main"] = "start" /\ pc["alrm"] = "idle" /\ pc["usr1"] = "idle"
  BY DEF Init
<1>3. Intact /\ FaultsOnlyInGameover /\ AloneInv
  BY <1>2 DEF Init, Intact, Tearing, WalkPcs, LastPcs, FaultsOnlyInGameover, AloneInv
<1>4. Linked = {}
  BY <1>2 DEF Init, Linked
<1>5. IsList(cychead, Linked) /\ NodesOK /\ TailOK
  BY <1>4 DEF Init, IsList, NodesOK, TailOK
<1>6. FreshOK
  BY <1>2 DEF Init, FreshOK, EntryPcs
<1>7. CursorsLinked
  BY <1>2 DEF Init, CursorsLinked, TickPcs
<1> QED BY <1>1, <1>3, <1>5, <1>6, <1>7 DEF Inv, IntactInv, ListInv

\* The frames that tear the list down, when the frame that moves is main or the
\* timer handler or none: they keep their labels.
LEMMA FrameSteps ==
  ASSUME Inv, TypeInv', LogsKept,
         UNCHANGED <<heap, next, fn, mapped, cychead, cycheadnext, entry, cycnext>>,
         \A c \in {"main", "usr1"} : /\ Tearing(c)' <=> Tearing(c)
                                     /\ Tearing(c) => pc'[c] = pc[c]
                                     /\ cyc'[c] = cyc[c] /\ (c \in incall' <=> c \in incall),
         pc'["main"] = pc["main"],
         Intact => /\ pc'["alrm"] \in TickPcs \ {"tick"} => cyc'["alrm"] \in Linked
                   /\ "alrm" \in incall' => fn[cyc'["alrm"]] # {}
  PROVE  IntactInv' /\ AloneInv'
<1>1. IntactInv'
  <2>1. incall' \subseteq Frames
    BY DEF TypeInv, TypeOK, FrameType
  <2>2. Intact' => Intact
    BY DEF Intact
  <2>3. ASSUME Intact PROVE ListInv'
    BY <2>1, <2>3, FrameOnly DEF Inv, IntactInv
  <2> QED BY <2>2, <2>3 DEF IntactInv
<1>2. ASSUME NEW c \in {"main", "usr1"}, Tearing(c), WalkInv(c) PROVE WalkInv(c)'
  BY <1>2, WalkSame
<1>3. AloneInv'
  BY <1>2 DEF Inv, AloneInv
<1> QED BY <1>1, <1>3

\* A step of main is taken only while the list is intact, and keeps it so.
LEMMA MainInvariant ==
  ASSUME Inv, TypeInv', MainStep
  PROVE  Intact' /\ ListInv' /\ status' # "undefined"
<1> USE DEF procVars, heapVars, dataVars, listVars, fileVars, libVars, mainVars, histVars
<1>1. /\ run = "main" /\ status = "running" /\ status' # "undefined"
      /\ pc["main"] \in LoadPcs \cup BindPcs \cup InitPcs
      /\ pc'["usr1"] = pc["usr1"] /\ pc'["main"] \in LoadPcs \cup BindPcs \cup InitPcs \cup {"pause", "go"}
  <2>1. CASE LoadStep
    <3>1. Main("start") \/ \E l \in LoadPcs : Main(l)
      BY <2>1 DEF LoadStep, Start, SigAction, SetTimer, LoadFile, ReadFile, OpenDir, ReadDir, DlSym,
                  CycMake, Link, SetTail, Wire, DirEnd, LoadPcs
    <3>2. pc' = pc \/ \E l \in LoadPcs \cup {"match", "go"} : Goto("main", l)
      BY <2>1 DEF LoadStep, Start, SigAction, SetTimer, LoadFile, ReadFile, OpenDir, ReadDir, DlSym,
                  CycMake, Link, SetTail, Wire, DirEnd, LoadPcs, GotoNode
    <3>3. status' = status \/ status' = "exited"
      BY <2>1 DEF LoadStep, Start, SigAction, SetTimer, LoadFile, ReadFile, OpenDir, ReadDir, DlSym,
                  CycMake, Link, SetTail, Wire, DirEnd, Exit
    <3>4. run = "main" /\ status = "running" /\ pc["main"] \in LoadPcs
      BY <3>1 DEF Main, At, Moves, LoadPcs
    <3> QED BY <3>2, <3>3, <3>4, GotoLabel DEF Inv, LoadPcs, BindPcs
  <2>2. CASE BindStep
    <3>1. \E l \in BindPcs : Main(l)
      BY <2>2 DEF BindStep, MatchNode, MatchEnd, Prune, Unlink, FreeNode, BindPcs
    <3>2. \E l \in BindPcs \cup {"init", "go"} : Goto("main", l)
      BY <2>2 DEF BindStep, MatchNode, MatchEnd, Prune, Unlink, FreeNode, BindPcs, GotoNode
    <3>3. status' = status
      BY <2>2 DEF BindStep, MatchNode, MatchEnd, Prune, Unlink, FreeNode
    <3> QED BY <3>1, <3>2, <3>3, GotoLabel DEF Inv, Main, At, Moves, BindPcs, InitPcs
  <2>3. CASE InitStep
    <3>1. \E l \in InitPcs : At("main", l)
      BY <2>3 DEF InitStep, TimeInit, TimeInitReturn, InitNext, Invoke, Return, Main, InitPcs
    <3>2. pc' = pc \/ \E l \in InitPcs \cup {"pause", "go"} : Goto("main", l)
      BY <2>3 DEF InitStep, TimeInit, TimeInitReturn, InitNext, Invoke, Return, AfterCall,
             OnError, InitPcs, GotoNode
    <3>3. status' = status
      BY <2>3 DEF InitStep, TimeInit, TimeInitReturn, InitNext
    <3> QED BY <3>1, <3>2, <3>3, GotoLabel DEF Inv, At, Moves
  <2> QED BY <2>1, <2>2, <2>3 DEF MainStep
<1>2. pc["usr1"] = "idle"
  BY <1>1, MainRuns DEF Inv
<1>3. Intact /\ Intact'
  BY <1>1, <1>2 DEF Intact, Tearing, WalkPcs, LastPcs, LoadPcs, BindPcs, InitPcs
<1>4. ListInv'
  BY <1>3, LoadInv, BindInv, InitInv DEF MainStep, Inv, IntactInv
<1> QED BY <1>1, <1>3, <1>4

\* Every step keeps the invariant.
LEMMA StepInvariant == Inv /\ [Next]_vars => Inv'
<1> SUFFICES ASSUME Inv, [Next]_vars PROVE Inv'
  OBVIOUS
<1> USE DEF procVars, heapVars, dataVars, listVars, fileVars, libVars, mainVars, histVars
<1>0. TypeInv /\ TypeInv'
  BY StepTypes DEF Inv
<1>1. CASE Tick \/ Stop \/ UNCHANGED vars
  <2>1. /\ UNCHANGED <<heap, next, fn, ld, mapped, cychead, cycheadnext, mainld, entry, cycnext,
         pc, cyc, incall, run, logging>>
        /\ status' # "undefined" \/ status' = status
    BY <1>1 DEF Tick, Stop, vars
  <2>2. IntactInv' /\ AloneInv'
    BY <1>0, <2>1, FrameSteps DEF LogsKept, Tearing, Inv, IntactInv, ListInv, CursorsLinked
  <2>3. FaultsOnlyInGameover'
    BY <2>1 DEF Inv, FaultsOnlyInGameover, InGameover, UsesLost, LogOf
  <2> QED BY <1>0, <2>2, <2>3 DEF Inv
<1>2. ASSUME NEW h \in Handlers, Deliver(h) PROVE Inv'
  <2>1. /\ UNCHANGED <<heap, next, fn, ld, mapped, cychead, cycheadnext, mainld, entry, cycnext,
         cyc, incall, status>>
        /\ status = "running" /\ pc[h] = "idle"
        /\ pc'[h] = (IF h = "alrm" THEN "tick" ELSE "go") /\ \A d \in Frames \ {h} : pc'[d] = pc[d]
    BY <1>0, <1>2, GotoLabel DEF Deliver, TypeInv, StackOK
  <2>2. \A c \in {"main", "usr1"} : (Tearing(c)' <=> Tearing(c)) /\ (Tearing(c) => pc'[c] = pc[c])
    BY <2>1 DEF Tearing, WalkPcs, LastPcs
  <2>3. Intact => /\ pc'["alrm"] \in TickPcs \ {"tick"} => cyc'["alrm"] \in Linked
                  /\ "alrm" \in incall' => fn[cyc'["alrm"]] # {}
    BY <2>1 DEF Inv, IntactInv, ListInv, CursorsLinked
  <2>4. IntactInv' /\ AloneInv'
    BY <1>0, <2>1, <2>2, <2>3, FrameSteps DEF LogsKept
  <2>5. FaultsOnlyInGameover'
    BY <2>1 DEF FaultsOnlyInGameover
  <2> QED BY <1>0, <2>4, <2>5 DEF Inv
<1>3. CASE MainStep
  BY <1>0, <1>3, MainInvariant DEF Inv, IntactInv, AloneInv, Intact, FaultsOnlyInGameover
<1>4. CASE TickStep
  <2>1. /\ status' # "undefined"
        /\ UNCHANGED <<heap, next, fn, ld, mapped, cychead, cycheadnext, mainld, entry, cycnext>>
        /\ \A c \in {"main", "usr1"} : /\ pc'[c] = pc[c] /\ cyc'[c] = cyc[c]
                                       /\ c \in incall' <=> c \in incall
    BY <1>0, <1>4, TickQuiet
  <2>2. \A c \in {"main", "usr1"} : Tearing(c)' <=> Tearing(c)
    BY <2>1 DEF Tearing
  <2>3. Intact => /\ pc'["alrm"] \in TickPcs \ {"tick"} => cyc'["alrm"] \in Linked
                  /\ "alrm" \in incall' => fn[cyc'["alrm"]] # {}
    BY <1>0, <1>4, TickCursor DEF Inv, IntactInv
  <2>4. IntactInv' /\ AloneInv'
    BY <1>0, <2>1, <2>2, <2>3, FrameSteps DEF LogsKept
  <2>5. FaultsOnlyInGameover'
    BY <2>1 DEF FaultsOnlyInGameover
  <2> QED BY <1>0, <2>4, <2>5 DEF Inv
<1>5. ASSUME NEW c \in {"main", "usr1"}, GameStep(c) PROVE Inv'
  <2> DEFINE o == IF c = "main" THEN "usr1" ELSE "main"
  <2>1. /\ run = c /\ status' # "undefined"
        /\ UNCHANGED <<next, fn, entry>>
        /\ \A d \in Frames \ {c} : pc'[d] = pc[d] /\ cyc'[d] = cyc[d] /\ (d \in incall' <=> d \in incall)
    BY <1>0, <1>5, GameQuiet
  <2>2. FaultsOnlyInGameover'
    BY <2>1 DEF FaultsOnlyInGameover
  <2>3. c = "main" => ~Tearing("usr1")
    BY <1>0, <2>1, MainRuns DEF Tearing, WalkPcs, LastPcs
  <2>4. Tearing(o)' <=> Tearing(o)
    BY <2>1 DEF Tearing
  <2>5. CASE Intact
    <3>1. ListInv
      BY <2>5 DEF Inv, IntactInv
    <3>2. \/ Tearing(c)' /\ WalkInv(c)'
          \/ Intact' /\ ListInv'
      BY <1>0, <1>5, <2>5, <3>1, BeginWalk
    <3> QED BY <1>0, <2>2, <2>4, <2>5, <3>2 DEF Inv, IntactInv, AloneInv, Intact
  <2>6. CASE Tearing(c) /\ ~Tearing(o)
    <3>1. Tearing(c)' /\ WalkInv(c)'
      BY <1>0, <1>5, <2>6, TearingStays, WalkStep DEF Inv, AloneInv
    <3> QED BY <1>0, <2>2, <2>4, <2>6, <3>1 DEF Inv, IntactInv, AloneInv, Intact
  <2>7. CASE ~Tearing(c) /\ Tearing(o)
    <3>1. c = "usr1" /\ WalkInv("main")
      BY <2>3, <2>7 DEF Inv, AloneInv
    <3>2. GameOver(c)
      BY <1>5, <2>7 DEF GameStep, GoLog, GoLd, TimeDel, TimeDelReturn, GoDlclose, GoFree, GoClear,
         GoLogDel, GoExit, Invoke, Return, At, Moves, Tearing, WalkPcs, LastPcs
    <3>3. WalkInv("main")'
      BY <2>1, <3>1, <3>2, WalkSame DEF GameOver, LogsKept
    <3> QED BY <1>0, <2>2, <2>4, <2>7, <3>1, <3>3 DEF Inv, IntactInv, AloneInv, Intact
  <2>8. CASE Tearing(c) /\ Tearing(o)
    <3>1. Tearing(c)'
      BY <1>0, <1>5, <2>8, TearingStays
    <3> QED BY <1>0, <2>2, <2>4, <2>8, <3>1 DEF Inv, IntactInv, AloneInv, Intact
  <2> QED BY <2>5, <2>6, <2>7, <2>8 DEF Intact
<1>6. ASSUME NEW c \in Frames, Fault(c) PROVE Inv'
  <2>1. /\ UNCHANGED <<heap, next, fn, ld, mapped, cychead, cycheadnext, mainld, entry, cycnext,
         pc, cyc, incall, run, logging>>
        /\ run = c /\ Undefined(c)
    BY <1>6 DEF Fault
  <2>2. IntactInv' /\ AloneInv'
    BY <1>0, <2>1, FrameSteps DEF LogsKept, Tearing, Inv, IntactInv, ListInv, CursorsLinked
  <2>3. Intact => UsesLost(run)
    BY <1>0, <2>1, IntactDefined DEF Inv, IntactInv
  <2>4. UsesLost(run) \/ \E d \in {"main", "usr1"} : d # run /\ Tearing(d)
    BY <1>0, <2>1, <2>3, WalkDefined DEF Inv, AloneInv, Intact
  <2>5. UsesLost(run) => UsesLost(run)'
    BY <2>1 DEF UsesLost, LogOf
  <2>6. FaultsOnlyInGameover'
    BY <2>1, <2>4, <2>5 DEF FaultsOnlyInGameover, InGameover, Tearing, GamePcs
  <2> QED BY <1>0, <2>2, <2>6 DEF Inv
<1>7. ASSUME NEW c \in Frames, MethodLog(c) \/ LogDone(c) PROVE Inv'
  <2>1. /\ UNCHANGED <<heap, next, fn, mapped, cychead, cycheadnext, entry, cycnext,
         pc, cyc, incall>>
        /\ LogsKept /\ status' = "running"
    BY <1>0, <1>7, LogQuiet
  <2>2. IntactInv' /\ AloneInv'
    BY <1>0, <2>1, FrameSteps DEF Tearing, Inv, IntactInv, ListInv, CursorsLinked
  <2>3. FaultsOnlyInGameover'
    BY <2>1 DEF FaultsOnlyInGameover
  <2> QED BY <1>0, <2>2, <2>3 DEF Inv
<1> QED BY <1>1, <1>2, <1>3, <1>4, <1>5, <1>6, <1>7 DEF Next, Ended

\* Whatever cycmake, freeCycdata or toSetCycdata have done when a signal
\* interrupts them, the list at cychead holds exactly the live libraries in
\* load order, until a gameover takes it down.
THEOREM ListAlwaysIntact == Spec => []ListIntact
<1>1. Spec => []Inv
  BY InitInvariant, StepInvariant, PTL DEF Spec
<1>2. Inv => ListIntact
  BY DEF Inv, IntactInv, ListInv, ListIntact
<1> QED BY <1>1, <1>2, PTL

\* The daemon reads no freed node, runs no unloaded library and uses no log that
\* gameover has deleted, unless a handler has interrupted a gameover in progress;
\* a log that logLog has deleted after a failed reopen is the one other thing it
\* can use wrongly.
THEOREM FaultsNeedGameover == Spec => []FaultsOnlyInGameover
<1>1. Spec => []Inv
  BY InitInvariant, StepInvariant, PTL DEF Spec
<1>2. Inv => FaultsOnlyInGameover
  BY DEF Inv
<1> QED BY <1>1, <1>2, PTL

=============================================================================
