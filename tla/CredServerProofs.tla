-------------------------- MODULE CredServerProofs --------------------------
(***************************************************************************)
(* Proofs about CredServer, for any number of connections and reloads: the *)
(* status line is never left behind the counters, and the counters are     *)
(* right.                                                                  *)
(***************************************************************************)
EXTENDS CredServer, FiniteSetTheorems, TLAPS

\* Nothing is on its way to the loop: no signal, and no count without one.
Quiet == ~stats /\ \A c \in Conns : conns[c].pc # "counted"

\* While nothing is on its way, what the loop has read of the counters so far
\* is what they are.
LineCurrent ==
  Quiet =>
    /\ loop \in {"refused", "stale", "notify"} => line.served = served
    /\ loop \in {"stale", "notify"} => line.refused = refused
    /\ loop = "waiting" => status.served = served /\ status.refused = refused

ServerInv == TypeOK /\ LineCurrent

\* The counters and the line start equal.
LEMMA ServerInit == Init => ServerInv
<1> SUFFICES ASSUME Init PROVE ServerInv
  OBVIOUS
<1>1. NoLine \in Line
  BY DEF NoLine, Line
<1>2. conns \in [Conns -> Conn]
  BY DEF Init, Conn
<1>3. TypeOK
  BY <1>1, <1>2 DEF Init, TypeOK
<1>4. LineCurrent
  BY DEF Init, LineCurrent, NoLine
<1> QED  BY <1>3, <1>4 DEF ServerInv

\* A connection's handler keeps the line current, because it counts before it
\* signals.
LEMMA HandleStep ==
  ASSUME ServerInv, NEW c \in Conns, Handle(c)
  PROVE  ServerInv'
<1> USE DEF ServerInv, TypeOK, Conn
<1>1. CASE Accept(c) \/ Reject(c) \/ Resolve(c) \/ Withhold(c) \/ Write(c)
           \/ Close(c)
  <2>1. /\ conns' \in [Conns -> Conn] /\ stale' \in Nat
        /\ UNCHANGED <<served, refused, stats, mainLoop>>
        /\ \A d \in Conns : conns[d].pc = "counted" => conns'[d].pc = "counted"
    BY <1>1 DEF Accept, Reject, Resolve, Withhold, Write, Close, Step, counters
  <2> QED  BY <2>1 DEF LineCurrent, Quiet, mainLoop
<1>2. CASE Count(c)
  <2>1. conns' \in [Conns -> Conn] /\ conns'[c].pc = "counted"
    BY <1>2 DEF Count, Step
  <2> QED  BY <1>2, <2>1 DEF Count, LineCurrent, Quiet, mainLoop
<1>3. CASE Signal(c)
  <2>1. conns' \in [Conns -> Conn] /\ stats'
    BY <1>3 DEF Signal, Step
  <2> QED  BY <1>3, <2>1 DEF Signal, LineCurrent, Quiet, mainLoop, counters
<1> QED  BY <1>1, <1>2, <1>3 DEF Handle

\* The loop takes a signal before it reads the counters.
LEMMA LoopStep == ASSUME ServerInv, Loop \/ TakeReload PROVE ServerInv'
<1> USE DEF ServerInv, TypeOK, Line, LineCurrent, Quiet, counters
<1>1. CASE TakeStats      BY <1>1 DEF TakeStats
<1>2. CASE TakeReload     BY <1>2 DEF TakeReload
<1>3. CASE EndReload      BY <1>3 DEF EndReload
<1>4. CASE ReadServed     BY <1>4 DEF ReadServed
<1>5. CASE ReadRefused    BY <1>5 DEF ReadRefused
<1>6. CASE ReadStale      BY <1>6 DEF ReadStale
<1>7. CASE Notify         BY <1>7 DEF Notify
<1> QED  BY <1>1, <1>2, <1>3, <1>4, <1>5, <1>6, <1>7 DEF Loop

\* Every step keeps the line current.
LEMMA ServerStep == ServerInv /\ [Next]_vars => ServerInv'
<1>1. ASSUME ServerInv, UNCHANGED vars PROVE ServerInv'
  BY <1>1 DEF vars, ServerInv, TypeOK, LineCurrent, Quiet
<1> QED  BY <1>1, HandleStep, LoopStep DEF Next

\* In every behaviour the status line is current whenever nothing is on its
\* way to it.
THEOREM StatusStaysCurrent == Spec => []StatusIsCurrent
<1>1. ServerInv => StatusIsCurrent
  BY DEF ServerInv, LineCurrent, Quiet, StatusIsCurrent
<1> QED  BY ServerInit, ServerStep, <1>1, PTL DEF Spec

\* The server and the loop are well typed in every behaviour.
THEOREM ServerTypeCorrect == Spec => []TypeOK
<1>1. ServerInv => TypeOK
  BY DEF ServerInv
<1> QED  BY ServerInit, ServerStep, <1>1, PTL DEF Spec

-----------------------------------------------------------------------------
\* The connections each counter stands for.
Counted == {c \in Conns : After(c) /\ conns[c].got = "all"}
Failed  == {c \in Conns : After(c) /\ conns[c].got # "all"}

LEMMA CountedAreFinite == IsFiniteSet(Counted) /\ IsFiniteSet(Failed)
BY ServerAssumptions, FS_Subset DEF ServerAssumptions, Counted, Failed

\* No step but Count changes what a connection is counted as: what the
\* requester got is settled before it, and its count is not taken back.
LEMMA OthersDoNotCount ==
  ASSUME TypeOK, NEW c \in Conns, Handle(c), ~Count(c)
  PROVE  UNCHANGED <<Counted, Failed, served, refused>>
<1> USE DEF TypeOK, Conn
<1>1. UNCHANGED <<served, refused>>
  BY DEF Handle, Accept, Reject, Resolve, Withhold, Write, Signal, Close,
         counters
<1>2. \A d \in Conns :
        /\ After(d)' <=> After(d)
        /\ After(d) => conns'[d].got = conns[d].got
  <2>1. CASE Write(c)
    BY <2>1 DEF Write, After
  <2>2. CASE ~Write(c)
    BY <2>2 DEF Handle, Accept, Reject, Resolve, Withhold, Signal, Close, Step,
                After
  <2> QED  BY <2>1, <2>2
<1> QED  BY <1>1, <1>2 DEF Counted, Failed

\* Count adds the connection to one of the two, and to its counter.
LEMMA CountCounts ==
  ASSUME TypeOK, EveryConnectionIsCounted, NEW c \in Conns, Count(c)
  PROVE  EveryConnectionIsCounted'
<1> USE DEF TypeOK, Conn
<1>1. /\ ~After(c) /\ After(c)' /\ conns'[c].got = conns[c].got
      /\ \A d \in Conns \ {c} : conns'[d] = conns[d]
  BY DEF Count, Step, After
<1>2. c \notin Counted /\ c \notin Failed
  BY <1>1 DEF Counted, Failed
<1>3. served = Cardinality(Counted) /\ refused = Cardinality(Failed)
  BY DEF EveryConnectionIsCounted, Counted, Failed
<1>4. CASE conns[c].got = "all"
  <2>1. Counted' = Counted \cup {c} /\ Failed' = Failed
    BY <1>1, <1>4 DEF Counted, Failed, After
  <2>2. served' = served + 1 /\ refused' = refused
    BY <1>4 DEF Count
  <2>3. served' = Cardinality(Counted') /\ refused' = Cardinality(Failed')
    BY <1>2, <1>3, <2>1, <2>2, CountedAreFinite, FS_AddElement
  <2> QED  BY <2>3 DEF EveryConnectionIsCounted, Counted, Failed
<1>5. CASE conns[c].got # "all"
  <2>1. Failed' = Failed \cup {c} /\ Counted' = Counted
    BY <1>1, <1>5 DEF Counted, Failed, After
  <2>2. refused' = refused + 1 /\ served' = served
    BY <1>5 DEF Count
  <2>3. served' = Cardinality(Counted') /\ refused' = Cardinality(Failed')
    BY <1>2, <1>3, <2>1, <2>2, CountedAreFinite, FS_AddElement
  <2> QED  BY <2>3 DEF EveryConnectionIsCounted, Counted, Failed
<1> QED  BY <1>4, <1>5

\* Every connection that ends is counted once, and as served exactly when its
\* requester got the whole credential, for any number of connections.
THEOREM EveryEndIsCounted == Spec => []EveryConnectionIsCounted
<1>1. Init => EveryConnectionIsCounted
  <2> SUFFICES ASSUME Init PROVE EveryConnectionIsCounted
    OBVIOUS
  <2>1. {c \in Conns : After(c) /\ conns[c].got = "all"} = {}
    BY DEF Init, After
  <2>2. {c \in Conns : After(c) /\ conns[c].got # "all"} = {}
    BY DEF Init, After
  <2>3. served = 0 /\ refused = 0
    BY DEF Init
  <2> QED  BY <2>1, <2>2, <2>3, FS_EmptySet DEF EveryConnectionIsCounted
<1>2. ServerInv /\ EveryConnectionIsCounted /\ [Next]_vars
        => EveryConnectionIsCounted'
  <2> SUFFICES ASSUME ServerInv, EveryConnectionIsCounted, [Next]_vars
               PROVE  EveryConnectionIsCounted'
    OBVIOUS
  <2>1. TypeOK
    BY DEF ServerInv
  <2>2. ASSUME NEW c \in Conns, Handle(c) PROVE EveryConnectionIsCounted'
    <3>1. CASE Count(c)
      BY <2>1, <3>1, CountCounts
    <3>2. CASE ~Count(c)
      <4>1. UNCHANGED <<Counted, Failed, served, refused>>
        BY <2>1, <2>2, <3>2, OthersDoNotCount
      <4> QED  BY <4>1 DEF EveryConnectionIsCounted, Counted, Failed
    <3> QED  BY <3>1, <3>2
  <2>3. CASE Loop \/ TakeReload \/ UNCHANGED vars
    <3>1. UNCHANGED <<conns, served, refused>>
      BY <2>3 DEF Loop, TakeStats, TakeReload, EndReload, ReadServed,
                  ReadRefused, ReadStale, Notify, counters, vars
    <3> QED  BY <3>1 DEF EveryConnectionIsCounted, After
  <2> QED  BY <2>2, <2>3 DEF Next
<1> QED  BY ServerInit, ServerStep, <1>1, <1>2, PTL DEF Spec
=============================================================================
