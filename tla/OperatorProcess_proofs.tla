----------------------- MODULE OperatorProcess_proofs -----------------------
(***************************************************************************)
(* Proofs about OperatorProcess, for any IpfsNodes and clients: each       *)
(* reconciliation is measured once, and one signal breaks none off.        *)
(***************************************************************************)
EXTENDS OperatorProcess, TLAPS

(* What the counters count.  The second conjunct needs the first to know   *)
(* that a difference never becomes negative.                               *)
CountersType ==
  /\ task \in [Nodes -> {"none", "event", "working", "failed"}]
  /\ begun \in [Nodes -> Nat]
  /\ measured \in [Nodes -> Nat]
  /\ failures \in [Nodes -> Nat]
  /\ ended \in [Nodes -> Nat]
  /\ signals \in Nat

CountersInv == CountersType /\ MeasuredOnce

(* Before the first signal nothing drains, and before the second nothing   *)
(* is aborted: what was measured has ended.                                *)
OneSignal ==
  /\ signals = 0 => ctl \in {"querying", "running"} /\ srv = "serving"
  /\ signals <= 1 => \A n \in Nodes : ended[n] = measured[n]
  /\ ctl = "done" /\ signals <= 1 => \A n \in Nodes : task[n] = "none"
  /\ proc = "exited" => ctl = "done"

ProcessInv == CountersInv /\ OneSignal

-----------------------------------------------------------------------------
(* What one step of one reconciliation does to the counters.               *)
LEMMA CountersStart == OpInit => CountersInv
  BY DEF OpInit, CountersInv, CountersType, MeasuredOnce, Running

LEMMA CountersBegin ==
  ASSUME CountersInv, NEW n \in Nodes, Begin(n)
  PROVE  CountersInv'
  BY OpAssumption
  DEF CountersInv, CountersType, MeasuredOnce, Running, Begin

LEMMA CountersWriteEvent ==
  ASSUME CountersInv, NEW n \in Nodes, WriteEvent(n)
  PROVE  CountersInv'
  BY DEF CountersInv, CountersType, MeasuredOnce, Running, WriteEvent, counters

LEMMA CountersEnd ==
  ASSUME CountersInv, NEW n \in Nodes, End(n)
  PROVE  CountersInv'
<1>1. PICK result \in {"none", "failed"} : task' = [task EXCEPT ![n] = result]
  BY DEF End
<1>2. CountersType'
  BY <1>1 DEF CountersInv, CountersType, End
<1>3. MeasuredOnce'
  BY <1>1 DEF CountersInv, CountersType, MeasuredOnce, Running, End
<1> QED
  BY <1>2, <1>3 DEF CountersInv

LEMMA CountersErrorPolicy ==
  ASSUME CountersInv, NEW n \in Nodes, ErrorPolicy(n)
  PROVE  CountersInv'
  BY DEF CountersInv, CountersType, MeasuredOnce, Running, ErrorPolicy

LEMMA CountersAbort ==
  ASSUME CountersInv, Abort, UNCHANGED <<begun, failures, ended>>,
         signals' \in Nat
  PROVE  CountersInv'
<1>1. CountersType'
  BY DEF CountersInv, CountersType, Abort
<1>2. ASSUME NEW n \in Nodes
      PROVE  /\ task'[n] = "none"
             /\ measured'[n] =
                  measured[n] + IF task[n] \in Running THEN 1 ELSE 0
  BY DEF CountersInv, CountersType, Abort
<1>3. MeasuredOnce'
  BY <1>2 DEF CountersInv, CountersType, MeasuredOnce, Running
<1> QED
  BY <1>1, <1>3 DEF CountersInv

LEMMA CountersFrame ==
  ASSUME CountersInv, UNCHANGED <<task, counters>>, signals' \in Nat
  PROVE  CountersInv'
  BY DEF CountersInv, CountersType, MeasuredOnce, Running, counters

-----------------------------------------------------------------------------
(* Steps that touch neither a reconciliation nor the way to the exit.      *)
Aside ==
  \/ \E c \in Clients : Ask(c) \/ Answer(c) \/ Sent(c)
  \/ ServerDone

LEMMA AsideKeeps ==
  ASSUME ProcessInv, Aside
  PROVE  ProcessInv'
<1>1. /\ UNCHANGED <<task, ctl, proc, signals, counters>>
      /\ srv' = srv \/ (srv = "draining" /\ srv' = "done")
  BY DEF Aside, Ask, Answer, Sent, ServerDone, counters
<1>2. CountersInv'
  BY <1>1, CountersFrame DEF ProcessInv, CountersInv, CountersType
<1>3. OneSignal'
  BY <1>1 DEF ProcessInv, OneSignal, counters
<1> QED
  BY <1>2, <1>3 DEF ProcessInv

(* A reconciliation moves only while the controller is not done, or after  *)
(* a second signal.                                                        *)
LEMMA ReconciliationKeeps ==
  ASSUME ProcessInv, Up, NEW n \in Nodes,
         Begin(n) \/ WriteEvent(n) \/ End(n) \/ ErrorPolicy(n)
  PROVE  ProcessInv'
<1>1. CountersInv'
  BY CountersBegin, CountersWriteEvent, CountersEnd, CountersErrorPolicy
  DEF ProcessInv
<1>2. UNCHANGED <<proc, ctl, srv, signals>>
  BY DEF Begin, WriteEvent, End, ErrorPolicy
<1>3. \A m \in Nodes : ended[m] = measured[m] => ended'[m] = measured'[m]
  <2>1. CASE Begin(n) \/ WriteEvent(n) \/ ErrorPolicy(n)
    BY <2>1 DEF Begin, WriteEvent, ErrorPolicy, counters
  <2>2. CASE End(n)
    <3>1. /\ measured' = [measured EXCEPT ![n] = @ + 1]
          /\ ended' = [ended EXCEPT ![n] = @ + 1]
      BY <2>2 DEF End
    <3> QED
      BY <3>1 DEF ProcessInv, CountersInv, CountersType
  <2> QED
    BY <2>1, <2>2
<1>4. ctl = "done" => task[n] # "none"
  BY DEF Begin, WriteEvent, End, ErrorPolicy
<1>5. OneSignal'
  BY <1>2, <1>3, <1>4 DEF ProcessInv, OneSignal
<1> QED
  BY <1>1, <1>5 DEF ProcessInv

LEMMA SignalKeeps ==
  ASSUME ProcessInv, Up, Signal
  PROVE  ProcessInv'
<1>1. signals' = signals + 1 /\ signals' \in Nat /\ proc' = proc /\ proc = "up"
  BY DEF Signal, Up, ProcessInv, CountersInv, CountersType
<1>2. CASE ctl = "draining"
  <2>1. signals' > 1
    BY <1>1, <1>2 DEF ProcessInv, OneSignal, CountersInv, CountersType
  <2>2. CountersInv'
    BY <1>1, <1>2, CountersAbort DEF Signal, ProcessInv
  <2>3. OneSignal'
    BY <1>1, <2>1 DEF OneSignal
  <2> QED
    BY <2>2, <2>3 DEF ProcessInv
<1>3. CASE ctl # "draining"
  <2>1. UNCHANGED <<task, counters>>
    BY <1>3 DEF Signal, counters
  <2>2. ctl' = "done" => ctl = "done"
    BY <1>3 DEF Signal
  <2>3. CountersInv'
    BY <1>1, <2>1, CountersFrame DEF ProcessInv
  <2>4. OneSignal'
    BY <1>1, <2>1, <2>2
    DEF OneSignal, ProcessInv, CountersInv, CountersType, counters
  <2> QED
    BY <2>3, <2>4 DEF ProcessInv
<1> QED
  BY <1>2, <1>3

(* Start-up, and the way to the exit.                                      *)
LEMMA FrameKeeps ==
  ASSUME ProcessInv, Up,
         QuerySucceeds \/ QueryFails \/ ControllerDone \/ MainReturns
  PROVE  ProcessInv'
<1>1. UNCHANGED <<task, signals, counters, srv>>
  BY DEF QuerySucceeds, QueryFails, ControllerDone, MainReturns, counters
<1>2. CountersInv'
  BY <1>1, CountersFrame DEF ProcessInv, CountersInv, CountersType
<1>3. OneSignal'
  BY <1>1 DEF ProcessInv, OneSignal, Up, QuerySucceeds, QueryFails,
              ControllerDone, MainReturns, BothDone, counters
<1> QED
  BY <1>2, <1>3 DEF ProcessInv

THEOREM ProcessInductive == OpSpec => []ProcessInv
<1>1. OpInit => ProcessInv
  BY CountersStart DEF OpInit, ProcessInv, OneSignal
<1>2. ProcessInv /\ [OpNext]_opVars => ProcessInv'
  <2> SUFFICES ASSUME ProcessInv, [OpNext]_opVars PROVE ProcessInv'
    OBVIOUS
  <2>1. CASE UNCHANGED opVars
    <3>1. CountersInv'
      BY <2>1, CountersFrame
      DEF opVars, ProcessInv, CountersInv, CountersType
    <3>2. OneSignal'
      BY <2>1 DEF opVars, counters, ProcessInv, OneSignal
    <3> QED
      BY <3>1, <3>2 DEF ProcessInv
  <2>2. CASE OpNext
    <3>1. Up
      BY <2>2 DEF OpNext
    <3>2. CASE Aside
      BY <3>2, AsideKeeps
    <3>3. CASE \E n \in Nodes :
                 Begin(n) \/ WriteEvent(n) \/ End(n) \/ ErrorPolicy(n)
      BY <3>1, <3>3, ReconciliationKeeps
    <3>4. CASE Signal
      BY <3>1, <3>4, SignalKeeps
    <3>5. CASE QuerySucceeds \/ QueryFails \/ ControllerDone \/ MainReturns
      BY <3>1, <3>5, FrameKeeps
    <3> QED
      BY <2>2, <3>2, <3>3, <3>4, <3>5 DEF OpNext, Polled, Awaited, Aside
  <2> QED
    BY <2>1, <2>2
<1> QED
  BY <1>1, <1>2, PTL DEF OpSpec

-----------------------------------------------------------------------------
(* ReconcileMeasurer observes each reconciliation once, aborted ones too.  *)
THEOREM EveryRunIsMeasured == OpSpec => []MeasuredOnce
<1>1. ProcessInv => MeasuredOnce
  BY DEF ProcessInv, CountersInv
<1> QED
  BY <1>1, ProcessInductive, PTL

(* A process stopped by one signal has run its reconciliations to the end. *)
THEOREM OneSignalIsGraceful == OpSpec => []GracefulExit
<1>1. ProcessInv => GracefulExit
  <2> SUFFICES ASSUME ProcessInv, proc = "exited", signals = 1, NEW n \in Nodes
               PROVE  ended[n] = begun[n]
    BY DEF GracefulExit
  <2>1. task[n] = "none" /\ ended[n] = measured[n]
    BY DEF ProcessInv, OneSignal
  <2>2. begun[n] = measured[n] + 0
    BY <2>1 DEF ProcessInv, CountersInv, MeasuredOnce, Running
  <2> QED
    BY <2>1, <2>2 DEF ProcessInv, CountersInv, CountersType
<1> QED
  BY <1>1, ProcessInductive, PTL
-----------------------------------------------------------------------------
(* The line for the lock: who enters it, who leaves it, and that it is the *)
(* line of those who wait.                                                 *)
LineInv ==
  /\ line \in [Users -> SUBSET Waiting]
  /\ \A x \in Users : IF x \in Waiting THEN x \in line[x] ELSE line[x] = {}
  /\ \A x, y \in Users : line[x] \subseteq line[y] \/ line[y] \subseteq line[x]
  /\ \A x, y \in Waiting : x \in line[y] /\ y \in line[x] => x = y

PlacesOK ==
  /\ proc \in {"up", "failed", "exited"}
  /\ ctl \in {"querying", "running", "draining", "done"}
  /\ srv \in {"serving", "draining", "done"}
  /\ task \in [Nodes -> {"none", "event", "working", "failed"}]
  /\ req \in [Clients -> {"none", "waiting", "sending"}]

NumbersOK ==
  /\ signals \in 0 .. MaxSignals
  /\ begun \in [Nodes -> 0 .. MaxRuns]
  /\ measured \in [Nodes -> Nat]
  /\ failures \in [Nodes -> Nat]
  /\ ended \in [Nodes -> Nat]

LEMMA OpTypeParts == OpTypeOK <=> PlacesOK /\ LineInv /\ NumbersOK
  BY DEF OpTypeOK, PlacesOK, LineInv, NumbersOK

LEMMA WaitingAreUsers == Waiting \subseteq Users
  BY DEF Waiting, Users

LEMMA JoinLine ==
  ASSUME LineInv, NEW z \in Users \ Waiting, Join(z),
         Waiting' = Waiting \cup {z}
  PROVE  LineInv'
<1>1. InLine = Waiting
  BY WaitingAreUsers DEF InLine, LineInv
<1>2. /\ line' = [line EXCEPT ![z] = Waiting \cup {z}]
      /\ line'[z] = Waiting \cup {z}
      /\ \A x \in Users \ {z} : line'[x] = line[x]
  BY <1>1 DEF Join, LineInv
<1>3. line' \in [Users -> SUBSET (Waiting \cup {z})]
  BY <1>2 DEF LineInv
<1>4. \A x \in Users : IF x \in Waiting \cup {z} THEN x \in line'[x]
                                                ELSE line'[x] = {}
  BY <1>2 DEF LineInv
<1>5. \A x, y \in Users : \/ line'[x] \subseteq line'[y]
                         \/ line'[y] \subseteq line'[x]
  <2>1. \A x \in Users : line'[x] \subseteq line'[z]
    BY <1>2, <1>3
  <2> QED
    BY <1>2, <2>1 DEF LineInv
<1>6. \A x, y \in Waiting \cup {z} : x \in line'[y] /\ y \in line'[x] => x = y
  <2>1. \A x \in Waiting : z \notin line'[x]
    BY <1>2, WaitingAreUsers DEF LineInv
  <2> QED
    BY <1>2, <2>1, WaitingAreUsers DEF LineInv
<1> QED
  BY <1>3, <1>4, <1>5, <1>6 DEF LineInv, Users

LEMMA LeaveLine ==
  ASSUME LineInv, NEW who, Leave(who), Waiting' = Waiting \ who
  PROVE  LineInv'
<1>1. \A x \in Users : line'[x] = IF x \in who THEN {} ELSE line[x] \ who
  BY DEF Leave
<1>2. line' \in [Users -> SUBSET (Waiting \ who)]
  BY DEF Leave, LineInv
<1>3. \A x \in Users : IF x \in Waiting \ who THEN x \in line'[x]
                                             ELSE line'[x] = {}
  BY <1>1 DEF LineInv
<1>4. ASSUME NEW x \in Users, NEW y \in Users
      PROVE  line'[x] \subseteq line'[y] \/ line'[y] \subseteq line'[x]
  <2>1. CASE x \in who \/ y \in who
    BY <1>1, <2>1
  <2>2. CASE x \notin who /\ y \notin who
    <3>1. line'[x] = line[x] \ who /\ line'[y] = line[y] \ who
      BY <1>1, <2>2
    <3>2. line[x] \subseteq line[y] \/ line[y] \subseteq line[x]
      BY DEF LineInv
    <3> QED
      BY <3>1, <3>2
  <2> QED
    BY <2>1, <2>2
<1>5. ASSUME NEW x \in Waiting \ who, NEW y \in Waiting \ who,
             x \in line'[y], y \in line'[x]
      PROVE  x = y
  <2>1. x \in Users /\ y \in Users
    BY WaitingAreUsers
  <2>2. x \in line[y] /\ y \in line[x]
    BY <1>1, <1>5, <2>1
  <2> QED
    BY <2>2 DEF LineInv
<1> QED
  BY <1>2, <1>3, <1>4, <1>5 DEF LineInv, Users

LEMMA SameLine ==
  ASSUME LineInv, UNCHANGED <<line, Waiting>>
  PROVE  LineInv'
  BY DEF LineInv, Users

-----------------------------------------------------------------------------
(* Every step keeps the places, the numbers and the line.                  *)
LEMMA PlacesStep ==
  ASSUME PlacesOK, OpNext
  PROVE  PlacesOK'
<1>1. ASSUME NEW n \in Nodes,
             WriteEvent(n) \/ ErrorPolicy(n) \/ Begin(n) \/ End(n)
      PROVE  PlacesOK'
  BY <1>1 DEF PlacesOK, WriteEvent, ErrorPolicy, Begin, End
<1>2. ASSUME NEW c \in Clients, Answer(c) \/ Ask(c) \/ Sent(c)
      PROVE  PlacesOK'
  BY <1>2 DEF PlacesOK, Answer, Ask, Sent
<1>3. CASE Signal
  BY <1>3 DEF PlacesOK, Signal, Abort
<1>4. CASE \/ QuerySucceeds \/ QueryFails \/ ControllerDone \/ ServerDone
           \/ MainReturns
  BY <1>4 DEF PlacesOK, QuerySucceeds, QueryFails, ControllerDone, ServerDone,
              MainReturns
<1> QED
  BY <1>1, <1>2, <1>3, <1>4 DEF OpNext, Polled, Awaited

LEMMA NumbersStep ==
  ASSUME NumbersOK, OpNext
  PROVE  NumbersOK'
<1>1. ASSUME NEW n \in Nodes, Begin(n) PROVE NumbersOK'
  <2>1. begun[n] + 1 \in 0 .. MaxRuns
    BY <1>1, OpAssumption DEF NumbersOK, Begin
  <2>2. begun' = [begun EXCEPT ![n] = begun[n] + 1]
    BY <1>1 DEF Begin
  <2>3. begun' \in [Nodes -> 0 .. MaxRuns]
    BY <2>1, <2>2 DEF NumbersOK
  <2> QED
    BY <1>1, <2>3 DEF NumbersOK, Begin
<1>2. ASSUME NEW n \in Nodes, ErrorPolicy(n) \/ End(n) PROVE NumbersOK'
  BY <1>2 DEF NumbersOK, ErrorPolicy, End
<1>3. CASE Signal
  <2>1. signals' \in 0 .. MaxSignals
    BY <1>3, OpAssumption DEF NumbersOK, Signal
  <2>2. measured' \in [Nodes -> Nat]
    BY <1>3 DEF NumbersOK, Signal, Abort
  <2> QED
    BY <1>3, <2>1, <2>2 DEF NumbersOK, Signal
<1>4. CASE UNCHANGED <<signals, counters>>
  BY <1>4 DEF NumbersOK, counters
<1>5. ASSUME \/ \E n \in Nodes : WriteEvent(n)
             \/ \E c \in Clients : Answer(c) \/ Ask(c) \/ Sent(c)
             \/ QuerySucceeds \/ QueryFails \/ ControllerDone \/ ServerDone
             \/ MainReturns
      PROVE  UNCHANGED <<signals, counters>>
  BY <1>5 DEF WriteEvent, Answer, Ask, Sent, QuerySucceeds, QueryFails,
              ControllerDone, ServerDone, MainReturns
<1> QED
  BY <1>1, <1>2, <1>3, <1>4, <1>5 DEF OpNext, Polled, Awaited

LEMMA LineStep ==
  ASSUME PlacesOK, LineInv, OpNext
  PROVE  LineInv'
<1>1. ASSUME NEW n \in Nodes, Begin(n) PROVE LineInv'
  <2>1. n \in Users \ Waiting /\ Waiting' = Waiting \cup {n}
    BY <1>1, OpAssumption DEF Begin, Waiting, Users, PlacesOK
  <2> QED
    BY <1>1, <2>1, JoinLine DEF Begin
<1>2. ASSUME NEW n \in Nodes, WriteEvent(n) \/ End(n) PROVE LineInv'
  <2>1. Waiting' = Waiting \ {n}
    BY <1>2, OpAssumption DEF WriteEvent, End, Waiting, PlacesOK
  <2> QED
    BY <1>2, <2>1, LeaveLine DEF WriteEvent, End
<1>3. ASSUME NEW n \in Nodes, ErrorPolicy(n) PROVE LineInv'
  <2>1. Waiting' = Waiting
    BY <1>3 DEF ErrorPolicy, Waiting, PlacesOK
  <2> QED
    BY <1>3, <2>1, SameLine DEF ErrorPolicy
<1>4. ASSUME NEW c \in Clients, Ask(c) PROVE LineInv'
  <2>1. CASE req' = [req EXCEPT ![c] = "waiting"] /\ Join(c)
    <3>1. c \in Users \ Waiting /\ Waiting' = Waiting \cup {c}
      BY <1>4, <2>1, OpAssumption DEF Ask, Waiting, Users, PlacesOK
    <3> QED
      BY <2>1, <3>1, JoinLine
  <2>2. CASE req' = [req EXCEPT ![c] = "sending"] /\ UNCHANGED line
    <3>1. Waiting' = Waiting
      BY <1>4, <2>2 DEF Ask, Waiting, PlacesOK
    <3> QED
      BY <2>2, <3>1, SameLine
  <2> QED
    BY <1>4, <2>1, <2>2 DEF Ask
<1>5. ASSUME NEW c \in Clients, Answer(c) PROVE LineInv'
  <2>1. Waiting' = Waiting \ {c}
    BY <1>5, OpAssumption DEF Answer, Waiting, PlacesOK
  <2> QED
    BY <1>5, <2>1, LeaveLine DEF Answer
<1>6. ASSUME NEW c \in Clients, Sent(c) PROVE LineInv'
  <2>1. Waiting' = Waiting
    BY <1>6 DEF Sent, Waiting, PlacesOK
  <2> QED
    BY <1>6, <2>1, SameLine DEF Sent
<1>7. CASE ServerDone
  <2>1. Waiting' = Waiting \ Clients
    BY <1>7, OpAssumption DEF ServerDone, Waiting
  <2> QED
    BY <1>7, <2>1, LeaveLine DEF ServerDone
<1>8. CASE Signal
  <2>1. CASE Abort
    <3>1. Waiting' = Waiting \ Nodes
      BY <1>8, <2>1, OpAssumption DEF Signal, Abort, Waiting
    <3> QED
      BY <2>1, <3>1, LeaveLine DEF Abort
  <2>2. CASE UNCHANGED <<task, line>>
    <3>1. Waiting' = Waiting
      BY <1>8, <2>2 DEF Signal, Waiting
    <3> QED
      BY <2>2, <3>1, SameLine
  <2> QED
    BY <1>8, <2>1, <2>2 DEF Signal
<1>9. CASE QuerySucceeds \/ QueryFails \/ ControllerDone \/ MainReturns
  <2>1. UNCHANGED <<line, Waiting>>
    BY <1>9
    DEF QuerySucceeds, QueryFails, ControllerDone, MainReturns, Waiting
  <2> QED
    BY <2>1, SameLine
<1> QED
  BY <1>1, <1>2, <1>3, <1>4, <1>5, <1>6, <1>7, <1>8, <1>9
  DEF OpNext, Polled, Awaited

(* In line for the lock stand those who wait, in one order, and nobody who *)
(* was aborted, given up or served: a reconciliation that is broken off    *)
(* leaves nothing behind that others would wait for.                       *)
THEOREM OpTypeCorrect == OpSpec => []OpTypeOK
<1>1. OpInit => OpTypeOK
  BY OpAssumption DEF OpInit, OpTypeOK, Waiting, Users
<1>2. OpTypeOK /\ [OpNext]_opVars => OpTypeOK'
  <2> SUFFICES ASSUME OpTypeOK, [OpNext]_opVars PROVE OpTypeOK'
    OBVIOUS
  <2>1. PlacesOK /\ LineInv /\ NumbersOK
    BY OpTypeParts
  <2>2. CASE OpNext
    <3>1. PlacesOK' /\ LineInv' /\ NumbersOK'
      BY <2>1, <2>2, PlacesStep, LineStep, NumbersStep
    <3> QED
      BY <3>1 DEF OpTypeOK, PlacesOK, LineInv, NumbersOK
  <2>3. CASE UNCHANGED opVars
    <3>1. UNCHANGED <<line, Waiting>>
      BY <2>3 DEF opVars, Waiting
    <3>2. LineInv'
      BY <2>1, <3>1, SameLine
    <3> QED
      BY <2>1, <2>3, <3>2
      DEF OpTypeOK, PlacesOK, LineInv, NumbersOK, opVars, counters
  <2> QED
    BY <2>2, <2>3
<1> QED
  BY <1>1, <1>2, PTL DEF OpSpec
=============================================================================
