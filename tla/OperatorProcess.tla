-------------------------- MODULE OperatorProcess --------------------------
(***************************************************************************)
(* The operator's process: operator/src/main.rs, the frame of              *)
(* controller.rs around a reconciliation, and metrics.rs.                  *)
(*                                                                         *)
(* main polls two futures until both are done: the controller, which runs  *)
(* each reconciliation as a task of its own, and the web server.  They     *)
(* share the diagnostics, behind a fair RwLock that each holds only within *)
(* one poll, and the metrics.  What a reconciliation does is in            *)
(* NodeResources; here it only ends, well or not, if ever.                 *)
(***************************************************************************)
EXTENDS Naturals

CONSTANTS
  Nodes,       \* the IpfsNodes
  Clients,     \* connections to the web server
  MaxRuns,     \* bound: reconciliations of a node
  MaxSignals   \* bound: SIGTERMs (and SIGINTs) the process gets

ASSUME OpAssumption ==
  /\ Nodes \cap Clients = {}
  /\ MaxRuns \in Nat
  /\ MaxSignals \in Nat

VARIABLES
  proc,      \* the process
  ctl,       \* the controller's future
  srv,       \* the web server's
  task,      \* task[n]: where the reconciliation of n stands
  req,       \* req[c]: where the request of c stands
  line,      \* line[x]: who stands in line for the lock of the diagnostics
             \* up to x, x among them; nobody when x does not
  signals,   \* signals so far
  begun,     \* begun[n]: n's part of the counter `reconciliations`
  measured,  \* measured[n]: n's observations in `reconcile_duration`
  failures,  \* failures[n]: the counter `failures` of instance n
  ended      \* ended[n]: reconciliations that ran to their end (history)

counters == <<begun, measured, failures, ended>>
opVars == <<proc, ctl, srv, task, req, line, signals, counters>>

Users == Nodes \cup Clients          \* who takes the lock
Running == {"event", "working"}     \* a task holds its ReconcileMeasurer

OpInit ==
  /\ proc = "up" /\ ctl = "querying" /\ srv = "serving"
  /\ task = [n \in Nodes |-> "none"]
  /\ req = [c \in Clients |-> "none"]
  /\ line = [x \in Users |-> {}]
  /\ signals = 0
  /\ begun = [n \in Nodes |-> 0]
  /\ measured = [n \in Nodes |-> 0]
  /\ failures = [n \in Nodes |-> 0]
  /\ ended = [n \in Nodes |-> 0]

(* The lock serves in the order of the requests.                           *)
InLine == {x \in Users : line[x] # {}}
Join(x) == line' = [line EXCEPT ![x] = InLine \cup {x}]
Leave(who) == line' = [x \in Users |-> IF x \in who THEN {} ELSE line[x] \ who]

-----------------------------------------------------------------------------
(* Start-up: is the CRD installed?                                         *)

QuerySucceeds ==
  /\ ctl = "querying" /\ ctl' = "running"
  /\ UNCHANGED <<proc, srv, task, req, line, signals, counters>>

(* exit(1), whatever the web server is doing.                              *)
QueryFails ==
  /\ ctl = "querying" /\ proc' = "failed"
  /\ UNCHANGED <<ctl, srv, task, req, line, signals, counters>>

-----------------------------------------------------------------------------
(* A reconciliation.                                                       *)

(* Counted, and its measurer started; it asks for the lock.                *)
Begin(n) ==
  /\ ctl = "running" /\ task[n] = "none"
  /\ begun[n] < MaxRuns /\ begun' = [begun EXCEPT ![n] = @ + 1]
  /\ task' = [task EXCEPT ![n] = "event"]
  /\ Join(n)
  /\ UNCHANGED <<proc, ctl, srv, req, signals, measured, failures, ended>>

(* Mutation: the guard lives as long as the reconciliation.                *)
WriteEventAndHold(n) ==
  /\ task[n] = "event" /\ line[n] = {n}
  /\ task' = [task EXCEPT ![n] = "working"]
  /\ UNCHANGED <<proc, ctl, srv, req, line, signals, counters>>

(* last_event is written and the guard dropped with the statement.         *)
WriteEvent(n) ==
  /\ task[n] = "event" /\ line[n] = {n}
  /\ task' = [task EXCEPT ![n] = "working"]
  /\ Leave({n})
  /\ UNCHANGED <<proc, ctl, srv, req, signals, counters>>

(* Its future returns and is dropped: the measurer observes, what it still *)
(* holds of the lock is free.                                              *)
End(n) ==
  /\ task[n] = "working"
  /\ \E result \in {"none", "failed"} : task' = [task EXCEPT ![n] = result]
  /\ measured' = [measured EXCEPT ![n] = @ + 1]
  /\ ended' = [ended EXCEPT ![n] = @ + 1]
  /\ Leave({n})
  /\ UNCHANGED <<proc, ctl, srv, req, signals, begun, failures>>

(* error_policy, when the controller takes the result.                     *)
ErrorPolicy(n) ==
  /\ task[n] = "failed"
  /\ task' = [task EXCEPT ![n] = "none"]
  /\ failures' = [failures EXCEPT ![n] = @ + 1]
  /\ UNCHANGED <<proc, ctl, srv, req, line, signals, begun, measured, ended>>

-----------------------------------------------------------------------------
(* A request.                                                              *)

(* GET / reads the diagnostics; /health and /metrics never wait.           *)
Ask(c) ==
  /\ srv = "serving" /\ req[c] = "none"
  /\ \/ /\ req' = [req EXCEPT ![c] = "waiting"]
        /\ Join(c)
     \/ /\ req' = [req EXCEPT ![c] = "sending"]
        /\ UNCHANGED line
  /\ UNCHANGED <<proc, ctl, srv, task, signals, counters>>

(* Readers share the lock, but pass no writer.                             *)
Answer(c) ==
  /\ req[c] = "waiting"
  /\ line[c] \cap Nodes = {}
  /\ req' = [req EXCEPT ![c] = "sending"]
  /\ Leave({c})
  /\ UNCHANGED <<proc, ctl, srv, task, signals, counters>>

(* The client has read the answer.                                         *)
Sent(c) ==
  /\ req[c] = "sending"
  /\ req' = [req EXCEPT ![c] = "none"]
  /\ UNCHANGED <<proc, ctl, srv, task, line, signals, counters>>

-----------------------------------------------------------------------------
(* Shutdown.                                                               *)

(* Mutation: what was aborted is not observed.                             *)
AbortUnmeasured ==
  /\ task' = [n \in Nodes |-> "none"]
  /\ Leave(Nodes)
  /\ UNCHANGED measured

(* Mutation: an aborted task keeps its place in line.                      *)
AbortInLine ==
  /\ task' = [n \in Nodes |-> "none"]
  /\ measured' = [n \in Nodes |->
       IF task[n] \in Running THEN measured[n] + 1 ELSE measured[n]]
  /\ UNCHANGED line

(* The tasks are aborted; their measurers are dropped all the same, the    *)
(* results nobody took are not counted.                                    *)
Abort ==
  /\ task' = [n \in Nodes |-> "none"]
  /\ Leave(Nodes)
  /\ measured' = [n \in Nodes |->
       IF task[n] \in Running THEN measured[n] + 1 ELSE measured[n]]

(* The web server listens for signals from the start, the controller once  *)
(* it is running: it drains at the first signal it hears and gives up at   *)
(* the second.                                                             *)
Signal ==
  /\ signals < MaxSignals /\ signals' = signals + 1
  /\ srv' = IF srv = "serving" THEN "draining" ELSE srv
  /\ \/ /\ ctl = "running" /\ ctl' = "draining"
        /\ UNCHANGED <<task, line, measured>>
     \/ /\ ctl = "draining" /\ ctl' = "done"
        /\ Abort
     \/ /\ ctl \in {"querying", "done"}
        /\ UNCHANGED <<ctl, task, line, measured>>
  /\ UNCHANGED <<proc, req, begun, failures, ended>>

(* Nothing new begins; what runs is waited for.                            *)
ControllerDone ==
  /\ ctl = "draining" /\ \A n \in Nodes : task[n] = "none"
  /\ ctl' = "done"
  /\ UNCHANGED <<proc, srv, task, req, line, signals, counters>>

(* Mutation: no shutdown_timeout.                                          *)
ServerDoneIdle ==
  /\ srv = "draining" /\ \A c \in Clients : req[c] = "none"
  /\ srv' = "done"
  /\ UNCHANGED <<proc, ctl, task, req, line, signals, counters>>

(* When its last request is answered, or five seconds are over.            *)
ServerDone ==
  /\ srv = "draining" /\ srv' = "done"
  /\ req' = [c \in Clients |-> "none"]
  /\ Leave(Clients)
  /\ UNCHANGED <<proc, ctl, task, signals, counters>>

(* Mutation: select! instead of join!.                                     *)
EitherDone == ctl = "done" \/ srv = "done"

BothDone == ctl = "done" /\ srv = "done"

MainReturns ==
  /\ BothDone
  /\ proc' = "exited"
  /\ UNCHANGED <<ctl, srv, task, req, line, signals, counters>>

-----------------------------------------------------------------------------
Up == proc = "up"

(* What the runtime polls on by itself.                                    *)
Polled ==
  \/ \E n \in Nodes : WriteEvent(n) \/ ErrorPolicy(n)
  \/ \E c \in Clients : Answer(c)
  \/ ControllerDone
  \/ ServerDone
  \/ MainReturns

(* What waits for others: API calls, clients, the kubelet.                 *)
Awaited ==
  \/ QuerySucceeds
  \/ QueryFails
  \/ \E n \in Nodes : Begin(n) \/ End(n)
  \/ \E c \in Clients : Ask(c) \/ Sent(c)
  \/ Signal

OpNext == Up /\ (Polled \/ Awaited)

OpSpec == OpInit /\ [][OpNext]_opVars

(* tokio polls every task that can go on, and timers fire; whether an API  *)
(* call or a client ever ends is not assumed.                              *)
OpFairness ==
  /\ \A n \in Nodes : /\ WF_opVars(Up /\ WriteEvent(n))
                      /\ WF_opVars(Up /\ ErrorPolicy(n))
  /\ \A c \in Clients : WF_opVars(Up /\ Answer(c))
  /\ WF_opVars(Up /\ ControllerDone)
  /\ WF_opVars(Up /\ ServerDone)
  /\ WF_opVars(Up /\ MainReturns)

OpFairSpec == OpSpec /\ OpFairness

-----------------------------------------------------------------------------
(* Properties.                                                             *)

Waiting == {n \in Nodes : task[n] = "event"}
             \cup {c \in Clients : req[c] = "waiting"}

(* The type of the variables; in line stand those who wait, one after the  *)
(* other, and nobody who was aborted, given up or served.                  *)
OpTypeOK ==
  /\ proc \in {"up", "failed", "exited"}
  /\ ctl \in {"querying", "running", "draining", "done"}
  /\ srv \in {"serving", "draining", "done"}
  /\ task \in [Nodes -> {"none", "event", "working", "failed"}]
  /\ req \in [Clients -> {"none", "waiting", "sending"}]
  /\ line \in [Users -> SUBSET Waiting]
  /\ \A x \in Users : IF x \in Waiting THEN x \in line[x] ELSE line[x] = {}
  /\ \A x, y \in Users : line[x] \subseteq line[y] \/ line[y] \subseteq line[x]
  /\ \A x, y \in Waiting : x \in line[y] /\ y \in line[x] => x = y
  /\ signals \in 0 .. MaxSignals
  /\ begun \in [Nodes -> 0 .. MaxRuns]
  /\ measured \in [Nodes -> Nat]
  /\ failures \in [Nodes -> Nat]
  /\ ended \in [Nodes -> Nat]

(* Every reconciliation that was counted is observed exactly once, when it *)
(* ends, fails or is aborted, and not before; a failure is counted for no  *)
(* reconciliation that was not observed.                                   *)
MeasuredOnce ==
  \A n \in Nodes :
    /\ begun[n] = measured[n] + IF task[n] \in Running THEN 1 ELSE 0
    /\ failures[n] + (IF task[n] = "failed" THEN 1 ELSE 0) <= ended[n]
    /\ ended[n] <= measured[n]

(* "Both runtimes implements graceful shutdown, so poll until both are     *)
(* done": a process ended by one signal has broken off no reconciliation,  *)
(* although its web server is gone after five seconds at most.             *)
GracefulExit ==
  proc = "exited" /\ signals = 1 => \A n \in Nodes : ended[n] = begun[n]

(* GET / is answered, or given up by a server that shuts down, however     *)
(* long the API calls of reconciliations take: nobody holds the lock of    *)
(* the diagnostics while it waits for something else.                      *)
IndexAnswered ==
  \A c \in Clients : req[c] = "waiting" ~> req[c] # "waiting" \/ ~Up

(* The calls of reconciliations return, some time.                         *)
CallsReturn == \A n \in Nodes : []<>(task[n] # "working")

(* A controller that was told to stop stops the process, if the calls in   *)
(* progress return: also when a client never reads its answer.             *)
ShutdownEnds == CallsReturn => (ctl = "draining" ~> ~Up)
=============================================================================
