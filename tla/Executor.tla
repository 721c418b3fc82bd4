------------------------------ MODULE Executor ------------------------------
(***************************************************************************)
(* How an operation's commands reach the router: getMTExecutor takes the   *)
(* agent's hub if the agent is connected, else the direct client, if there *)
(* is one, and the operation keeps what it took to its end, while the      *)
(* agent comes and goes and the manager is configured.  Of the hub this    *)
(* module takes what AgentHub is shown to implement, RouterCalls; each     *)
(* command of the direct client has a connection of its own.  A command is *)
(* one that adds or sets a secret or a queue; errors of what may follow it *)
(* (ending the customer's session) are dropped by both executors.          *)
(*                                                                         *)
(* Sources: backend/internal/service/subscription_service.go,              *)
(* backend/internal/mikrotik/manager.go, client.go and agent_hub.go.       *)
(***************************************************************************)
EXTENDS Naturals, Sequences, SequencesExt

CONSTANTS
  Handlers,   (* goroutines with an operation on the router                *)
  MaxCmds     (* commands (a bound), numbered as they are issued           *)

ExecutorAssumption == MaxCmds \in Nat

Cmds == 1..MaxCmds

VARIABLES
  connected,   (* IsConnected: the hub has the agent's connection          *)
  configured,  (* the manager has a direct client                          *)
  op,          (* per goroutine: point, executor taken, command under way  *)
  sent, last, done, answer,    (* the hub, and what each command returned  *)
  flying,      (* direct commands written that the router has not run      *)
  issued,      (* commands so far                                          *)
  route,       (* history: the executor of each command,                   *)
  earlier,     (* the commands that had returned when it was issued,       *)
  ran          (* and what the router ran, in its order                    *)

hub == <<sent, last, done>>
history == <<issued, route, earlier>>
vars == <<connected, configured, op, hub, answer, flying, history, ran>>

Router == INSTANCE RouterCalls WITH Ids <- Cmds

Idle == [pc |-> "idle", via |-> "none", cmd |-> 0]

TypeOK ==
  /\ connected \in BOOLEAN /\ configured \in BOOLEAN
  /\ op \in [Handlers ->
       {Idle} \cup [pc : {"next", "wait"}, via : {"hub", "direct"}, cmd : 0..MaxCmds]]
  /\ sent \in Seq(Cmds) /\ last \in 0..Len(sent) /\ done \in Seq(Cmds)
  /\ answer \in [Cmds -> Router!Answers]
  /\ issued \in 0..MaxCmds
  /\ flying \subseteq 1..issued
  /\ route \in [Cmds -> {"hub", "direct", "none"}]
  /\ earlier \in [Cmds -> SUBSET Cmds]
  /\ ran \in Seq(Cmds)

Init ==
  /\ connected \in BOOLEAN /\ configured \in BOOLEAN
  /\ op = [h \in Handlers |-> Idle]
  /\ Router!Init
  /\ flying = {} /\ issued = 0
  /\ route = [c \in Cmds |-> "none"]
  /\ earlier = [c \in Cmds |-> {}]
  /\ ran = <<>>

-----------------------------------------------------------------------------
(* Operations                                                              *)

Take(h, executor) == op' = [op EXCEPT ![h].pc = "next", ![h].via = executor]

(* Deviation: the manager's client is taken also when it is nil.           *)
GetUncheckedExecutor(h) ==
  /\ op[h].pc = "idle"
  /\ Take(h, IF connected THEN "hub" ELSE IF configured THEN "direct" ELSE "none")
  /\ UNCHANGED <<connected, configured, hub, answer, flying, history, ran>>

(* Without an executor the router is left out of the operation.            *)
GetMTExecutor(h) ==
  /\ op[h].pc = "idle"
  /\ \/ connected /\ Take(h, "hub")
     \/ ~connected /\ configured /\ Take(h, "direct")
  /\ UNCHANGED <<connected, configured, hub, answer, flying, history, ran>>

Fail(c) == answer' = [answer EXCEPT ![c] = "error"]

(* The next command of the operation                                       *)
Issue(h, executor) ==
  /\ op[h].pc = "next" /\ op[h].via = executor
  /\ issued < MaxCmds
  /\ issued' = issued + 1
  /\ route' = [route EXCEPT ![issued + 1] = executor]
  /\ earlier' = [earlier EXCEPT ![issued + 1] =
                   {c \in 1..issued : answer[c] # "none"}]

AwaitReply(h) == op' = [op EXCEPT ![h].pc = "wait", ![h].cmd = issued + 1]

(* Without a connection, or when the write fails, the call is over.        *)
Execute(h) ==
  /\ Issue(h, "hub")
  /\ \/ connected /\ Router!Send(issued + 1) /\ AwaitReply(h)
     \/ Fail(issued + 1) /\ UNCHANGED <<op, hub>>
  /\ UNCHANGED <<connected, configured, flying, ran>>

(* Every command dials; the client taken is used, though the manager may   *)
(* have another by now.                                                    *)
Connect(h) ==
  /\ Issue(h, "direct")
  /\ \/ flying' = flying \cup {issued + 1} /\ AwaitReply(h) /\ UNCHANGED answer
     \/ Fail(issued + 1) /\ UNCHANGED <<op, flying>>
  /\ UNCHANGED <<connected, configured, hub, ran>>

Returned(h) == op' = [op EXCEPT ![h].pc = "next", ![h].cmd = 0]

(* Deviation: when the agent fails, the command goes to the direct client. *)
ExecuteFallsBack(h) ==
  LET c == op[h].cmd
  IN  /\ op[h].pc = "wait" /\ op[h].via = "hub"
      /\ Router!Return(c)
      /\ flying' = IF answer'[c] = "error" THEN flying \cup {c} ELSE flying
      /\ Returned(h)
      /\ UNCHANGED <<connected, configured, history, ran>>

(* The agent's response, or the timeout                                    *)
ExecuteReturns(h) ==
  /\ op[h].pc = "wait" /\ op[h].via = "hub"
  /\ Router!Return(op[h].cmd)
  /\ Returned(h)
  /\ UNCHANGED <<connected, configured, flying, history, ran>>

(* Deviation: the reply is not waited for.                                 *)
RunUnawaited(h) ==
  /\ op[h].pc = "wait" /\ op[h].via = "direct"
  /\ answer' = [answer EXCEPT ![op[h].cmd] = "ok"]
  /\ Returned(h)
  /\ UNCHANGED <<connected, configured, hub, flying, history, ran>>

(* The reply of client.Run, or an error: then the command may have been    *)
(* run, or be run later, or never.                                         *)
RunReturns(h) ==
  LET c == op[h].cmd
  IN  /\ op[h].pc = "wait" /\ op[h].via = "direct"
      /\ \/ Contains(ran, c) /\ answer' = [answer EXCEPT ![c] = "ok"]
         \/ Fail(c)
      /\ Returned(h)
      /\ UNCHANGED <<connected, configured, hub, flying, history, ran>>

(* An operation goes on after a command that failed, and ends after any.   *)
Finish(h) ==
  /\ op[h].pc = "next"
  /\ op' = [op EXCEPT ![h] = Idle]
  /\ UNCHANGED <<connected, configured, hub, answer, flying, history, ran>>

-----------------------------------------------------------------------------
(* The router, the agent's connection, and the administrator               *)

RunFromAgent ==
  /\ \E k \in 1..Len(sent) : Router!Run(k) /\ ran' = Append(ran, sent[k])
  /\ UNCHANGED <<connected, configured, op, flying, history>>

RunFromClient ==
  /\ \E c \in flying : /\ flying' = flying \ {c}
                       /\ ran' = Append(ran, c) \/ UNCHANGED ran
  /\ UNCHANGED <<connected, configured, op, hub, answer, history>>

(* ServeHTTP begins or ends.                                               *)
AgentComesOrGoes ==
  /\ connected' = ~connected
  /\ UNCHANGED <<configured, op, hub, answer, flying, history, ran>>

Configure ==
  /\ configured' = ~configured
  /\ UNCHANGED <<connected, op, hub, answer, flying, history, ran>>

Next ==
  \/ \E h \in Handlers : \/ GetMTExecutor(h) \/ Execute(h) \/ Connect(h)
                         \/ ExecuteReturns(h) \/ RunReturns(h) \/ Finish(h)
  \/ RunFromAgent \/ RunFromClient \/ AgentComesOrGoes \/ Configure

Spec == Init /\ [][Next]_vars

-----------------------------------------------------------------------------
(* Properties                                                              *)

Overtaken(c, d) ==
  \E k, l \in DOMAIN ran : k < l /\ ran[k] = d /\ ran[l] = c

(***************************************************************************)
(* subscription_service.go 38-48: commands set a state, so the one that is *)
(* run last decides.  A command that was issued after another had returned *)
(* is run after it, however the executors changed in between; unless that  *)
(* other had failed, and not both went through the hub.                    *)
(***************************************************************************)
LateOnlyIfFailed ==
  \A d \in 1..issued : \A c \in earlier[d] :
    Overtaken(c, d) =>
      answer[c] = "error" /\ ~(route[c] = "hub" /\ route[d] = "hub")

(***************************************************************************)
(* agent_hub.go 115-150, client.go: no command is run twice, by one        *)
(* executor or by both (a queue would be there twice), and a call is told  *)
(* of success only when its command was run.                               *)
(***************************************************************************)
OnceAndTold ==
  /\ \A k, l \in DOMAIN ran : ran[k] = ran[l] => k = l
  /\ \A c \in Cmds : answer[c] = "ok" => Contains(ran, c)

(* Both, as what the services may rely on whichever executor they get.     *)
CommandsAreKept == LateOnlyIfFailed /\ OnceAndTold

=============================================================================
