------------------------------ MODULE AgentHub ------------------------------
(***************************************************************************)
(* Commands to the router by way of the local agent: the hub of the        *)
(* backend, the agent on the router's LAN, and the WebSocket between them. *)
(* Goroutines of the backend call execute, which registers a pending       *)
(* command, writes it to the agent's connection and waits ten seconds for  *)
(* the response.  Each connection has a goroutine in ServeHTTP that hands  *)
(* responses to the waiting calls.  The agent runs one command at a time,  *)
(* and dials again when its connection is gone.                            *)
(*                                                                         *)
(* Sources: backend/internal/mikrotik/agent_hub.go, agent/main.go.         *)
(***************************************************************************)
EXTENDS Naturals, Sequences, SequencesExt

CONSTANTS
  Callers,      (* goroutines of the backend that call execute             *)
  Conns,        (* connections; one that is over may stand for a new one   *)
  MaxCmds,      (* commands sent (a bound)                                 *)
  MaxLosses     (* connections lost and agents killed (a bound)            *)

ASSUME AgentHubAssumption ==
  /\ MaxCmds \in Nat
  /\ MaxLosses \in Nat

None == "none"

ASSUME NoneAssumption == None \notin Conns

Ids == 1..MaxCmds

Response == [id : Ids, ok : BOOLEAN]

VARIABLES
  hubConn,   (* AgentHub.conn                                              *)
  pending,   (* the keys of AgentHub.pending                               *)
  call,      (* per caller, its execute: point, command id, connection     *)
  inbox,     (* the responses put into the channels of calls               *)
  reader,    (* per connection, its ServeHTTP and the response in hand     *)
  broken,    (* the connections closed by a side or cut                    *)
  down,      (* per connection, the commands on their way to the agent     *)
  up,        (* per connection, the responses on their way to the hub      *)
  agent,     (* the agent: point, connection, command, response            *)
  ids,       (* the ids given out: uuid.New never repeats one              *)
  losses,    (* connections lost so far                                    *)
  sent,      (* history: the commands written, in their order              *)
  done,      (* history: the commands run by the router, in their order    *)
  answer     (* history: what execute returned for each command            *)

hubVars == <<hubConn, pending, reader>>
callVars == <<call, ids, sent, answer>>
netVars == <<broken, down, up, losses>>
agentVars == <<agent, done>>
vars == <<hubVars, callVars, netVars, agentVars, inbox>>

NoCall == [pc |-> "idle", id |-> 0, conn |-> None]
NoResponse == [id |-> 0, ok |-> FALSE]
NoReader == [pc |-> "none", resp |-> NoResponse]
AgentOff == [pc |-> "off", conn |-> None, resp |-> NoResponse]

TypeOK ==
  /\ hubConn \in Conns \cup {None}
  /\ pending \in SUBSET Ids
  /\ call \in [Callers -> [pc : {"idle", "write", "failed", "wait", "expired"},
                           id : Ids \cup {0}, conn : Conns \cup {None}]]
  /\ inbox \in SUBSET Response
  /\ reader \in [Conns -> [pc : {"none", "auth", "read", "deliver", "exit"},
                           resp : Response \cup {NoResponse}]]
  /\ broken \in SUBSET Conns
  /\ down \in [Conns -> Seq(Ids)]
  /\ up \in [Conns -> Seq(Response)]
  /\ agent \in [pc : {"off", "read", "run", "reply"},
                conn : Conns \cup {None}, resp : Response \cup {NoResponse}]
  /\ ids \in Nat
  /\ losses \in Nat
  /\ sent \in Seq(Ids)
  /\ done \in Seq(Ids)
  /\ answer \in [Ids -> {"none", "ok", "error"}]

Init ==
  /\ hubConn = None
  /\ pending = {}
  /\ call = [h \in Callers |-> NoCall]
  /\ inbox = {}
  /\ reader = [c \in Conns |-> NoReader]
  /\ broken = {}
  /\ down = [c \in Conns |-> <<>>]
  /\ up = [c \in Conns |-> <<>>]
  /\ agent = AgentOff
  /\ ids = 0
  /\ losses = 0
  /\ sent = <<>>
  /\ done = <<>>
  /\ answer = [i \in Ids |-> "none"]

-----------------------------------------------------------------------------
(* execute                                                                 *)

At(h, pc) == call[h].pc = pc

Goto(h, pc) == call' = [call EXCEPT ![h].pc = pc]

Return(h, result) ==
  /\ call' = [call EXCEPT ![h] = NoCall]
  /\ answer' = [answer EXCEPT ![call[h].id] = result]

(* With no agent connected execute returns at once and changes nothing.    *)
Execute(h) ==
  /\ At(h, "idle")
  /\ hubConn # None
  /\ ids < MaxCmds
  /\ ids' = ids + 1
  /\ pending' = pending \cup {ids + 1}
  /\ call' = [call EXCEPT ![h] = [pc |-> "write", id |-> ids + 1,
                                  conn |-> hubConn]]
  /\ UNCHANGED <<hubConn, reader, sent, answer, netVars, agentVars, inbox>>

(* WriteJSON under wmu.  On a connection that is gone the write fails, or  *)
(* succeeds as long as nobody has noticed and the command is lost.         *)
Write(h) ==
  LET c == call[h].conn
  IN  /\ At(h, "write")
      /\ \/ /\ c \notin broken
            /\ down' = [down EXCEPT ![c] = Append(@, call[h].id)]
            /\ sent' = Append(sent, call[h].id)
            /\ Goto(h, "wait")
         \/ /\ c \in broken
            /\ sent' = Append(sent, call[h].id)
            /\ Goto(h, "wait")
            /\ UNCHANGED down
         \/ /\ c \in broken
            /\ Goto(h, "failed")
            /\ UNCHANGED <<down, sent>>
      /\ UNCHANGED <<hubVars, ids, answer, broken, up, losses, agentVars, inbox>>

WriteFailed(h) ==
  /\ At(h, "failed")
  /\ pending' = pending \ {call[h].id}
  /\ Return(h, "error")
  /\ UNCHANGED <<hubConn, reader, ids, sent, netVars, agentVars, inbox>>

Receive(h) ==
  /\ At(h, "wait")
  /\ \E r \in inbox :
       /\ r.id = call[h].id
       /\ inbox' = inbox \ {r}
       /\ Return(h, IF r.ok THEN "ok" ELSE "error")
  /\ UNCHANGED <<hubVars, ids, sent, netVars, agentVars>>

(* Deviation: the call waits for as long as the hub has a connection.      *)
TimeoutUnlessConnected(h) ==
  /\ At(h, "wait")
  /\ hubConn = None
  /\ Goto(h, "expired")
  /\ UNCHANGED <<hubVars, ids, sent, answer, netVars, agentVars, inbox>>

(* time.After: the ten seconds are over, whatever happens meanwhile.       *)
Timeout(h) ==
  /\ At(h, "wait")
  /\ Goto(h, "expired")
  /\ UNCHANGED <<hubVars, ids, sent, answer, netVars, agentVars, inbox>>

(* Deviation: a call that timed out leaves its entry behind.               *)
ForgetNothing(h) ==
  /\ At(h, "expired")
  /\ Return(h, "error")
  /\ UNCHANGED <<hubVars, ids, sent, netVars, agentVars, inbox>>

Forget(h) ==
  /\ At(h, "expired")
  /\ pending' = pending \ {call[h].id}
  /\ Return(h, "error")
  /\ UNCHANGED <<hubConn, reader, ids, sent, netVars, agentVars, inbox>>

-----------------------------------------------------------------------------
(* ServeHTTP                                                               *)

(* The secret has arrived: the connection replaces and closes the last.    *)
Register(c) ==
  /\ reader[c].pc = "auth"
  /\ reader' = [reader EXCEPT ![c].pc = "read"]
  /\ broken' = broken \cup ({hubConn} \ {None})
  /\ hubConn' = c
  /\ UNCHANGED <<pending, callVars, down, up, losses, agentVars, inbox>>

(* The connection is gone before the secret comes, or the hub closes it    *)
(* because ten seconds are over: one more connection lost.                 *)
Unauthorized(c) ==
  /\ reader[c].pc = "auth"
  /\ reader' = [reader EXCEPT ![c] = NoReader]
  /\ \/ c \in broken /\ UNCHANGED <<broken, losses>>
     \/ /\ c \notin broken /\ losses < MaxLosses
        /\ broken' = broken \cup {c}
        /\ losses' = losses + 1
  /\ UNCHANGED <<hubConn, pending, callVars, down, up, agentVars, inbox>>

(* A response nobody waits for any more is dropped.                        *)
ReadResponse(c) ==
  LET r == Head(up[c])
  IN  /\ reader[c].pc = "read"
      /\ up[c] # <<>>
      /\ up' = [up EXCEPT ![c] = Tail(@)]
      /\ pending' = pending \ {r.id}
      /\ IF r.id \in pending
         THEN reader' = [reader EXCEPT ![c] = [pc |-> "deliver", resp |-> r]]
         ELSE UNCHANGED reader
      /\ UNCHANGED <<hubConn, callVars, broken, down, losses, agentVars, inbox>>

(* Deviation: the channel has no buffer, the call must be waiting.         *)
DeliverUnbuffered(c) ==
  /\ reader[c].pc = "deliver"
  /\ \E h \in Callers : At(h, "wait") /\ call[h].id = reader[c].resp.id
  /\ inbox' = inbox \cup {reader[c].resp}
  /\ reader' = [reader EXCEPT ![c] = [pc |-> "read", resp |-> NoResponse]]
  /\ UNCHANGED <<hubConn, pending, callVars, netVars, agentVars>>

(* Outside the lock.  The channel has room for one response and is sent    *)
(* one: the reader took the entry out of the map.                          *)
Deliver(c) ==
  /\ reader[c].pc = "deliver"
  /\ inbox' = inbox \cup {reader[c].resp}
  /\ reader' = [reader EXCEPT ![c] = [pc |-> "read", resp |-> NoResponse]]
  /\ UNCHANGED <<hubConn, pending, callVars, netVars, agentVars>>

(* ReadJSON fails.                                                         *)
ReadFails(c) ==
  /\ reader[c].pc = "read"
  /\ c \in broken
  /\ reader' = [reader EXCEPT ![c].pc = "exit"]
  /\ UNCHANGED <<hubConn, pending, callVars, netVars, agentVars, inbox>>

(* Deviation: the connection of the hub is cleared, whosever it is.        *)
UnregisterAny(c) ==
  /\ reader[c].pc = "exit"
  /\ hubConn' = None
  /\ reader' = [reader EXCEPT ![c] = NoReader]
  /\ UNCHANGED <<pending, callVars, netVars, agentVars, inbox>>

Unregister(c) ==
  /\ reader[c].pc = "exit"
  /\ hubConn' = IF hubConn = c THEN None ELSE hubConn
  /\ reader' = [reader EXCEPT ![c] = NoReader]
  /\ UNCHANGED <<pending, callVars, netVars, agentVars, inbox>>

-----------------------------------------------------------------------------
(* The agent                                                               *)

Unused(c) ==
  /\ reader[c].pc = "none"
  /\ agent.conn # c
  /\ \A h \in Callers : call[h].conn # c

(* Dial, and send the secret; a dial that fails changes nothing.           *)
Dial(c) ==
  /\ agent.pc = "off"
  /\ Unused(c)
  /\ agent' = [AgentOff EXCEPT !.pc = "read", !.conn = c]
  /\ reader' = [reader EXCEPT ![c].pc = "auth"]
  /\ broken' = broken \ {c}
  /\ down' = [down EXCEPT ![c] = <<>>]
  /\ up' = [up EXCEPT ![c] = <<>>]
  /\ UNCHANGED <<hubConn, pending, callVars, losses, done, inbox>>

(* Also from a connection that is gone: what has arrived can be read.      *)
AgentRead ==
  LET c == agent.conn
  IN  /\ agent.pc = "read"
      /\ down[c] # <<>>
      /\ agent' = [agent EXCEPT !.pc = "run",
                                !.resp = [id |-> Head(down[c]), ok |-> FALSE]]
      /\ down' = [down EXCEPT ![c] = Tail(@)]
      /\ UNCHANGED <<hubVars, callVars, broken, up, losses, done, inbox>>

(* Deviation: the response is made without the id of its command.          *)
HandleCommandWithoutID ==
  /\ agent.pc = "run"
  /\ agent' = [agent EXCEPT !.pc = "reply", !.resp = NoResponse]
  /\ done' = Append(done, agent.resp.id)
  /\ UNCHANGED <<hubVars, callVars, netVars, inbox>>

(* handleCommand: the router cannot be reached or refuses; or it runs the  *)
(* command, and the agent learns of it or not.                             *)
HandleCommand ==
  /\ agent.pc = "run"
  /\ \E ok \in BOOLEAN :
       /\ agent' = [agent EXCEPT !.pc = "reply", !.resp.ok = ok]
       /\ \/ done' = Append(done, agent.resp.id)
          \/ ~ok /\ UNCHANGED done
  /\ UNCHANGED <<hubVars, callVars, netVars, inbox>>

(* Deviation: the command is kept and run again on the next connection.    *)
ReplyOrRunAgain ==
  LET c == agent.conn
  IN  /\ agent.pc = "reply"
      /\ \/ /\ c \notin broken
            /\ up' = [up EXCEPT ![c] = Append(@, agent.resp)]
            /\ agent' = [agent EXCEPT !.pc = "read", !.resp = NoResponse]
         \/ /\ c \in broken
            /\ agent' = [agent EXCEPT !.pc = "run"]
            /\ UNCHANGED up
      /\ UNCHANGED <<hubVars, callVars, broken, down, losses, done, inbox>>

(* WriteJSON, which may or may not notice that the connection is gone; if  *)
(* it does runAgent ends and the response is given up.                     *)
Reply ==
  LET c == agent.conn
  IN  /\ agent.pc = "reply"
      /\ \/ /\ c \notin broken
            /\ up' = [up EXCEPT ![c] = Append(@, agent.resp)]
            /\ agent' = [agent EXCEPT !.pc = "read", !.resp = NoResponse]
         \/ /\ c \in broken
            /\ agent' \in {AgentOff,
                           [agent EXCEPT !.pc = "read", !.resp = NoResponse]}
            /\ UNCHANGED up
      /\ UNCHANGED <<hubVars, callVars, broken, down, losses, done, inbox>>

(* ReadMessage fails; runAgent closes its side, main dials again.          *)
AgentDisconnected ==
  /\ agent.pc = "read"
  /\ agent.conn \in broken
  /\ agent' = AgentOff
  /\ UNCHANGED <<hubVars, callVars, netVars, done, inbox>>

-----------------------------------------------------------------------------
(* The environment                                                         *)

(* A connection is cut.                                                    *)
Cut(c) ==
  /\ losses < MaxLosses
  /\ agent.conn = c
  /\ c \notin broken
  /\ broken' = broken \cup {c}
  /\ losses' = losses + 1
  /\ UNCHANGED <<hubVars, callVars, down, up, agentVars, inbox>>

(* The agent is killed and started again.                                  *)
Kill ==
  /\ losses < MaxLosses
  /\ agent.pc # "off"
  /\ broken' = broken \cup {agent.conn}
  /\ agent' = AgentOff
  /\ losses' = losses + 1
  /\ UNCHANGED <<hubVars, callVars, down, up, done, inbox>>

-----------------------------------------------------------------------------

Call(h) ==
  \/ Write(h)
  \/ WriteFailed(h)
  \/ Receive(h)
  \/ Timeout(h)
  \/ Forget(h)

ServeHTTP(c) ==
  \/ Register(c)
  \/ Unauthorized(c)
  \/ ReadResponse(c)
  \/ Deliver(c)
  \/ ReadFails(c)
  \/ Unregister(c)

Agent ==
  \/ \E c \in Conns : Dial(c)
  \/ AgentRead
  \/ HandleCommand
  \/ Reply
  \/ AgentDisconnected

Next ==
  \/ \E h \in Callers : Execute(h) \/ Call(h)
  \/ \E c \in Conns : ServeHTTP(c) \/ Cut(c)
  \/ Agent
  \/ Kill

Spec == Init /\ [][Next]_vars

(***************************************************************************)
(* Goroutines run, the timer of a waiting call fires, both sides notice in *)
(* the end that a connection is gone (Go keeps TCP connections alive by    *)
(* probes, and a probe without answer fails the read), and the agent dials *)
(* until it reaches the backend.  Losses and calls need not happen.        *)
(***************************************************************************)
Fairness ==
  /\ \A h \in Callers : WF_vars(Call(h))
  /\ \A c \in Conns : WF_vars(ServeHTTP(c))
  /\ WF_vars(Agent)

FairSpec == Spec /\ Fairness

-----------------------------------------------------------------------------
(* Properties                                                              *)

(***************************************************************************)
(* Commands are run at most once and in the order they were written, also  *)
(* when connections replace each other, and execute succeeds only for a    *)
(* command the router has run.                                             *)
(***************************************************************************)
Router == INSTANCE RouterCalls WITH
            last <- IF done = <<>> THEN 0
                    ELSE CHOOSE k \in 1..Len(sent) : sent[k] = Last(done)

ImplementsRouterCalls == Router!Spec

(***************************************************************************)
(* The map of pending commands has entries of calls in progress only: a    *)
(* call that returned, for whatever reason, left nothing behind.           *)
(***************************************************************************)
PendingIsLive ==
  \A i \in pending : \E h \in Callers : ~At(h, "idle") /\ call[h].id = i

(***************************************************************************)
(* The end of an old connection never takes away a newer one: as long as   *)
(* the agent's connection works and is registered, the hub uses it.        *)
(***************************************************************************)
WorkingIsUsed ==
  \A c \in Conns :
    /\ agent.conn = c /\ c \notin broken
    /\ reader[c].pc \in {"read", "deliver"}
    => hubConn = c

(***************************************************************************)
(* Both of the hub's fields are true, whoever of calls, timers, readers    *)
(* and connections comes first: nothing is left behind in the map, and the *)
(* working connection is in use.                                           *)
(***************************************************************************)
HubFieldsAreTrue == PendingIsLive /\ WorkingIsUsed

(* Every execute returns, whatever happens to connection and agent.        *)
EveryCallReturns == \A h \in Callers : ~At(h, "idle") ~> At(h, "idle")

(* A response that comes after its call gave up does not hold up the       *)
(* goroutine that reads the connection.                                    *)
ReaderGoesOn == \A c \in Conns : reader[c].pc = "deliver" ~> reader[c].pc # "deliver"

(***************************************************************************)
(* When connections are no longer lost the hub ends up with the working    *)
(* connection of the agent, and keeps it.                                  *)
(***************************************************************************)
AgentIsUsed == <>[](hubConn # None /\ hubConn = agent.conn)

=============================================================================
