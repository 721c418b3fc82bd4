--------------------------- MODULE AgentHubProofs ---------------------------
(***************************************************************************)
(* Theorems about AgentHub for every set of goroutines and connections and *)
(* any number of commands and losses.                                      *)
(***************************************************************************)
EXTENDS AgentHub, SequenceTheorems, TLAPS

-----------------------------------------------------------------------------
(* Type correctness                                                        *)

(* A call in progress has a command and a connection; a response in hand   *)
(* is one of a command; the agent, unless off, has a connection.           *)
Named ==
  /\ \A h \in Callers :
       ~At(h, "idle") => call[h].id \in Ids /\ call[h].conn \in Conns
  /\ \A c \in Conns : reader[c].pc = "deliver" => reader[c].resp \in Response
  /\ agent.pc \in {"run", "reply"} => agent.resp \in Response
  /\ agent.pc # "off" => agent.conn \in Conns
  /\ agent.pc = "off" => agent = AgentOff

TypeInv == TypeOK /\ Named

CallPcs == {"idle", "write", "failed", "wait", "expired"}

(* Moving a call to another program point keeps calls typed and named.     *)
LEMMA GotoType ==
  ASSUME TypeInv, NEW h \in Callers, ~At(h, "idle"), NEW pc \in CallPcs,
         Goto(h, pc)
  PROVE  /\ call' \in [Callers -> [pc : CallPcs, id : Ids \cup {0},
                                   conn : Conns \cup {None}]]
         /\ \A g \in Callers :
              ~At(g, "idle")' => call'[g].id \in Ids /\ call'[g].conn \in Conns
<1>0. call[h] \in [pc : CallPcs, id : Ids \cup {0}, conn : Conns \cup {None}]
  BY DEF TypeInv, TypeOK, CallPcs
<1>1. [call[h] EXCEPT !.pc = pc] \in [pc : CallPcs, id : Ids \cup {0},
                                       conn : Conns \cup {None}]
  BY <1>0
<1>2. call' = [call EXCEPT ![h] = [call[h] EXCEPT !.pc = pc]]
  BY DEF Goto
<1>3. \A g \in Callers : /\ call'[g].id = call[g].id
                         /\ call'[g].conn = call[g].conn
                         /\ g # h => call'[g].pc = call[g].pc
  BY <1>2 DEF TypeInv, TypeOK
<1> QED
  BY <1>1, <1>2, <1>3 DEF TypeInv, TypeOK, Named, At, CallPcs

(* The end of a call keeps calls typed and named.                          *)
LEMMA ReturnType ==
  ASSUME TypeInv, NEW h \in Callers, ~At(h, "idle"),
         NEW result \in {"ok", "error"}, Return(h, result)
  PROVE  /\ call' \in [Callers -> [pc : CallPcs, id : Ids \cup {0},
                                   conn : Conns \cup {None}]]
         /\ \A g \in Callers :
              ~At(g, "idle")' => call'[g].id \in Ids /\ call'[g].conn \in Conns
         /\ answer' \in [Ids -> {"none", "ok", "error"}]
BY DEF TypeInv, TypeOK, Named, At, Return, NoCall, CallPcs

LEMMA ExecuteType ==
  ASSUME TypeInv, NEW h \in Callers, Execute(h)
  PROVE  TypeInv'
<1>1. ids + 1 \in Ids /\ ids' \in Nat /\ hubConn \in Conns
  BY AgentHubAssumption DEF Execute, TypeInv, TypeOK, Ids
<1>2. pending' \in SUBSET Ids
  BY <1>1 DEF Execute, TypeInv, TypeOK
<1>3. call' \in [Callers -> [pc : CallPcs, id : Ids \cup {0},
                             conn : Conns \cup {None}]]
  BY <1>1 DEF Execute, TypeInv, TypeOK, CallPcs
<1>4. \A g \in Callers :
        ~At(g, "idle")' => call'[g].id \in Ids /\ call'[g].conn \in Conns
  BY <1>1 DEF Execute, TypeInv, TypeOK, Named, At
<1> QED
  BY <1>1, <1>2, <1>3, <1>4
  DEF Execute, TypeInv, TypeOK, Named, CallPcs, netVars, agentVars

LEMMA CallType ==
  ASSUME TypeInv, NEW h \in Callers, Call(h)
  PROVE  TypeInv'
<1> USE DEF TypeInv, TypeOK, Named, hubVars, netVars, agentVars
<1>1. CASE Write(h)
  <2>1. ~At(h, "idle") /\ call[h].id \in Ids /\ call[h].conn \in Conns
    BY <1>1 DEF Write, At
  <2>2. /\ down' \in [Conns -> Seq(Ids)]
        /\ sent' \in Seq(Ids)
    <3>1. /\ Append(down[call[h].conn], call[h].id) \in Seq(Ids)
          /\ Append(sent, call[h].id) \in Seq(Ids)
      BY <2>1, AppendProperties
    <3>2. \/ down' = [down EXCEPT ![call[h].conn] = Append(down[call[h].conn], call[h].id)]
          \/ down' = down
      BY <1>1 DEF Write
    <3>3. sent' = Append(sent, call[h].id) \/ sent' = sent
      BY <1>1 DEF Write
    <3>4. down \in [Conns -> Seq(Ids)] /\ sent \in Seq(Ids)
      OBVIOUS
    <3> HIDE DEF TypeInv, TypeOK, Named
    <3>5. down' \in [Conns -> Seq(Ids)]
      BY <2>1, <3>1, <3>2, <3>4
    <3> QED
      BY <3>1, <3>3, <3>4, <3>5
  <2>3. Goto(h, "wait") \/ Goto(h, "failed")
    BY <1>1 DEF Write
  <2> QED
    BY <1>1, <2>1, <2>2, <2>3, GotoType DEF Write, CallPcs
<1>2. CASE WriteFailed(h)
  BY <1>2, ReturnType DEF WriteFailed, At, CallPcs
<1>3. CASE Receive(h)
  <2>1. PICK r \in inbox :
          /\ inbox' = inbox \ {r}
          /\ Return(h, IF r.ok THEN "ok" ELSE "error")
    BY <1>3 DEF Receive
  <2> QED
    BY <1>3, <2>1, ReturnType DEF Receive, At, CallPcs
<1>4. CASE Timeout(h)
  BY <1>4, GotoType DEF Timeout, At, CallPcs
<1>5. CASE Forget(h)
  BY <1>5, ReturnType DEF Forget, At, CallPcs
<1> QED
  BY <1>1, <1>2, <1>3, <1>4, <1>5 DEF Call

LEMMA ServeType ==
  ASSUME TypeInv, NEW c \in Conns, ServeHTTP(c)
  PROVE  TypeInv'
<1> USE DEF TypeInv, TypeOK, Named, callVars, netVars, agentVars, At
<1>1. CASE Register(c)
  BY <1>1 DEF Register
<1>2. CASE Unauthorized(c)
  BY <1>2 DEF Unauthorized, NoReader, NoResponse
<1>3. CASE ReadResponse(c)
  <2>1. Head(up[c]) \in Response /\ Tail(up[c]) \in Seq(Response)
    BY <1>3, HeadTailProperties DEF ReadResponse
  <2>2. up' \in [Conns -> Seq(Response)] /\ pending' \in SUBSET Ids
    BY <1>3, <2>1 DEF ReadResponse
  <2>3. /\ reader' \in [Conns -> [pc : {"none", "auth", "read", "deliver", "exit"},
                                  resp : Response \cup {NoResponse}]]
        /\ \A d \in Conns : reader'[d].pc = "deliver" => reader'[d].resp \in Response
    <3>1. CASE Head(up[c]).id \in pending
      <4>1. reader' = [reader EXCEPT ![c] = [pc |-> "deliver", resp |-> Head(up[c])]]
        BY <1>3, <3>1 DEF ReadResponse
      <4> QED
        BY <2>1, <4>1
    <3>2. CASE Head(up[c]).id \notin pending
      BY <1>3, <3>2 DEF ReadResponse
    <3> QED
      BY <3>1, <3>2
  <2> QED
    BY <1>3, <2>2, <2>3 DEF ReadResponse
<1>4. CASE Deliver(c)
  BY <1>4 DEF Deliver
<1>5. CASE ReadFails(c)
  BY <1>5 DEF ReadFails
<1>6. CASE Unregister(c)
  BY <1>6 DEF Unregister, NoReader
<1> QED
  BY <1>1, <1>2, <1>3, <1>4, <1>5, <1>6 DEF ServeHTTP

LEMMA AgentType ==
  ASSUME TypeInv, Agent
  PROVE  TypeInv'
<1> USE DEF TypeInv, TypeOK, Named, hubVars, callVars, netVars, At, AgentOff
<1>1. ASSUME NEW c \in Conns, Dial(c)
      PROVE  TypeInv'
  <2>1. agent' = [pc |-> "read", conn |-> c, resp |-> NoResponse]
    BY <1>1 DEF Dial
  <2>2. reader' = [reader EXCEPT ![c] = [reader[c] EXCEPT !.pc = "auth"]]
    BY <1>1 DEF Dial
  <2>3. down' \in [Conns -> Seq(Ids)] /\ up' \in [Conns -> Seq(Response)]
    BY <1>1 DEF Dial
  <2> QED
    BY <1>1, <2>1, <2>2, <2>3 DEF Dial
<1>2. CASE AgentRead
  <2>1. agent.conn \in Conns
    BY <1>2 DEF AgentRead
  <2>2. Head(down[agent.conn]) \in Ids /\ Tail(down[agent.conn]) \in Seq(Ids)
    BY <1>2, <2>1, HeadTailProperties DEF AgentRead
  <2>3. agent'.resp \in Response
    BY <1>2, <2>2 DEF AgentRead, Response
  <2> QED
    BY <1>2, <2>1, <2>2, <2>3 DEF AgentRead
<1>3. CASE HandleCommand
  <2>1. agent.resp.id \in Ids
    BY <1>3 DEF HandleCommand, Response
  <2>2. PICK ok \in BOOLEAN :
          agent' = [agent EXCEPT !.pc = "reply", !.resp.ok = ok]
    BY <1>3 DEF HandleCommand
  <2>3. agent'.resp = [agent.resp EXCEPT !.ok = ok]
    BY <2>2
  <2>4. agent'.resp \in Response
    BY <1>3, <2>1, <2>3 DEF HandleCommand, Response
  <2>5. Append(done, agent.resp.id) \in Seq(Ids)
    BY <2>1, AppendProperties
  <2>6. done' \in Seq(Ids)
    BY <1>3, <2>5 DEF HandleCommand
  <2> QED
    BY <1>3, <2>2, <2>4, <2>6 DEF HandleCommand
<1>4. CASE Reply
  <2>1. agent.conn \in Conns /\ agent.resp \in Response
    BY <1>4 DEF Reply
  <2>2. Append(up[agent.conn], agent.resp) \in Seq(Response)
    BY <2>1, AppendProperties
  <2>3. up' \in [Conns -> Seq(Response)]
    BY <1>4, <2>1, <2>2 DEF Reply
  <2>4. agent' = AgentOff \/ agent' = [agent EXCEPT !.pc = "read", !.resp = NoResponse]
    BY <1>4 DEF Reply
  <2>5. \/ agent' = AgentOff
        \/ agent' = [pc |-> "read", conn |-> agent.conn, resp |-> NoResponse]
    BY <2>4
  <2>6. /\ agent' \in [pc : {"off", "read", "run", "reply"},
                       conn : Conns \cup {None}, resp : Response \cup {NoResponse}]
        /\ agent'.pc \in {"off", "read"}
        /\ agent'.pc # "off" => agent'.conn \in Conns
        /\ agent'.pc = "off" => agent' = AgentOff
    BY <2>1, <2>5
  <2>7. UNCHANGED <<hubVars, callVars, broken, down, losses, done, inbox>>
    BY <1>4 DEF Reply
  <2> QED
    BY <2>3, <2>6, <2>7
<1>5. CASE AgentDisconnected
  BY <1>5 DEF AgentDisconnected
<1> QED
  BY <1>1, <1>2, <1>3, <1>4, <1>5 DEF Agent

LEMMA EnvironmentType ==
  ASSUME TypeInv, Kill \/ \E c \in Conns : Cut(c)
  PROVE  TypeInv'
BY DEF TypeInv, TypeOK, Named, Kill, Cut, hubVars, callVars, agentVars, At,
       AgentOff

LEMMA AlwaysTyped == Spec => []TypeInv
<1>1. Init => TypeInv
  BY DEF Init, TypeInv, TypeOK, Named, NoCall, NoReader, NoResponse, AgentOff,
         At, Ids
<1>2. TypeInv /\ [Next]_vars => TypeInv'
  <2> SUFFICES ASSUME TypeInv, [Next]_vars PROVE TypeInv'
    OBVIOUS
  <2>1. CASE Next
    BY <2>1, ExecuteType, CallType, ServeType, AgentType, EnvironmentType
    DEF Next
  <2>2. CASE UNCHANGED vars
    BY <2>2 DEF vars, hubVars, callVars, netVars, agentVars, TypeInv, TypeOK,
                Named, At
  <2> QED
    BY <2>1, <2>2
<1> QED
  BY <1>1, <1>2, PTL DEF Spec

(***************************************************************************)
(* In every reachable state the hub, its calls and readers, the wires and  *)
(* the agent are well typed (agent_hub.go and the agent's main.go).        *)
(***************************************************************************)
THEOREM TypeCorrect == Spec => []TypeOK
<1>1. TypeInv => TypeOK
  BY DEF TypeInv
<1> QED
  BY <1>1, AlwaysTyped, PTL

-----------------------------------------------------------------------------
(* The working connection is the hub's                                     *)

(* The agent changes its connection by dialling only.                      *)
LEMMA AgentConn ==
  ASSUME TypeInv, AgentRead \/ HandleCommand \/ Reply \/ AgentDisconnected
  PROVE  agent'.conn \in {agent.conn, None}
<1>0. agent \in [pc : {"off", "read", "run", "reply"}, conn : Conns \cup {None},
                resp : Response \cup {NoResponse}]
  BY DEF TypeInv, TypeOK
<1>1. CASE AgentRead
  BY <1>0, <1>1 DEF AgentRead
<1>2. CASE HandleCommand
  <2>1. PICK ok \in BOOLEAN :
          agent' = [agent EXCEPT !.pc = "reply", !.resp.ok = ok]
    BY <1>2 DEF HandleCommand
  <2>2. [agent EXCEPT !.pc = "reply", !.resp.ok = ok].conn = agent.conn
    BY <1>0
  <2> QED
    BY <2>1, <2>2
<1>3. CASE Reply
  <2>1. \/ agent' = AgentOff
        \/ agent' = [agent EXCEPT !.pc = "read", !.resp = NoResponse]
    BY <1>3 DEF Reply
  <2>2. [agent EXCEPT !.pc = "read", !.resp = NoResponse].conn = agent.conn
    BY <1>0
  <2>3. AgentOff.conn = None
    BY DEF AgentOff
  <2> QED
    BY <2>1, <2>2, <2>3
<1>4. CASE AgentDisconnected
  BY <1>4 DEF AgentDisconnected, AgentOff
<1> QED
  BY <1>1, <1>2, <1>3, <1>4

(* A step after which a connection that works and is registered is the     *)
(* hub's, if that was so before.                                           *)
LEMMA WorkingStep ==
  ASSUME TypeInv, WorkingIsUsed, Next
  PROVE  WorkingIsUsed'
<1> USE DEF WorkingIsUsed
<1>1. ASSUME NEW h \in Callers, Execute(h) \/ Call(h)
      PROVE  WorkingIsUsed'
  BY <1>1 DEF Execute, Call, Write, WriteFailed, Receive, Timeout, Forget,
              hubVars, netVars, agentVars
<1>2. ASSUME NEW c \in Conns, ServeHTTP(c)
      PROVE  WorkingIsUsed'
  <2>1. /\ agent' = agent
        /\ reader \in [Conns -> [pc : {"none", "auth", "read", "deliver", "exit"},
                                 resp : Response \cup {NoResponse}]]
    BY <1>2 DEF ServeHTTP, Register, Unauthorized, ReadResponse, Deliver,
                ReadFails, Unregister, agentVars, TypeInv, TypeOK
  <2>2. CASE Register(c)
    (* The connection before is closed, so it no longer works.             *)
    <3> SUFFICES ASSUME NEW d \in Conns, agent.conn = d, d \notin broken',
                        reader'[d].pc \in {"read", "deliver"}
                 PROVE  hubConn' = d
      BY <2>1
    <3>1. CASE d = c
      BY <2>2, <3>1 DEF Register
    <3>2. CASE d # c
      <4>1. hubConn = d
        BY <2>1, <2>2, <3>2 DEF Register
      <4> QED
        BY <2>2, <4>1, NoneAssumption DEF Register
    <3> QED
      BY <3>1, <3>2
  <2>3. CASE Unregister(c)
    <3>1. /\ broken' = broken /\ reader'[c].pc = "none"
          /\ \A d \in Conns : d # c => reader'[d] = reader[d]
          /\ hubConn # c => hubConn' = hubConn
      BY <2>1, <2>3 DEF Unregister, NoReader, netVars
    <3> QED
      BY <2>1, <3>1
  <2>4. CASE ReadResponse(c)
    BY <2>1, <2>4 DEF ReadResponse
  <2>5. CASE Unauthorized(c) \/ Deliver(c) \/ ReadFails(c)
    BY <2>1, <2>5 DEF Unauthorized, Deliver, ReadFails, NoReader, netVars
  <2> QED
    BY <1>2, <2>2, <2>3, <2>4, <2>5 DEF ServeHTTP
<1>3. ASSUME NEW c \in Conns, Cut(c)
      PROVE  WorkingIsUsed'
  BY <1>3 DEF Cut, hubVars, agentVars
<1>4. CASE Agent
  <2>1. ASSUME NEW c \in Conns, Dial(c)
        PROVE  WorkingIsUsed'
    BY <2>1 DEF Dial, AgentOff, TypeInv, TypeOK
  <2>2. CASE AgentRead \/ HandleCommand \/ Reply \/ AgentDisconnected
    <3>1. hubConn' = hubConn /\ reader' = reader /\ broken' = broken
      BY <2>2 DEF AgentRead, HandleCommand, Reply, AgentDisconnected,
                  hubVars, netVars
    <3>2. agent'.conn \in {agent.conn, None}
      BY <2>2, AgentConn
    <3> QED
      BY <3>1, <3>2, NoneAssumption
  <2> QED
    BY <1>4, <2>1, <2>2 DEF Agent
<1>5. CASE Kill
  BY <1>5, NoneAssumption DEF Kill, AgentOff, hubVars
<1> QED
  BY <1>1, <1>2, <1>3, <1>4, <1>5 DEF Next

(***************************************************************************)
(* The goroutine of an old connection, ending late (agent_hub.go 107-112), *)
(* never clears a newer one: a connection of the agent that works and is   *)
(* registered is the one the hub writes to.                                *)
(***************************************************************************)
THEOREM AgentStaysConnected == Spec => []WorkingIsUsed
<1>1. Init => WorkingIsUsed
  BY DEF Init, WorkingIsUsed, NoReader
<1>2. TypeInv /\ WorkingIsUsed /\ [Next]_vars => WorkingIsUsed'
  <2>1. WorkingIsUsed /\ UNCHANGED vars => WorkingIsUsed'
    BY DEF vars, hubVars, callVars, netVars, agentVars, WorkingIsUsed
  <2> QED
    BY <2>1, WorkingStep
<1> QED
  BY <1>1, <1>2, AlwaysTyped, PTL DEF Spec

-----------------------------------------------------------------------------
(* Nothing is left behind in the map of pending commands                   *)

(* Only ids given out are pending, and a response that has reached its     *)
(* call's channel, or a reader's hand, has been taken out of the map.      *)
Taken ==
  /\ \A i \in pending : i <= ids
  /\ \A r \in inbox : r.id <= ids /\ r.id \notin pending
  /\ \A c \in Conns : reader[c].pc = "deliver" =>
       reader[c].resp.id <= ids /\ reader[c].resp.id \notin pending

PendingInv == Taken /\ PendingIsLive

LEMMA ExecutePending ==
  ASSUME TypeInv, PendingInv, NEW h \in Callers, Execute(h)
  PROVE  PendingInv'
<1>0. /\ ids \in Nat /\ ids' = ids + 1 /\ pending' = pending \cup {ids + 1}
      /\ inbox' = inbox /\ reader' = reader
      /\ pending \subseteq Nat /\ \A r \in inbox : r.id \in Nat
      /\ \A c \in Conns : reader[c].pc = "deliver" => reader[c].resp.id \in Nat
  BY DEF Execute, TypeInv, TypeOK, Named, Response, Ids
<1>1. Taken'
  BY <1>0 DEF PendingInv, Taken
<1>2. /\ call'[h].pc = "write" /\ call'[h].id = ids + 1
      /\ \A g \in Callers : g # h => call'[g] = call[g]
  BY DEF Execute, TypeInv, TypeOK
<1>3. PendingIsLive'
  BY <1>0, <1>2 DEF Execute, PendingInv, PendingIsLive, At
<1> QED
  BY <1>1, <1>3 DEF PendingInv

(* A call that goes on keeps its entry alive.                              *)
LEMMA GotoPending ==
  ASSUME TypeInv, PendingInv, NEW h \in Callers, ~At(h, "idle"),
         NEW pc, pc # "idle", Goto(h, pc), UNCHANGED <<pending, inbox, reader, ids>>
  PROVE  PendingInv'
<1>1. Taken'
  BY DEF PendingInv, Taken
<1>2. \A g \in Callers : /\ call'[g].id = call[g].id
                         /\ call'[g].pc = IF g = h THEN pc ELSE call[g].pc
  BY DEF Goto, TypeInv, TypeOK
<1>3. PendingIsLive'
  BY <1>2 DEF PendingInv, PendingIsLive, At
<1> QED
  BY <1>1, <1>3 DEF PendingInv

(* A call that ends leaves nothing pending if its id is not pending then.  *)
LEMMA ReturnPending ==
  ASSUME TypeInv, PendingInv, NEW h \in Callers, NEW result, Return(h, result),
         pending' = pending \ {call[h].id}, inbox' \subseteq inbox,
         UNCHANGED <<reader, ids>>
  PROVE  PendingInv'
<1>1. Taken'
  BY DEF PendingInv, Taken
<1>2. \A g \in Callers : g # h => call'[g] = call[g]
  BY DEF Return, TypeInv, TypeOK
<1>3. PendingIsLive'
  BY <1>2 DEF PendingInv, PendingIsLive, At
<1> QED
  BY <1>1, <1>3 DEF PendingInv

LEMMA CallPending ==
  ASSUME TypeInv, PendingInv, NEW h \in Callers, Call(h)
  PROVE  PendingInv'
<1>1. CASE Write(h)
  BY <1>1, GotoPending DEF Write, At, hubVars
<1>2. CASE WriteFailed(h) \/ Forget(h)
  BY <1>2, ReturnPending DEF WriteFailed, Forget
<1>3. CASE Receive(h)
  (* The reader took the id out of the map before it sent the response.    *)
  <2>1. PICK r \in inbox :
          /\ r.id = call[h].id
          /\ inbox' = inbox \ {r}
          /\ Return(h, IF r.ok THEN "ok" ELSE "error")
    BY <1>3 DEF Receive
  <2>2. pending' = pending \ {call[h].id}
    BY <1>3, <2>1 DEF Receive, hubVars, PendingInv, Taken
  <2> QED
    BY <1>3, <2>1, <2>2, ReturnPending DEF Receive, hubVars
<1>4. CASE Timeout(h)
  BY <1>4, GotoPending DEF Timeout, At, hubVars
<1> QED
  BY <1>1, <1>2, <1>3, <1>4 DEF Call

LEMMA ServePending ==
  ASSUME TypeInv, PendingInv, NEW c \in Conns, ServeHTTP(c)
  PROVE  PendingInv'
<1>0. call' = call /\ ids' = ids
  BY DEF ServeHTTP, Register, Unauthorized, ReadResponse, Deliver, ReadFails,
         Unregister, callVars
<1>1. ASSUME pending' \subseteq pending
      PROVE  PendingIsLive'
  BY <1>0, <1>1 DEF PendingInv, PendingIsLive, At
<1>2. reader \in [Conns -> [pc : {"none", "auth", "read", "deliver", "exit"},
                            resp : Response \cup {NoResponse}]]
  BY DEF TypeInv, TypeOK
<1>3. CASE ReadResponse(c)
  <2>1. /\ pending' = pending \ {Head(up[c]).id} /\ inbox' = inbox
        /\ \A d \in Conns : d # c => reader'[d] = reader[d]
        /\ Head(up[c]).id \in pending => reader'[c].resp = Head(up[c])
        /\ Head(up[c]).id \notin pending => reader' = reader
    BY <1>2, <1>3 DEF ReadResponse
  <2>2. Taken'
    BY <1>0, <2>1 DEF PendingInv, Taken
  <2> QED
    BY <1>1, <2>1, <2>2 DEF PendingInv
<1>4. CASE Deliver(c)
  <2>1. Taken'
    BY <1>0, <1>2, <1>4 DEF Deliver, PendingInv, Taken
  <2> QED
    BY <1>1, <1>4, <2>1 DEF Deliver, PendingInv
<1>5. CASE Register(c) \/ Unauthorized(c) \/ ReadFails(c) \/ Unregister(c)
  <2>1. /\ pending' = pending /\ inbox' = inbox
        /\ \A d \in Conns : reader'[d].pc = "deliver" => reader'[d] = reader[d]
    BY <1>2, <1>5 DEF Register, Unauthorized, ReadFails, Unregister, NoReader
  <2>2. Taken'
    BY <1>0, <2>1 DEF PendingInv, Taken
  <2> QED
    BY <1>1, <2>1, <2>2 DEF PendingInv
<1> QED
  BY <1>3, <1>4, <1>5 DEF ServeHTTP

LEMMA OtherPending ==
  ASSUME TypeInv, PendingInv, Agent \/ Kill \/ \E c \in Conns : Cut(c)
  PROVE  PendingInv'
<1>1. pending' = pending /\ inbox' = inbox /\ call' = call /\ ids' = ids
  BY DEF Agent, Dial, AgentRead, HandleCommand, Reply, AgentDisconnected, Kill,
         Cut, hubVars, callVars
<1>2. \A d \in Conns : reader'[d].pc = "deliver" => reader'[d] = reader[d]
  <2>1. ASSUME NEW c \in Conns, Dial(c)
        PROVE  \A d \in Conns : reader'[d].pc = "deliver" => reader'[d] = reader[d]
    BY <2>1 DEF Dial, TypeInv, TypeOK
  <2>2. CASE ~\E c \in Conns : Dial(c)
    BY <2>2 DEF Agent, AgentRead, HandleCommand, Reply, AgentDisconnected, Kill,
                Cut, hubVars
  <2> QED
    BY <2>1, <2>2
<1> QED
  BY <1>1, <1>2 DEF PendingInv, Taken, PendingIsLive, At

(***************************************************************************)
(* execute leaves nothing in AgentHub.pending (agent_hub.go 114-150),      *)
(* whichever of response, timeout and failed write comes first.            *)
(***************************************************************************)
THEOREM NothingLeaks == Spec => []PendingIsLive
<1>1. Init => PendingInv
  BY DEF Init, PendingInv, Taken, PendingIsLive, NoReader
<1>2. TypeInv /\ PendingInv /\ [Next]_vars => PendingInv'
  <2> SUFFICES ASSUME TypeInv, PendingInv, [Next]_vars PROVE PendingInv'
    OBVIOUS
  <2>1. CASE Next
    BY <2>1, ExecutePending, CallPending, ServePending, OtherPending DEF Next
  <2>2. CASE UNCHANGED vars
    BY <2>2 DEF vars, hubVars, callVars, PendingInv, Taken, PendingIsLive, At
  <2> QED
    BY <2>1, <2>2
<1>3. PendingInv => PendingIsLive
  BY DEF PendingInv
<1> QED
  BY <1>1, <1>2, <1>3, AlwaysTyped, PTL DEF Spec

(***************************************************************************)
(* The map of pending commands has no stale entry, and the hub's           *)
(* connection is the agent's working one (agent_hub.go 59-150).            *)
(***************************************************************************)
THEOREM HubIsTrue == Spec => []HubFieldsAreTrue
<1>1. PendingIsLive /\ WorkingIsUsed => HubFieldsAreTrue
  BY DEF HubFieldsAreTrue
<1> QED
  BY <1>1, NothingLeaks, AgentStaysConnected, PTL

-----------------------------------------------------------------------------
(* The hub and the agent implement RouterCalls                             *)

(* In sequence s the element i has a place ahead of the element j.         *)
Before(s, i, j) ==
  \E k, l \in 1..Len(s) : k < l /\ s[k] = i /\ s[l] = j

(* Command i was written, after every command that was run.                *)
NotPassed(s, d, i) ==
  /\ Contains(s, i)
  /\ d # <<>> => Before(s, Last(d), i)

(* The commands of q were written in the order they have in q.             *)
InOrder(s, d, q) ==
  /\ \A j \in 1..Len(q) : NotPassed(s, d, q[j])
  /\ \A j, k \in 1..Len(q) : j < k => Before(s, q[j], q[k])

Distinct(s) == \A j, k \in 1..Len(s) : s[j] = s[k] => j = k

Honest(d, r) == r.ok => Contains(d, r.id)

(* Calls in progress have different ids, ids given out that have no answer *)
(* yet; an id is written after it is given out.                            *)
CallsInv ==
  /\ \A h \in Callers :
       ~At(h, "idle") => call[h].id <= ids /\ answer[call[h].id] = "none"
  /\ \A g, h \in Callers :
       ~At(g, "idle") /\ ~At(h, "idle") /\ call[g].id = call[h].id => g = h
  /\ \A h \in Callers : At(h, "write") => ~Contains(sent, call[h].id)
  /\ \A i \in Ids : i > ids => answer[i] = "none"

(* A command is written once, and run only if it was written.              *)
SentInv ==
  /\ \A k \in 1..Len(sent) : sent[k] <= ids
  /\ Distinct(sent)
  /\ \A k \in 1..Len(done) : Contains(sent, done[k])

(* Commands on their way to the agent, and the one in its hand, come in    *)
(* the order they were written in, all behind the last one that was run.   *)
OrderInv ==
  agent.pc # "off" =>
    /\ InOrder(sent, done, down[agent.conn])
    /\ agent.pc = "run" =>
         /\ NotPassed(sent, done, agent.resp.id)
         /\ \A j \in 1..Len(down[agent.conn]) :
              Before(sent, agent.resp.id, down[agent.conn][j])

(* A response that reports success, wherever it is, is of a command that   *)
(* was run.                                                                *)
OkInv ==
  /\ agent.pc = "reply" => Honest(done, agent.resp)
  /\ \A c \in Conns : \A j \in 1..Len(up[c]) : Honest(done, up[c][j])
  /\ \A c \in Conns : reader[c].pc = "deliver" => Honest(done, reader[c].resp)
  /\ \A r \in inbox : Honest(done, r)

RouterInv == TypeInv /\ CallsInv /\ SentInv /\ OrderInv /\ OkInv

(* A sequence that grows keeps what it contains, and keeps its order; what *)
(* is new comes last.                                                      *)
LEMMA Grows ==
  ASSUME NEW S, NEW s \in Seq(S), NEW n \in S
  PROVE  /\ \A i : Contains(s, i) => Contains(Append(s, n), i)
         /\ \A i : Contains(Append(s, n), i) => Contains(s, i) \/ i = n
         /\ Contains(Append(s, n), n)
         /\ \A i, j : Before(s, i, j) => Before(Append(s, n), i, j)
         /\ \A i : Contains(s, i) => Before(Append(s, n), i, n)
<1> DEFINE z == Append(s, n)
<1>1. /\ Len(s) \in Nat /\ Len(z) = Len(s) + 1
      /\ \A k \in 1..Len(s) : z[k] = s[k]
      /\ z[Len(s) + 1] = n
  BY AppendProperties, LenProperties
<1>2. /\ \A k \in 1..Len(s) : k \in 1..Len(z) /\ k < Len(z)
      /\ Len(z) \in 1..Len(z)
      /\ \A k \in 1..Len(z) : k \in 1..Len(s) \/ k = Len(z)
  BY <1>1
<1> HIDE DEF z
<1>3. \A i : Contains(s, i) => Contains(z, i)
  BY <1>1, <1>2 DEF Contains
<1>4. \A i : Contains(z, i) => Contains(s, i) \/ i = n
  BY <1>1, <1>2 DEF Contains
<1>5. Contains(z, n)
  BY <1>1, <1>2 DEF Contains
<1>6. \A i, j : Before(s, i, j) => Before(z, i, j)
  BY <1>1, <1>2 DEF Before
<1>7. \A i : Contains(s, i) => Before(z, i, n)
  BY <1>1, <1>2 DEF Before, Contains
<1> QED
  BY <1>3, <1>4, <1>5, <1>6, <1>7 DEF z

(* Of the commands that were run, the last one too was written.            *)
LEMMA LastWritten ==
  ASSUME NEW S, NEW s, NEW d \in Seq(S), d # <<>>,
         \A k \in 1..Len(d) : Contains(s, d[k])
  PROVE  Contains(s, Last(d))
BY EmptySeq DEF Last

(* The command at the head of a queue in order is ahead of the others.     *)
LEMMA TailInOrder ==
  ASSUME NEW S, NEW q \in Seq(S), q # <<>>, NEW s, NEW d, InOrder(s, d, q)
  PROVE  /\ InOrder(s, d, Tail(q))
         /\ NotPassed(s, d, Head(q))
         /\ \A j \in 1..Len(Tail(q)) : Before(s, Head(q), Tail(q)[j])
<1>1. /\ Len(q) \in Nat \ {0} /\ Len(Tail(q)) = Len(q) - 1
      /\ \A j \in 1..Len(Tail(q)) : Tail(q)[j] = q[j + 1]
      /\ Head(q) = q[1]
  BY HeadTailProperties, EmptySeq
<1>2. /\ 1 \in 1..Len(q)
      /\ \A j \in 1..Len(Tail(q)) : j + 1 \in 1..Len(q) /\ 1 < j + 1
      /\ \A j, k \in 1..Len(Tail(q)) : j < k => j + 1 < k + 1
  BY <1>1
<1> QED
  BY <1>1, <1>2 DEF InOrder

(* Calls: everything but a step of execute leaves them alone.              *)
LEMMA CallsStep ==
  ASSUME RouterInv, TypeInv', Next
  PROVE  CallsInv'
<1> USE DEF RouterInv
<1>t. /\ call \in [Callers -> [pc : CallPcs, id : Ids \cup {0},
                               conn : Conns \cup {None}]]
      /\ answer \in [Ids -> {"none", "ok", "error"}]
      /\ ids \in Nat
      /\ \A h \in Callers : ~At(h, "idle") => call[h].id \in Ids
  BY DEF TypeInv, TypeOK, Named, CallPcs
<1>1. ASSUME NEW h \in Callers, Execute(h)
      PROVE  CallsInv'
  <2>1. /\ ids' = ids + 1 /\ ids + 1 \in Ids /\ answer' = answer /\ sent' = sent
        /\ call'[h].pc = "write" /\ call'[h].id = ids + 1
        /\ \A g \in Callers : g # h => call'[g] = call[g]
    BY <1>1, <1>t, AgentHubAssumption DEF Execute, Ids
  <2>2. ~\E k \in 1..Len(sent) : sent[k] = ids + 1
    BY <1>t DEF SentInv
  <2>3. \A i \in Ids : i \in Nat
    BY DEF Ids
  <2>4. \A g \in Callers : ~At(g, "idle") => call[g].id # ids + 1
    BY <1>t, <2>3 DEF CallsInv
  <2>5. \A g \in Callers : At(g, "write")' => ~Contains(sent', call'[g].id)
    BY <2>1, <2>2 DEF CallsInv, At, Contains
  <2>6. \A g \in Callers : ~At(g, "idle")' =>
          call'[g].id <= ids' /\ answer'[call'[g].id] = "none"
    BY <1>t, <2>1, <2>3 DEF CallsInv, At
  <2>7. \A g, f \in Callers :
          ~At(g, "idle")' /\ ~At(f, "idle")' /\ call'[g].id = call'[f].id => g = f
    BY <2>1, <2>4 DEF CallsInv, At
  <2>8. \A i \in Ids : i > ids' => answer'[i] = "none"
    BY <1>t, <2>1, <2>3 DEF CallsInv
  <2> QED
    BY <2>5, <2>6, <2>7, <2>8 DEF CallsInv
<1>2. ASSUME NEW h \in Callers, Write(h)
      PROVE  CallsInv'
  <2>1. /\ ids' = ids /\ answer' = answer
        /\ \A g \in Callers : call'[g].id = call[g].id
        /\ \A g \in Callers : g # h => call'[g].pc = call[g].pc
        /\ call[h].pc = "write" /\ call'[h].pc # "write"
    BY <1>2, <1>t DEF Write, Goto, At
  <2>2. \A i : Contains(sent', i) => Contains(sent, i) \/ i = call[h].id
    <3>1. call[h].id \in Ids
      BY <1>2, <1>t DEF Write, At
    <3>2. CASE sent' = Append(sent, call[h].id)
      BY <3>1, <3>2, Grows DEF TypeInv, TypeOK
    <3>3. CASE sent' = sent
      BY <3>3
    <3> QED
      BY <1>2, <3>2, <3>3 DEF Write
  <2>3. \A g \in Callers : At(g, "write")' => ~Contains(sent', call'[g].id)
    BY <2>1, <2>2 DEF CallsInv, At
  <2> QED
    BY <2>1, <2>3 DEF CallsInv, At
<1>3. ASSUME NEW h \in Callers, Timeout(h)
      PROVE  CallsInv'
  <2>1. /\ ids' = ids /\ answer' = answer /\ sent' = sent
        /\ \A g \in Callers : call'[g].id = call[g].id
        /\ \A g \in Callers : g # h => call'[g].pc = call[g].pc
        /\ call[h].pc = "wait" /\ call'[h].pc = "expired"
    BY <1>3, <1>t DEF Timeout, Goto, At
  <2> QED
    BY <2>1 DEF CallsInv, At
<1>4. ASSUME NEW h \in Callers, WriteFailed(h) \/ Receive(h) \/ Forget(h)
      PROVE  CallsInv'
  <2>1. /\ ids' = ids /\ sent' = sent /\ ~At(h, "idle")
        /\ \E a \in {"ok", "error"} : Return(h, a)
    BY <1>4 DEF WriteFailed, Receive, Forget, At
  <2>2. /\ call'[h].pc = "idle"
        /\ \A g \in Callers : g # h => call'[g] = call[g]
        /\ \A i \in Ids : i # call[h].id => answer'[i] = answer[i]
    BY <1>t, <2>1 DEF Return, NoCall
  <2>3. call[h].id \in Ids /\ call[h].id <= ids /\ ids \in Nat /\ Ids \subseteq Nat
    BY <1>t, <2>1 DEF CallsInv, Ids
  <2>4. \A i \in Ids : i > ids' => answer'[i] = "none"
    BY <2>1, <2>2, <2>3 DEF CallsInv
  <2>5. \A g \in Callers : ~At(g, "idle")' =>
          call'[g].id <= ids' /\ answer'[call'[g].id] = "none"
    BY <1>t, <2>1, <2>2 DEF CallsInv, At
  <2> QED
    BY <2>1, <2>2, <2>4, <2>5 DEF CallsInv, At
<1>5. CASE UNCHANGED callVars
  BY <1>5 DEF callVars, CallsInv, At
<1>6. CASE \E c \in Conns : ServeHTTP(c) \/ Cut(c)
  BY <1>5, <1>6 DEF ServeHTTP, Register, Unauthorized, ReadResponse, Deliver,
                    ReadFails, Unregister, Cut
<1>7. CASE Agent \/ Kill
  BY <1>5, <1>7 DEF Agent, Dial, AgentRead, HandleCommand, Reply,
                    AgentDisconnected, Kill
<1> QED
  BY <1>1, <1>2, <1>3, <1>4, <1>6, <1>7 DEF Next, Call

(* The written commands and those that were run.                           *)
LEMMA SentStep ==
  ASSUME RouterInv, TypeInv', Next
  PROVE  SentInv'
<1> USE DEF RouterInv
<1>t. /\ sent \in Seq(Ids) /\ Len(sent) \in Nat /\ done \in Seq(Ids)
      /\ ids \in Nat /\ Ids \subseteq Nat
  BY LenProperties DEF TypeInv, TypeOK, Ids
<1>1. ASSUME NEW h \in Callers, Execute(h)
      PROVE  SentInv'
  <2>1. ids' = ids + 1 /\ sent' = sent /\ done' = done
    BY <1>1 DEF Execute, agentVars
  <2>2. \A k \in 1..Len(sent) : sent[k] \in Nat
    BY <1>t, ElementOfSeq
  <2> QED
    BY <1>t, <2>1, <2>2 DEF SentInv
<1>2. ASSUME NEW h \in Callers, Write(h), sent' = Append(sent, call[h].id)
      PROVE  SentInv'
  <2>1. /\ call[h].id \in Ids /\ call[h].id <= ids /\ ~Contains(sent, call[h].id)
        /\ ids' = ids /\ done' = done
    BY <1>2 DEF Write, At, CallsInv, TypeInv, Named, agentVars
  <2>2. /\ Len(sent') = Len(sent) + 1
        /\ \A k \in 1..Len(sent) : sent'[k] = sent[k]
        /\ sent'[Len(sent) + 1] = call[h].id
    BY <1>2, <1>t, <2>1, AppendProperties
  <2>3. \A k \in 1..Len(sent') : k \in 1..Len(sent) \/ k = Len(sent) + 1
    BY <1>t, <2>2
  <2>4. \A k \in 1..Len(sent) : sent[k] # call[h].id
    BY <2>1 DEF Contains
  <2>5. \A j, k \in 1..Len(sent') : sent'[j] = sent'[k] => j = k
    BY <2>2, <2>3, <2>4 DEF SentInv, Distinct
  <2>6. \A k \in 1..Len(sent') : sent'[k] <= ids'
    BY <2>1, <2>2, <2>3 DEF SentInv
  <2>7. \A k \in 1..Len(done) : Contains(sent', done[k])
    BY <1>2, <1>t, <2>1, Grows DEF SentInv
  <2> QED
    BY <2>1, <2>5, <2>6, <2>7 DEF SentInv, Distinct
<1>3. ASSUME HandleCommand
      PROVE  SentInv'
  <2>1. ids' = ids /\ sent' = sent /\ Contains(sent, agent.resp.id)
        /\ agent.resp.id \in Ids
    BY <1>3 DEF HandleCommand, callVars, OrderInv, NotPassed, TypeInv, Named, Response
  <2>2. CASE done' = done
    BY <2>1, <2>2 DEF SentInv
  <2>3. CASE done' = Append(done, agent.resp.id)
    <3>1. /\ Len(done') = Len(done) + 1 /\ Len(done) \in Nat
          /\ \A k \in 1..Len(done) : done'[k] = done[k]
          /\ done'[Len(done) + 1] = agent.resp.id
      BY <1>t, <2>1, <2>3, AppendProperties, LenProperties
    <3>2. \A k \in 1..Len(done') : k \in 1..Len(done) \/ k = Len(done) + 1
      BY <3>1
    <3>3. \A k \in 1..Len(done') : Contains(sent, done'[k])
      BY <2>1, <3>1, <3>2 DEF SentInv
    <3> QED
      BY <2>1, <3>3 DEF SentInv
  <2> QED
    BY <1>3, <2>2, <2>3 DEF HandleCommand
<1>4. CASE UNCHANGED <<ids, sent, done>>
  BY <1>4 DEF SentInv
<1>5. ASSUME NEW h \in Callers, Call(h)
      PROVE  SentInv'
  BY <1>2, <1>4, <1>5 DEF Call, Write, WriteFailed, Receive, Timeout, Forget,
                          agentVars
<1>6. CASE \E c \in Conns : ServeHTTP(c) \/ Cut(c)
  BY <1>4, <1>6 DEF ServeHTTP, Register, Unauthorized, ReadResponse, Deliver,
                    ReadFails, Unregister, Cut, callVars, agentVars
<1>7. CASE Agent \/ Kill
  BY <1>3, <1>4, <1>7 DEF Agent, Dial, AgentRead, Reply,
                          AgentDisconnected, Kill, callVars
<1> QED
  BY <1>1, <1>5, <1>6, <1>7 DEF Next

(* The order survives a command that is written: on the connection it is   *)
(* written to it is the last of the queue, and on others it is not seen.   *)
LEMMA WriteOrder ==
  ASSUME RouterInv, NEW h \in Callers, Write(h)
  PROVE  OrderInv'
<1> DEFINE n == call[h].id
           a == agent.conn
           q == down[a]
           i == agent.resp.id
<1>1. /\ n \in Ids /\ call[h].conn \in Conns
      /\ sent \in Seq(Ids) /\ done \in Seq(Ids)
      /\ down \in [Conns -> Seq(Ids)]
      /\ agent.pc # "off" => a \in Conns
      /\ agent' = agent /\ done' = done
  BY DEF RouterInv, TypeInv, TypeOK, Named, Write, At, agentVars
<1>2. \/ sent' = Append(sent, n) /\ down' = down
      \/ sent' = sent /\ down' = down
      \/ /\ sent' = Append(sent, n)
         /\ down' = [down EXCEPT ![call[h].conn] = Append(@, n)]
  BY DEF Write
<1>3. /\ \A j : Contains(sent, j) => Contains(sent', j)
      /\ \A j, k : Before(sent, j, k) => Before(sent', j, k)
      /\ sent' = Append(sent, n) => /\ Contains(sent', n)
                                    /\ \A j : Contains(sent, j) => Before(sent', j, n)
  <2> HIDE DEF n
  <2>1. CASE sent' = sent
    <3>1. sent' # Append(sent, n)
      BY <1>1, <2>1, AppendProperties, LenProperties
    <3> QED
      BY <2>1, <3>1
  <2>2. CASE sent' = Append(sent, n)
    BY <1>1, <2>2, Grows
  <2> QED
    BY <1>2, <2>1, <2>2
<1>4. done # <<>> => Contains(sent, Last(done))
  BY <1>1, LastWritten DEF RouterInv, SentInv
<1> HIDE DEF n
<1>5. SUFFICES ASSUME agent.pc # "off"
               PROVE  /\ InOrder(sent', done, down'[a])
                      /\ agent.pc = "run" =>
                           /\ NotPassed(sent', done, i)
                           /\ \A j \in 1..Len(down'[a]) : Before(sent', i, down'[a][j])
  BY <1>1 DEF OrderInv
<1>6. /\ InOrder(sent, done, q)
      /\ agent.pc = "run" => /\ NotPassed(sent, done, i)
                             /\ \A j \in 1..Len(q) : Before(sent, i, q[j])
  BY <1>5 DEF RouterInv, OrderInv
<1>7. /\ InOrder(sent', done, q)
      /\ agent.pc = "run" => /\ NotPassed(sent', done, i)
                             /\ \A j \in 1..Len(q) : Before(sent', i, q[j])
  BY <1>3, <1>6 DEF InOrder, NotPassed
<1>8. CASE down'[a] = q
  BY <1>7, <1>8
<1>9. CASE down'[a] = Append(q, n) /\ sent' = Append(sent, n)
  <2> DEFINE z == Append(q, n)
  <2>1. /\ Len(q) \in Nat /\ Len(z) = Len(q) + 1
        /\ \A j \in 1..Len(q) : z[j] = q[j]
        /\ z[Len(q) + 1] = n
    BY <1>1, <1>5, AppendProperties, LenProperties
  <2>2. /\ \A j \in 1..Len(z) : j \in 1..Len(q) \/ j = Len(z)
        /\ \A j, k \in 1..Len(z) : j < k => j \in 1..Len(q)
    BY <2>1
  <2> HIDE DEF z
  <2>3. \A j \in 1..Len(q) : Before(sent', q[j], n)
    BY <1>3, <1>6, <1>9 DEF InOrder, NotPassed
  <2>4. NotPassed(sent', done, n)
    BY <1>3, <1>4, <1>9 DEF NotPassed
  <2>5. InOrder(sent', done, z)
    <3>1. \A j \in 1..Len(z) : NotPassed(sent', done, z[j])
      BY <1>7, <2>1, <2>2, <2>4 DEF InOrder
    <3>2. \A j, k \in 1..Len(z) : j < k => Before(sent', z[j], z[k])
      BY <1>7, <2>1, <2>2, <2>3 DEF InOrder
    <3> QED
      BY <3>1, <3>2 DEF InOrder
  <2>6. agent.pc = "run" => \A j \in 1..Len(z) : Before(sent', i, z[j])
    <3>1. agent.pc = "run" => Before(sent', i, n)
      BY <1>3, <1>6, <1>9 DEF NotPassed
    <3> QED
      BY <1>7, <2>1, <2>2, <3>1
  <2>7. z = down'[a]
    BY <1>9 DEF z
  <2> QED
    BY <1>7, <2>5, <2>6, <2>7
<1>10. \/ down'[a] = q
       \/ down'[a] = Append(q, n) /\ sent' = Append(sent, n)
  BY <1>1, <1>2, <1>5
<1> QED
  BY <1>8, <1>9, <1>10

(* The agent takes the commands of its connection in their order.          *)
LEMMA AgentOrder ==
  ASSUME RouterInv, Agent \/ Kill
  PROVE  OrderInv'
<1>1. /\ sent' = sent /\ down \in [Conns -> Seq(Ids)] /\ done \in Seq(Ids)
      /\ agent \in [pc : {"off", "read", "run", "reply"},
                    conn : Conns \cup {None}, resp : Response \cup {NoResponse}]
      /\ agent.pc # "off" => agent.conn \in Conns
      /\ agent.pc = "run" => agent.resp.id \in Ids
  BY DEF RouterInv, TypeInv, TypeOK, Named, Response, Agent, Dial, AgentRead,
         HandleCommand, Reply, AgentDisconnected, Kill, callVars
<1>2. ASSUME NEW c \in Conns, Dial(c)
      PROVE  OrderInv'
  <2>1. agent'.conn = c /\ agent'.pc = "read" /\ down'[c] = <<>>
    BY <1>1, <1>2 DEF Dial, AgentOff
  <2>2. InOrder(sent', done', <<>>)
    BY EmptySeq DEF InOrder
  <2> QED
    BY <2>1, <2>2 DEF OrderInv
<1>3. CASE AgentRead
  <2> DEFINE q == down[agent.conn]
  <2>1. /\ agent'.pc = "run" /\ agent'.conn = agent.conn
        /\ agent'.resp.id = Head(q) /\ down'[agent.conn] = Tail(q)
        /\ q \in Seq(Ids) /\ q # <<>> /\ done' = done
    BY <1>1, <1>3 DEF AgentRead
  <2>2. InOrder(sent, done, q)
    BY <1>3 DEF RouterInv, OrderInv, AgentRead
  <2> HIDE DEF q
  <2>3. /\ InOrder(sent, done, Tail(q))
        /\ NotPassed(sent, done, Head(q))
        /\ \A j \in 1..Len(Tail(q)) : Before(sent, Head(q), Tail(q)[j])
    BY <2>1, <2>2, TailInOrder
  <2> QED
    BY <1>1, <2>1, <2>3 DEF OrderInv
<1>4. CASE HandleCommand
  <2> DEFINE q == down[agent.conn]
             i == agent.resp.id
  <2>1. /\ agent'.pc = "reply" /\ agent'.conn = agent.conn /\ down' = down
        /\ done' = Append(done, i) \/ done' = done
    BY <1>1, <1>4 DEF HandleCommand, netVars
  <2>2. /\ InOrder(sent, done, q) /\ NotPassed(sent, done, i)
        /\ \A j \in 1..Len(q) : Before(sent, i, q[j])
    BY <1>4 DEF RouterInv, OrderInv, HandleCommand
  <2>3. CASE done' = Append(done, i)
    <3>1. Last(done') = i
      BY <1>1, <1>4, <2>3, AppendProperties DEF HandleCommand, Last
    <3>2. InOrder(sent, done', q)
      BY <2>2, <3>1 DEF InOrder, NotPassed
    <3> QED
      BY <1>1, <2>1, <3>2 DEF OrderInv
  <2>4. CASE done' = done
    BY <1>1, <2>1, <2>2, <2>4 DEF OrderInv
  <2> QED
    BY <2>1, <2>3, <2>4
<1>5. CASE Reply \/ AgentDisconnected \/ Kill
  <2>1. /\ down' = down /\ done' = done
        /\ agent'.pc # "off" => /\ agent'.pc = "read" /\ agent.pc # "off"
                                /\ agent'.conn = agent.conn
    <3>1. CASE AgentDisconnected \/ Kill
      BY <3>1 DEF AgentDisconnected, Kill, AgentOff, netVars
    <3>2. CASE Reply
      <4>1. down' = down /\ done' = done /\ agent.pc = "reply"
        BY <3>2 DEF Reply
      <4>2. \/ agent' = AgentOff
            \/ agent' = [agent EXCEPT !.pc = "read", !.resp = NoResponse]
        BY <3>2 DEF Reply
      <4>3. CASE agent' = AgentOff
        BY <4>1, <4>3 DEF AgentOff
      <4>4. CASE agent' = [agent EXCEPT !.pc = "read", !.resp = NoResponse]
        <5>1. agent'.pc = "read" /\ agent'.conn = agent.conn
          BY <1>1, <4>4
        <5> QED
          BY <4>1, <5>1
      <4> QED
        BY <4>2, <4>3, <4>4
    <3> QED
      BY <1>5, <3>1, <3>2
  <2> QED
    BY <1>1, <2>1 DEF RouterInv, OrderInv
<1> QED
  BY <1>2, <1>3, <1>4, <1>5 DEF Agent

LEMMA OrderStep ==
  ASSUME RouterInv, Next
  PROVE  OrderInv'
<1>1. CASE UNCHANGED <<sent, done, down, agent>>
  BY <1>1 DEF RouterInv, OrderInv
<1>2. ASSUME NEW h \in Callers, Execute(h) \/ Call(h)
      PROVE  OrderInv'
  BY <1>1, <1>2, WriteOrder DEF Execute, Call, WriteFailed, Receive, Timeout,
                                Forget, netVars, agentVars
<1>3. CASE \E c \in Conns : ServeHTTP(c) \/ Cut(c)
  BY <1>1, <1>3 DEF ServeHTTP, Register, Unauthorized, ReadResponse, Deliver,
                    ReadFails, Unregister, Cut, callVars, netVars, agentVars
<1> QED
  BY <1>2, <1>3, AgentOrder DEF Next

(* What was run stays run.                                                 *)
LEMMA HonestStays ==
  ASSUME RouterInv, Next
  PROVE  /\ done' = done \/ HandleCommand
         /\ \A i : Contains(done, i) => Contains(done', i)
         /\ \A r : Honest(done, r) => Honest(done', r)
<1>1. done' = done \/ HandleCommand
  BY DEF Next, Execute, Call, Write, WriteFailed, Receive, Timeout, Forget,
         ServeHTTP, Register, Unauthorized, ReadResponse, Deliver, ReadFails,
         Unregister, Cut, Agent, Dial, AgentRead, Reply, AgentDisconnected,
         Kill, agentVars
<1>2. ASSUME HandleCommand, done' # done
      PROVE  \A i : Contains(done, i) => Contains(done', i)
  <2>1. done' = Append(done, agent.resp.id) /\ done \in Seq(Ids)
        /\ agent.resp.id \in Ids
    BY <1>2 DEF HandleCommand, RouterInv, TypeInv, TypeOK, Named, Response
  <2> QED
    BY <2>1, Grows
<1>3. \A i : Contains(done, i) => Contains(done', i)
  <2>1. CASE done' = done
    BY <2>1
  <2> QED
    BY <1>1, <1>2, <2>1
<1> QED
  BY <1>1, <1>3 DEF Honest

(* The agent reports success of a command only when the router ran it.     *)
LEMMA AgentHonest ==
  ASSUME RouterInv, Next, agent'.pc = "reply"
  PROVE  Honest(done', agent'.resp)
<1>1. /\ agent \in [pc : {"off", "read", "run", "reply"},
                    conn : Conns \cup {None}, resp : Response \cup {NoResponse}]
      /\ done \in Seq(Ids)
      /\ agent.pc = "run" => agent.resp \in Response
  BY DEF RouterInv, TypeInv, TypeOK, Named
<1>2. CASE HandleCommand
  <2>1. PICK ok \in BOOLEAN :
          /\ agent' = [agent EXCEPT !.pc = "reply", !.resp.ok = ok]
          /\ \/ done' = Append(done, agent.resp.id)
             \/ ~ok /\ UNCHANGED done
    BY <1>2 DEF HandleCommand
  <2>2. agent.resp \in Response
    BY <1>1, <1>2 DEF HandleCommand
  <2>3. agent'.resp = [agent.resp EXCEPT !.ok = ok]
    BY <1>1, <2>1
  <2>4. agent'.resp.ok = ok /\ agent'.resp.id = agent.resp.id
        /\ agent.resp.id \in Ids
    BY <2>2, <2>3 DEF Response
  <2>5. CASE done' = Append(done, agent.resp.id)
    BY <1>1, <2>4, <2>5, Grows DEF Honest
  <2>6. CASE ~ok
    BY <2>4, <2>6 DEF Honest
  <2> QED
    BY <2>1, <2>5, <2>6
<1>3. CASE agent' = agent
  BY <1>3, HonestStays DEF RouterInv, OkInv
<1>4. CASE Kill \/ AgentDisconnected \/ \E c \in Conns : Dial(c)
  <2>1. ASSUME NEW c \in Conns, Dial(c)
        PROVE  agent'.pc = "read"
    BY <2>1 DEF Dial, AgentOff
  <2> QED
    BY <1>4, <2>1 DEF Kill, AgentDisconnected, AgentOff
<1>5. CASE AgentRead
  <2>1. agent'.pc = "run"
    BY <1>1, <1>5 DEF AgentRead
  <2> QED
    BY <2>1
<1>6. CASE Reply
  <2>1. CASE agent' = AgentOff
    BY <2>1 DEF AgentOff
  <2>2. CASE agent' = [agent EXCEPT !.pc = "read", !.resp = NoResponse]
    <3>1. agent'.pc = "read"
      BY <1>1, <2>2
    <3> QED
      BY <3>1
  <2> QED
    BY <1>6, <2>1, <2>2 DEF Reply
<1>7. \/ agent' = agent \/ Agent \/ Kill
  BY DEF Next, Execute, Call, Write, WriteFailed, Receive, Timeout, Forget,
         ServeHTTP, Register, Unauthorized, ReadResponse, Deliver, ReadFails,
         Unregister, Cut, agentVars
<1> QED
  BY <1>2, <1>3, <1>4, <1>5, <1>6, <1>7 DEF Agent

(* So does every response on its way to the hub.                           *)
LEMMA UpHonest ==
  ASSUME RouterInv, Next, NEW c \in Conns, NEW j \in 1..Len(up'[c])
  PROVE  Honest(done', up'[c][j])
<1>1. up \in [Conns -> Seq(Response)] /\ up[c] \in Seq(Response)
  BY DEF RouterInv, TypeInv, TypeOK
<1>2. CASE up'[c] = up[c]
  BY <1>2, HonestStays DEF RouterInv, OkInv
<1>3. ASSUME NEW d \in Conns, ReadResponse(d), up'[c] # up[c]
      PROVE  Honest(done', up'[c][j])
  <2>1. up'[c] = Tail(up[c]) /\ up[c] # <<>>
    BY <1>1, <1>3 DEF ReadResponse
  <2>2. j + 1 \in 1..Len(up[c]) /\ up'[c][j] = up[c][j + 1]
    BY <1>1, <2>1, HeadTailProperties, LenProperties
  <2> QED
    BY <2>2, HonestStays DEF RouterInv, OkInv
<1>4. ASSUME NEW d \in Conns, Dial(d), up'[c] # up[c]
      PROVE  FALSE
  <2>1. up'[c] = <<>>
    BY <1>1, <1>4 DEF Dial
  <2> QED
    BY <2>1, EmptySeq
<1>5. CASE Reply /\ up'[c] # up[c]
  <2>1. up'[c] = Append(up[c], agent.resp) /\ agent.pc = "reply"
    BY <1>1, <1>5 DEF Reply
  <2>2. agent.resp \in Response /\ Honest(done, agent.resp)
    BY <2>1 DEF RouterInv, TypeInv, Named, OkInv
  <2>3. \/ j \in 1..Len(up[c]) /\ up'[c][j] = up[c][j]
        \/ up'[c][j] = agent.resp
    BY <1>1, <2>1, <2>2, AppendProperties, LenProperties
  <2> QED
    BY <2>2, <2>3, HonestStays DEF RouterInv, OkInv
<1>6. \/ up' = up \/ \E d \in Conns : ReadResponse(d) \/ Dial(d)
      \/ Reply
  BY DEF Next, Execute, Call, Write, WriteFailed, Receive, Timeout, Forget,
         ServeHTTP, Register, Unauthorized, Deliver, ReadFails, Unregister,
         Cut, Agent, AgentRead, HandleCommand, AgentDisconnected, Kill, netVars
<1> QED
  BY <1>2, <1>3, <1>4, <1>5, <1>6

(* And every response in the hub.                                          *)
LEMMA HubHonest ==
  ASSUME RouterInv, Next
  PROVE  /\ \A c \in Conns :
              reader'[c].pc = "deliver" => Honest(done', reader'[c].resp)
         /\ \A r \in inbox' : Honest(done', r)
<1>1. reader \in [Conns -> [pc : {"none", "auth", "read", "deliver", "exit"},
                            resp : Response \cup {NoResponse}]]
  BY DEF RouterInv, TypeInv, TypeOK
<1>2. ASSUME \A c \in Conns : reader'[c].pc = "deliver" => reader'[c] = reader[c],
             inbox' \subseteq inbox
      PROVE  /\ \A c \in Conns :
                  reader'[c].pc = "deliver" => Honest(done', reader'[c].resp)
             /\ \A r \in inbox' : Honest(done', r)
  BY <1>2, HonestStays DEF RouterInv, OkInv
<1>3. ASSUME NEW h \in Callers, Execute(h) \/ Call(h)
      PROVE  reader' = reader /\ inbox' \subseteq inbox
  BY <1>3 DEF Execute, Call, Write, WriteFailed, Receive, Timeout, Forget, hubVars
<1>4. ASSUME NEW d \in Conns, ReadResponse(d)
      PROVE  /\ \A c \in Conns :
                  reader'[c].pc = "deliver" => Honest(done', reader'[c].resp)
             /\ \A r \in inbox' : Honest(done', r)
  <2>1. 1 \in 1..Len(up[d]) /\ Head(up[d]) = up[d][1]
    BY <1>4, EmptySeq DEF ReadResponse, RouterInv, TypeInv, TypeOK
  <2>2. Honest(done', Head(up[d]))
    BY <2>1, HonestStays DEF RouterInv, OkInv
  <2>3. \A c \in Conns : \/ c = d /\ reader'[c].resp = Head(up[d])
                         \/ reader'[c] = reader[c]
    BY <1>1, <1>4 DEF ReadResponse
  <2>4. inbox' = inbox
    BY <1>4 DEF ReadResponse
  <2> QED
    BY <2>2, <2>3, <2>4, HonestStays DEF RouterInv, OkInv
<1>5. ASSUME NEW d \in Conns, Deliver(d)
      PROVE  /\ \A c \in Conns :
                  reader'[c].pc = "deliver" => Honest(done', reader'[c].resp)
             /\ \A r \in inbox' : Honest(done', r)
  <2>1. /\ inbox' = inbox \cup {reader[d].resp} /\ reader[d].pc = "deliver"
        /\ \A c \in Conns : reader'[c].pc = "deliver" => reader'[c] = reader[c]
    BY <1>1, <1>5 DEF Deliver
  <2> QED
    BY <2>1, HonestStays DEF RouterInv, OkInv
<1>6. ASSUME NEW d \in Conns,
             Register(d) \/ Unauthorized(d) \/ ReadFails(d) \/ Unregister(d)
               \/ Cut(d) \/ Dial(d)
      PROVE  /\ \A c \in Conns : reader'[c].pc = "deliver" => reader'[c] = reader[c]
             /\ inbox' = inbox
  BY <1>1, <1>6 DEF Register, Unauthorized, ReadFails, Unregister, Cut, Dial,
                    NoReader, hubVars
<1>7. CASE AgentRead \/ HandleCommand \/ Reply \/ AgentDisconnected \/ Kill
  <2>1. reader' = reader /\ inbox' = inbox
    BY <1>7 DEF AgentRead, HandleCommand, Reply, AgentDisconnected, Kill, hubVars
  <2> QED
    BY <1>2, <2>1
<1> QED
  BY <1>2, <1>3, <1>4, <1>5, <1>6, <1>7 DEF Next, ServeHTTP, Agent

LEMMA AlwaysRouter == Spec => []RouterInv
<1>1. Init => RouterInv
  <2> SUFFICES ASSUME Init PROVE RouterInv
    OBVIOUS
  <2>1. TypeInv
    BY DEF Init, TypeInv, TypeOK, Named, NoCall, NoReader, NoResponse, AgentOff,
           At, Ids
  <2>2. CallsInv
    BY DEF Init, CallsInv, At, NoCall
  <2>3. SentInv
    BY EmptySeq DEF Init, SentInv, Distinct
  <2>4. OrderInv
    BY DEF Init, OrderInv, AgentOff
  <2>5. OkInv
    BY EmptySeq DEF Init, OkInv, AgentOff, NoReader
  <2> QED
    BY <2>1, <2>2, <2>3, <2>4, <2>5 DEF RouterInv
<1>2. RouterInv /\ TypeInv' /\ [Next]_vars => RouterInv'
  <2> SUFFICES ASSUME RouterInv, TypeInv', [Next]_vars PROVE RouterInv'
    OBVIOUS
  <2>1. CASE Next
    <3>1. OkInv'
      BY <2>1, AgentHonest, UpHonest, HubHonest DEF OkInv
    <3> QED
      BY <2>1, <3>1, CallsStep, SentStep, OrderStep DEF RouterInv
  <2>2. CASE UNCHANGED vars
    BY <2>2 DEF vars, hubVars, callVars, netVars, agentVars, RouterInv,
                CallsInv, SentInv, OrderInv, OkInv, At
  <2> QED
    BY <2>1, <2>2
<1> QED
  BY <1>1, <1>2, AlwaysTyped, PTL DEF Spec

(* The abstract position of a written command is its only one.             *)
LEMMA Position ==
  ASSUME RouterInv, NEW k \in 1..Len(sent)
  PROVE  (CHOOSE l \in 1..Len(sent) : sent[l] = sent[k]) = k
BY DEF RouterInv, SentInv, Distinct

(* The command in the agent's hand has its place behind the one that was   *)
(* run last.                                                               *)
LEMMA RunsLater ==
  ASSUME RouterInv, agent.pc = "run"
  PROVE  \E k \in 1..Len(sent) :
           /\ sent[k] = agent.resp.id
           /\ k > (IF done = <<>> THEN 0
                   ELSE CHOOSE l \in 1..Len(sent) : sent[l] = Last(done))
<1>1. NotPassed(sent, done, agent.resp.id)
  BY DEF RouterInv, OrderInv
<1>2. CASE done = <<>>
  BY <1>1, <1>2 DEF NotPassed, Contains
<1>3. CASE done # <<>>
  <2>1. PICK l, k \in 1..Len(sent) :
          l < k /\ sent[l] = Last(done) /\ sent[k] = agent.resp.id
    BY <1>1, <1>3 DEF NotPassed, Before
  <2>2. (CHOOSE m \in 1..Len(sent) : sent[m] = Last(done)) = l
    BY <2>1, Position
  <2> QED
    BY <1>3, <2>1, <2>2
<1> QED
  BY <1>2, <1>3

(* The position of the command that was run last.                          *)
LastPos(s, d) ==
  IF d = <<>> THEN 0 ELSE CHOOSE k \in 1..Len(s) : s[k] = Last(d)

(* The abstract step of a call that returns.                               *)
LEMMA ReturnRefines ==
  ASSUME RouterInv, NEW h \in Callers, NEW a \in {"ok", "error"},
         ~At(h, "idle"), Return(h, a), UNCHANGED <<sent, done>>,
         a = "ok" => Contains(done, call[h].id)
  PROVE  Router!Return(call[h].id) /\ call[h].id \in Ids
<1>1. call[h].id \in Ids /\ answer[call[h].id] = "none"
  BY DEF RouterInv, TypeInv, Named, CallsInv
<1>2. answer' = [answer EXCEPT ![call[h].id] = a]
  BY DEF Return
<1> QED
  <2>1. LastPos(sent, done)' = LastPos(sent, done)
    OBVIOUS
  <2>2. a = "ok" => \E k \in 1..Len(done) : done[k] = call[h].id
    BY DEF Contains
  <2>3. Router!Return(call[h].id)
    BY <1>1, <1>2, <2>1, <2>2 DEF Router!Return, LastPos
  <2> QED
    BY <1>1, <2>3

(* The abstract step of a command that is written.                         *)
LEMMA SendRefines ==
  ASSUME RouterInv, NEW i \in Ids, ~Contains(sent, i),
         sent' = Append(sent, i), UNCHANGED <<done, answer>>
  PROVE  Router!Send(i)
<1>1. \A k \in 1..Len(sent) : sent[k] # i
  BY DEF Contains
<1>2. LastPos(sent', done') = LastPos(sent, done)
  <2>1. CASE done = <<>>
    BY <2>1 DEF LastPos
  <2>2. CASE done # <<>>
    <3>1. Contains(sent, Last(done))
      BY <2>2, LastWritten DEF RouterInv, TypeInv, TypeOK, SentInv
    <3>2. PICK k \in 1..Len(sent) : sent[k] = Last(done)
      BY <3>1 DEF Contains
    <3>3. LastPos(sent, done) = k
      BY <2>2, <3>2, Position DEF LastPos
    <3>4. /\ Len(sent) \in Nat /\ Len(sent') = Len(sent) + 1
          /\ \A l \in 1..Len(sent) : sent'[l] = sent[l]
          /\ sent'[Len(sent) + 1] = i
      BY AppendProperties, LenProperties DEF RouterInv, TypeInv, TypeOK
    <3>5. \A l \in 1..Len(sent') : sent'[l] = Last(done) <=> l = k
      BY <1>1, <3>2, <3>4 DEF RouterInv, SentInv, Distinct
    <3>6. k \in 1..Len(sent')
      BY <3>2, <3>4
    <3>7. (CHOOSE l \in 1..Len(sent') : sent'[l] = Last(done)) = k
      BY <3>5, <3>6
    <3>8. LastPos(sent', done) = k
      BY <2>2, <3>7 DEF LastPos
    <3> QED
      BY <3>3, <3>8
  <2> QED
    BY <2>1, <2>2
<1> QED
  BY <1>1, <1>2 DEF Router!Send, LastPos, Last

(* The abstract step of a command the router runs.                         *)
LEMMA RunRefines ==
  ASSUME RouterInv, agent.pc = "run", done' = Append(done, agent.resp.id),
         UNCHANGED <<sent, answer>>
  PROVE  \E k \in 1..Len(sent) : Router!Run(k)
<1>1. PICK k \in 1..Len(sent) : sent[k] = agent.resp.id /\ k > LastPos(sent, done)
  BY RunsLater DEF LastPos
<1>2. done \in Seq(Ids) /\ agent.resp.id \in Ids
  BY DEF RouterInv, TypeInv, TypeOK, Named, Response
<1>3. done' # <<>> /\ Last(done') = sent[k]
  BY <1>1, <1>2, AppendProperties DEF Last
<1>4. LastPos(sent', done') = k
  BY <1>1, <1>3, Position DEF LastPos
<1> QED
  <2>1. LastPos(sent, done)' = k
    BY <1>4
  <2>2. k > LastPos(sent, done) /\ done' = Append(done, sent[k])
    BY <1>1
  <2>3. Router!Run(k)
    BY <2>1, <2>2 DEF Router!Run, LastPos
  <2> QED
    BY <2>3

(* Every step of hub, agent and environment is a step of RouterCalls, or   *)
(* changes nothing there.                                                  *)
LEMMA StepRefines ==
  ASSUME RouterInv, [Next]_vars
  PROVE  [Router!Next]_Router!vars
<1>1. CASE UNCHANGED <<sent, done, answer>>
  BY <1>1 DEF Router!vars
<1>2. ASSUME NEW h \in Callers, Write(h)
      PROVE  [Router!Next]_Router!vars
  <2>1. CASE sent' = Append(sent, call[h].id)
    <3>1. /\ call[h].id \in Ids /\ ~Contains(sent, call[h].id)
          /\ done' = done /\ answer' = answer
      BY <1>2 DEF Write, At, RouterInv, TypeInv, Named, CallsInv, agentVars
    <3>2. Router!Send(call[h].id)
      BY <2>1, <3>1, SendRefines
    <3> QED
      BY <3>1, <3>2 DEF Router!Next
  <2>2. CASE sent' = sent
    BY <1>1, <1>2, <2>2 DEF Write, agentVars
  <2> QED
    BY <1>2, <2>1, <2>2 DEF Write
<1>3. ASSUME NEW h \in Callers, WriteFailed(h) \/ Receive(h) \/ Forget(h)
      PROVE  [Router!Next]_Router!vars
  <2>1. \E a \in {"ok", "error"} :
          Return(h, a) /\ (a = "ok" => Contains(done, call[h].id))
    <3>1. CASE Receive(h)
      <4>1. PICK r \in inbox :
              r.id = call[h].id /\ Return(h, IF r.ok THEN "ok" ELSE "error")
        BY <3>1 DEF Receive
      <4>2. r.ok => Contains(done, call[h].id)
        BY <4>1 DEF RouterInv, OkInv, Honest
      <4>3. CASE r.ok
        BY <4>1, <4>2, <4>3
      <4>4. CASE ~r.ok
        BY <4>1, <4>4
      <4> QED
        BY <4>3, <4>4
    <3> QED
      BY <1>3, <3>1 DEF WriteFailed, Forget
  <2>2. ~At(h, "idle") /\ UNCHANGED <<sent, done>>
    BY <1>3 DEF WriteFailed, Receive, Forget, At, agentVars
  <2>3. Router!Return(call[h].id) /\ call[h].id \in Ids
    BY <2>1, <2>2, ReturnRefines
  <2> QED
    BY <2>3 DEF Router!Next
<1>4. CASE HandleCommand
  <2>1. agent.pc = "run" /\ UNCHANGED <<sent, answer>>
    BY <1>4 DEF HandleCommand, callVars
  <2>2. CASE done' = Append(done, agent.resp.id)
    BY <2>1, <2>2, RunRefines DEF Router!Next
  <2>3. CASE done' = done
    BY <1>1, <2>1, <2>3
  <2> QED
    BY <1>4, <2>2, <2>3 DEF HandleCommand
<1>5. \/ UNCHANGED <<sent, done, answer>>
      \/ HandleCommand
      \/ \E h \in Callers : Write(h) \/ WriteFailed(h) \/ Receive(h) \/ Forget(h)
  BY DEF Next, Execute, Call, Timeout, ServeHTTP, Register, Unauthorized,
         ReadResponse, Deliver, ReadFails, Unregister, Cut, Agent, Dial,
         AgentRead, Reply, AgentDisconnected, Kill, vars, callVars, agentVars
<1> QED
  BY <1>1, <1>2, <1>3, <1>4, <1>5

(***************************************************************************)
(* The hub (agent_hub.go 41-150) and the agent (agent/main.go) implement   *)
(* RouterCalls: the router runs a command at most once and in the order of *)
(* writing, whatever connections are lost, and execute succeeds only for a *)
(* command that was run.                                                   *)
(***************************************************************************)
THEOREM HubImplementsRouterCalls == Spec => ImplementsRouterCalls
<1>1. Init => Router!Init
  BY DEF Init, Router!Init
<1>2. RouterInv /\ [Next]_vars => [Router!Next]_Router!vars
  BY StepRefines
<1> QED
  BY <1>1, <1>2, AlwaysRouter, PTL DEF Spec, ImplementsRouterCalls, Router!Spec

=============================================================================
