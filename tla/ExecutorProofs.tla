--------------------------- MODULE ExecutorProofs ---------------------------
(***************************************************************************)
(* The two ways to the router together, for any number of operations,      *)
(* commands and changes of executor: commands are run once, and late only  *)
(* when they had failed.  Of the hub nothing is used but RouterCalls.      *)
(***************************************************************************)
EXTENDS Executor, TLAPS

(* A call that waits is the only one of its command, which has not         *)
(* returned; commands are used in order.                                   *)
CallsInv ==
  /\ \A h \in Handlers : op[h].pc = "wait" =>
       /\ op[h].cmd \in 1..issued
       /\ answer[op[h].cmd] = "none"
  /\ \A g, h \in Handlers :
       op[g].pc = "wait" /\ op[h].pc = "wait" /\ g # h => op[g].cmd # op[h].cmd
  /\ \A c \in Cmds : c > issued => answer[c] = "none"
  /\ \A d \in 1..issued : \A c \in earlier[d] : c < d /\ answer[c] # "none"

(* The hub's commands are sent in the order of their numbers; direct ones  *)
(* fly on their own.                                                       *)
WaysInv ==
  /\ \A k \in 1..Len(sent) : sent[k] \in 1..issued /\ route[sent[k]] = "hub"
  /\ \A k, l \in 1..Len(sent) : k < l => sent[k] < sent[l]
  /\ \A c \in flying : route[c] = "direct"

(* What was run is not under way any more, and what of it came from the    *)
(* hub came in order.                                                      *)
RanInv ==
  /\ \A k \in 1..Len(ran) :
       /\ ran[k] \in 1..issued /\ ran[k] \notin flying
       /\ route[ran[k]] = "hub" => \E l \in 1..last : sent[l] = ran[k]
  /\ \A k, l \in 1..Len(ran) : k < l =>
       /\ ran[k] # ran[l]
       /\ route[ran[k]] = "hub" /\ route[ran[l]] = "hub" => ran[k] < ran[l]
  /\ \A k \in 1..Len(done) : Contains(ran, done[k])
  /\ \A c \in Cmds : answer[c] = "ok" => Contains(ran, c)

ExecutorInv ==
  ExecutorAssumption /\ TypeOK /\ CallsInv /\ WaysInv /\ RanInv /\ LateOnlyIfFailed

LEMMA ExecutorInit == ExecutorAssumption /\ Init => ExecutorInv
<1> SUFFICES ASSUME ExecutorAssumption, Init PROVE ExecutorInv
  OBVIOUS
<1>1. /\ sent = <<>> /\ ran = <<>> /\ done = <<>> /\ last = 0 /\ issued = 0
      /\ answer = [c \in Cmds |-> "none"] /\ flying = {}
  BY DEF Init, Router!Init
<1>2. TypeOK
  BY <1>1 DEF ExecutorAssumption, Init, TypeOK, Idle, Router!Answers, Cmds
<1> QED BY <1>1, <1>2 DEF ExecutorInv, Init, CallsInv, WaysInv, RanInv, LateOnlyIfFailed,
           Idle, Cmds

(* A command is issued: what was run, sent or answered before stays.       *)
LEMMA IssueKeeps ==
  ASSUME ExecutorInv, NEW h \in Handlers, NEW executor \in {"hub", "direct"},
         Issue(h, executor)
  PROVE  /\ issued \in Nat /\ issued' = issued + 1 /\ issued' \in Cmds
         /\ issued' \in 0..MaxCmds
         /\ route'[issued'] = executor
         /\ \A c \in 1..issued : route'[c] = route[c] /\ earlier'[c] = earlier[c]
         /\ earlier'[issued'] = {c \in 1..issued : answer[c] # "none"}
         /\ route' \in [Cmds -> {"hub", "direct", "none"}]
         /\ earlier' \in [Cmds -> SUBSET Cmds]
         /\ 1..issued \subseteq Cmds
         /\ op[h].pc = "next" /\ op[h].via = executor
         /\ answer[issued'] = "none"
<1>1. issued \in Nat /\ issued' = issued + 1 /\ issued' \in Cmds /\ 1..issued \subseteq Cmds
      /\ issued' \in 0..MaxCmds
  BY DEF ExecutorAssumption, Issue, ExecutorInv, TypeOK, Cmds
<1>2. {c \in 1..issued : answer[c] # "none"} \in SUBSET Cmds
  BY <1>1
<1>3. issued' \notin 1..issued
  BY <1>1
<1>4. /\ route' \in [Cmds -> {"hub", "direct", "none"}] /\ route'[issued'] = executor
      /\ \A c \in 1..issued : route'[c] = route[c]
  BY <1>1, <1>3 DEF Issue, ExecutorInv, TypeOK
<1>5. /\ earlier' \in [Cmds -> SUBSET Cmds]
      /\ earlier'[issued'] = {c \in 1..issued : answer[c] # "none"}
      /\ \A c \in 1..issued : earlier'[c] = earlier[c]
  BY <1>1, <1>2, <1>3 DEF Issue, ExecutorInv, TypeOK
<1>6. answer[issued'] = "none"
  BY <1>1 DEF ExecutorInv, CallsInv
<1> QED BY <1>1, <1>4, <1>5, <1>6 DEF Issue

(* A command that returns was waited for.                                  *)
LEMMA ReturnKeeps ==
  ASSUME ExecutorInv, NEW h \in Handlers, op[h].pc = "wait", Returned(h),
         NEW a \in {"ok", "error"},
         answer' = [answer EXCEPT ![op[h].cmd] = a],
         a = "ok" => Contains(ran, op[h].cmd),
         UNCHANGED <<connected, configured, hub, flying, history, ran>>
  PROVE  ExecutorInv'
<1> DEFINE c == op[h].cmd
<1>1. /\ c \in 1..issued /\ c \in Cmds /\ answer[c] = "none"
      /\ issued \in Nat
  BY DEF ExecutorAssumption, ExecutorInv, CallsInv, TypeOK, Cmds
<1>2. answer'[c] = a /\ \A d \in Cmds \ {c} : answer'[d] = answer[d]
  BY <1>1 DEF ExecutorInv, TypeOK
<1>3. /\ op'[h].pc = "next" /\ \A g \in Handlers \ {h} : op'[g] = op[g]
  BY DEF Returned, ExecutorInv, TypeOK
<1>4. TypeOK'
  <2>1. answer' \in [Cmds -> Router!Answers]
    BY <1>1 DEF ExecutorInv, TypeOK, Router!Answers
  <2>2. op'[h] \in [pc : {"next", "wait"}, via : {"hub", "direct"}, cmd : 0..MaxCmds]
    <3> DEFINE Rec == [pc : {"next", "wait"}, via : {"hub", "direct"}, cmd : 0..MaxCmds]
    <3>1. op[h] \in Rec
      BY DEF ExecutorInv, TypeOK, Idle
    <3>2. 0 \in 0..MaxCmds
      BY DEF ExecutorAssumption, ExecutorInv
    <3>3. op'[h] = [op[h] EXCEPT !.pc = "next", !.cmd = 0]
      BY DEF Returned, ExecutorInv, TypeOK
    <3> QED BY <3>1, <3>2, <3>3
  <2>3. op' \in [Handlers -> {Idle} \cup [pc : {"next", "wait"},
                                          via : {"hub", "direct"}, cmd : 0..MaxCmds]]
    BY <2>2, <1>3 DEF Returned, ExecutorInv, TypeOK
  <2> QED BY <2>1, <2>3 DEF ExecutorInv, TypeOK, hub, history
<1>e. \A d \in 1..issued : \A b \in earlier[d] : b # c /\ b \in Cmds
  <2>1. \A d \in 1..issued : d \in Cmds /\ earlier[d] \in SUBSET Cmds
    BY DEF ExecutorAssumption, ExecutorInv, TypeOK, Cmds
  <2> QED BY <1>1, <2>1 DEF ExecutorInv, CallsInv
<1>5. CallsInv'
  <2> HIDE DEF c
  <2>2. \A g \in Handlers : op'[g].pc = "wait" => g # h /\ op[g].cmd # c
    BY <1>3 DEF ExecutorInv, CallsInv, c
  <2> QED BY <1>1, <1>2, <1>3, <1>e, <2>2
          DEF ExecutorInv, CallsInv, history, Cmds
<1>6. WaysInv'
  BY DEF ExecutorInv, WaysInv, hub, history
<1>7. RanInv'
  BY <1>1, <1>2 DEF ExecutorInv, RanInv, hub, history, Contains
<1>8. LateOnlyIfFailed'
  <2> HIDE DEF c
  <2> QED BY <1>2, <1>e DEF ExecutorInv, LateOnlyIfFailed, Overtaken, history
<1> QED BY <1>4, <1>5, <1>6, <1>7, <1>8 DEF ExecutorInv

(* Whatever becomes of a command that is issued, those before it stand.    *)
LEMMA IssueLate ==
  ASSUME ExecutorInv, NEW h \in Handlers, NEW executor \in {"hub", "direct"},
         Issue(h, executor), ran' = ran,
         \A c \in 1..issued : answer'[c] = answer[c]
  PROVE  LateOnlyIfFailed'
<1>1. /\ issued \in Nat /\ issued' = issued + 1
      /\ \A c \in 1..issued : route'[c] = route[c] /\ earlier'[c] = earlier[c]
  BY IssueKeeps
<1>2. \A k \in 1..Len(ran) : ran[k] \in 1..issued
  BY DEF ExecutorInv, RanInv
<1>3. \A c, d : Overtaken(c, d)' => Overtaken(c, d) /\ c \in 1..issued /\ d \in 1..issued
  BY <1>2 DEF Overtaken, ExecutorInv, TypeOK
<1> SUFFICES ASSUME NEW d \in 1..issued', NEW c \in earlier'[d], Overtaken(c, d)'
             PROVE  answer'[c] = "error" /\ ~(route'[c] = "hub" /\ route'[d] = "hub")
  BY DEF LateOnlyIfFailed
<1>4. Overtaken(c, d) /\ c \in 1..issued /\ d \in 1..issued
  BY <1>3
<1> QED BY <1>1, <1>4 DEF ExecutorInv, LateOnlyIfFailed

LEMMA IssueRan ==
  ASSUME ExecutorInv, NEW h \in Handlers, NEW executor \in {"hub", "direct"},
         Issue(h, executor), UNCHANGED <<ran, last, done>>,
         flying' \subseteq flying \cup {issued + 1},
         \A k \in 1..last : sent'[k] = sent[k],
         \A c \in Cmds : answer'[c] = "ok" => answer[c] = "ok"
  PROVE  RanInv'
<1>1. /\ issued \in Nat /\ issued' = issued + 1
      /\ \A c \in 1..issued : route'[c] = route[c]
  BY IssueKeeps
<1>2. \A k \in 1..Len(ran) : ran[k] \in 1..issued /\ ran[k] \in 1..issued'
                             /\ ran[k] # issued + 1
  BY <1>1 DEF ExecutorInv, RanInv
<1>3. \A k \in 1..Len(ran) : route'[ran[k]] = route[ran[k]] /\ ran[k] \notin flying'
  BY <1>1, <1>2 DEF ExecutorInv, RanInv
<1> QED BY <1>2, <1>3 DEF ExecutorInv, RanInv, Contains

LEMMA IssueFails ==
  ASSUME ExecutorInv, NEW h \in Handlers, NEW executor \in {"hub", "direct"},
         Issue(h, executor), Fail(issued + 1),
         UNCHANGED <<connected, configured, op, hub, flying, ran>>
  PROVE  ExecutorInv'
<1>1. /\ issued \in Nat /\ issued' = issued + 1 /\ issued' \in Cmds
      /\ issued' \in 0..MaxCmds
      /\ \A c \in 1..issued : route'[c] = route[c] /\ earlier'[c] = earlier[c]
      /\ earlier'[issued'] = {c \in 1..issued : answer[c] # "none"}
      /\ route' \in [Cmds -> {"hub", "direct", "none"}]
      /\ earlier' \in [Cmds -> SUBSET Cmds]
      /\ 1..issued \subseteq Cmds
      /\ answer[issued'] = "none"
  BY IssueKeeps
<1>2. /\ answer' \in [Cmds -> Router!Answers]
      /\ answer'[issued'] = "error"
      /\ \A c \in Cmds \ {issued'} : answer'[c] = answer[c]
  BY <1>1 DEF Fail, ExecutorInv, TypeOK, Router!Answers
<1>3. 1..issued' = 1..issued \cup {issued'} /\ \A c \in 1..issued : c # issued' /\ c < issued'
  BY <1>1
<1>4. TypeOK'
  BY <1>1, <1>2, <1>3 DEF ExecutorInv, TypeOK, hub
<1>5. CallsInv'
  <2>1. \A d \in 1..issued' : \A c \in earlier'[d] : c < d /\ answer'[c] # "none"
    <3>1. ASSUME NEW d \in 1..issued, NEW c \in earlier'[d]
          PROVE  c < d /\ answer'[c] # "none"
      <4>1. c \in Cmds /\ c < d /\ answer[c] # "none"
        BY <1>1, <3>1 DEF ExecutorInv, CallsInv, TypeOK
      <4> QED BY <1>1, <1>2, <4>1
    <3>2. ASSUME NEW c \in earlier'[issued'] PROVE c < issued' /\ answer'[c] # "none"
      BY <1>1, <1>2, <1>3, <3>2
    <3> QED BY <1>3, <3>1, <3>2
  <2>2. \A c \in Cmds : c > issued' => answer'[c] = "none"
    BY <1>1, <1>2 DEF ExecutorInv, CallsInv, Cmds
  <2>3. \A g \in Handlers : op[g].pc = "wait" =>
          op[g].cmd \in 1..issued' /\ answer'[op[g].cmd] = "none"
    BY <1>1, <1>2, <1>3 DEF ExecutorInv, CallsInv
  <2> QED BY <2>1, <2>2, <2>3 DEF ExecutorInv, CallsInv
<1>6. WaysInv'
  BY <1>1, <1>3 DEF ExecutorInv, WaysInv, hub, TypeOK
<1>7. RanInv'
  BY <1>1, <1>2, IssueRan DEF hub
<1>8. LateOnlyIfFailed'
  BY <1>1, <1>2, <1>3, IssueLate
<1> QED BY <1>4, <1>5, <1>6, <1>7, <1>8 DEF ExecutorInv

LEMMA IssueWrites ==
  ASSUME ExecutorInv, NEW h \in Handlers, NEW executor \in {"hub", "direct"},
         Issue(h, executor), AwaitReply(h),
         \/ executor = "hub" /\ sent' = Append(sent, issued + 1) /\ flying' = flying
         \/ executor = "direct" /\ sent' = sent /\ flying' = flying \cup {issued + 1},
         UNCHANGED <<connected, configured, last, done, answer, ran>>
  PROVE  ExecutorInv'
<1>1. /\ issued \in Nat /\ issued' = issued + 1 /\ issued' \in Cmds
      /\ issued' \in 0..MaxCmds
      /\ route'[issued'] = executor
      /\ \A c \in 1..issued : route'[c] = route[c] /\ earlier'[c] = earlier[c]
      /\ earlier'[issued'] = {c \in 1..issued : answer[c] # "none"}
      /\ route' \in [Cmds -> {"hub", "direct", "none"}]
      /\ earlier' \in [Cmds -> SUBSET Cmds]
      /\ 1..issued \subseteq Cmds
      /\ op[h].pc = "next" /\ op[h].via = executor
      /\ answer[issued'] = "none"
  BY IssueKeeps
<1>2. 1..issued' = 1..issued \cup {issued'} /\ \A c \in 1..issued : c # issued' /\ c < issued'
  BY <1>1
<1>3. /\ op'[h].pc = "wait" /\ op'[h].cmd = issued'
      /\ \A g \in Handlers \ {h} : op'[g] = op[g]
  BY <1>1 DEF AwaitReply, ExecutorInv, TypeOK, Idle
<1>4. /\ sent' \in Seq(Cmds) /\ Len(sent') \in Nat /\ Len(sent') >= Len(sent)
      /\ \A k \in 1..Len(sent) : sent'[k] = sent[k]
      /\ \A k \in 1..Len(sent') :
           k \in 1..Len(sent) \/ (k > Len(sent) /\ sent'[k] = issued' /\ executor = "hub")
  <2>1. sent \in Seq(Cmds) /\ issued + 1 \in Cmds /\ issued' = issued + 1
    BY <1>1 DEF ExecutorInv, TypeOK
  <2>2. CASE executor = "hub" /\ sent' = Append(sent, issued + 1)
    BY <2>1, <2>2
  <2>3. CASE sent' = sent
    BY <2>1, <2>3
  <2> QED BY <2>2, <2>3
<1>5. TypeOK'
  <2>1. op' \in [Handlers -> {Idle} \cup [pc : {"next", "wait"},
                                          via : {"hub", "direct"}, cmd : 0..MaxCmds]]
    <3> DEFINE Rec == [pc : {"next", "wait"}, via : {"hub", "direct"}, cmd : 0..MaxCmds]
    <3>1. op[h] \in Rec
      BY <1>1 DEF ExecutorInv, TypeOK, Idle
    <3>2. op'[h] = [op[h] EXCEPT !.pc = "wait", !.cmd = issued']
      BY <1>1 DEF AwaitReply, ExecutorInv, TypeOK
    <3>3. op'[h] \in Rec
      BY <1>1, <3>1, <3>2
    <3> QED BY <1>3, <3>3 DEF AwaitReply, ExecutorInv, TypeOK
  <2>2. last \in 0..Len(sent')
    BY <1>4 DEF ExecutorInv, TypeOK
  <2>3. flying' \subseteq 1..issued'
    BY <1>1, <1>2 DEF ExecutorInv, TypeOK
  <2> QED BY <1>1, <1>4, <2>1, <2>2, <2>3 DEF ExecutorInv, TypeOK
<1>6. CallsInv'
  <2>1. \A d \in 1..issued' : \A c \in earlier'[d] : c < d /\ answer[c] # "none"
    <3>1. ASSUME NEW d \in 1..issued, NEW c \in earlier'[d]
          PROVE  c < d /\ answer[c] # "none"
      BY <1>1, <3>1 DEF ExecutorInv, CallsInv
    <3>2. ASSUME NEW c \in earlier'[issued'] PROVE c < issued' /\ answer[c] # "none"
      BY <1>1, <1>2, <3>2
    <3> QED BY <1>2, <3>1, <3>2
  <2>2. \A c \in Cmds : c > issued' => answer[c] = "none"
    BY <1>1 DEF ExecutorInv, CallsInv, Cmds
  <2>3. \A g \in Handlers : op'[g].pc = "wait" =>
          op'[g].cmd \in 1..issued' /\ answer[op'[g].cmd] = "none"
    BY <1>1, <1>2, <1>3 DEF ExecutorInv, CallsInv
  <2>4. \A f, g \in Handlers :
          op'[f].pc = "wait" /\ op'[g].pc = "wait" /\ f # g => op'[f].cmd # op'[g].cmd
    BY <1>2, <1>3 DEF ExecutorInv, CallsInv
  <2> QED BY <2>1, <2>2, <2>3, <2>4 DEF CallsInv
<1>7. WaysInv'
  <2>1. \A k \in 1..Len(sent') : sent'[k] \in 1..issued' /\ route'[sent'[k]] = "hub"
    BY <1>1, <1>2, <1>4 DEF ExecutorInv, WaysInv
  <2>2. ASSUME NEW k \in 1..Len(sent'), NEW l \in 1..Len(sent'), k < l
        PROVE  sent'[k] < sent'[l]
    <3>1. CASE l \in 1..Len(sent)
      BY <1>4, <2>2, <3>1 DEF ExecutorInv, WaysInv, TypeOK
    <3>2. CASE l > Len(sent)
      <4>1. sent'[l] = issued' /\ Len(sent') = Len(sent) + 1
        BY <1>4, <3>2 DEF ExecutorInv, TypeOK
      <4>2. k \in 1..Len(sent)
        BY <4>1, <2>2, <3>2 DEF ExecutorInv, TypeOK
      <4>3. sent'[k] \in 1..issued
        BY <4>2, <1>4 DEF ExecutorInv, WaysInv
      <4> QED BY <1>2, <4>1, <4>3
    <3> QED BY <1>4, <3>1, <3>2 DEF ExecutorInv, TypeOK
  <2>3. \A c \in flying' : route'[c] = "direct"
    <3>1. \A c \in flying : c \in 1..issued /\ route[c] = "direct"
      BY DEF ExecutorInv, WaysInv, TypeOK
    <3>2. \A c \in flying : route'[c] = "direct"
      BY <1>1, <3>1
    <3>3. executor = "direct" => route'[issued + 1] = "direct"
      BY <1>1
    <3> QED BY <3>2, <3>3
  <2> QED BY <2>1, <2>2, <2>3 DEF WaysInv
<1>8. RanInv'
  <2>1. \A k \in 1..last : sent'[k] = sent[k]
    BY <1>4 DEF ExecutorInv, TypeOK
  <2> QED BY <2>1, IssueRan
<1>9. LateOnlyIfFailed'
  BY IssueLate
<1> QED BY <1>5, <1>6, <1>7, <1>8, <1>9 DEF ExecutorInv

-----------------------------------------------------------------------------
(* The router                                                              *)

(* A command that has not been run is run, and has not come by the hub, or *)
(* comes by it behind all those that were run.                             *)
LEMMA RunsOnce ==
  ASSUME ExecutorInv, NEW x \in 1..issued, ran' = Append(ran, x),
         UNCHANGED <<answer, history>>,
         \A k \in 1..Len(ran) : ran[k] # x,
         route[x] = "hub" =>
           \A k \in 1..Len(ran) : route[ran[k]] = "hub" => ran[k] < x
  PROVE  /\ ran' \in Seq(Cmds) /\ Len(ran') = Len(ran) + 1
         /\ \A k \in 1..Len(ran) : ran'[k] = ran[k]
         /\ ran'[Len(ran) + 1] = x
         /\ \A k, l \in 1..Len(ran') : k < l =>
              /\ ran'[k] # ran'[l]
              /\ route[ran'[k]] = "hub" /\ route[ran'[l]] = "hub" => ran'[k] < ran'[l]
         /\ \A c : Contains(ran, c) => Contains(ran', c)
         /\ Contains(ran', x)
         /\ LateOnlyIfFailed'
<1>1. ran \in Seq(Cmds) /\ x \in Cmds
  BY DEF ExecutorAssumption, ExecutorInv, TypeOK, Cmds
<1>2. /\ ran' \in Seq(Cmds) /\ Len(ran') = Len(ran) + 1 /\ Len(ran) \in Nat
      /\ \A k \in 1..Len(ran) : ran'[k] = ran[k]
      /\ ran'[Len(ran) + 1] = x
  BY <1>1
<1>3. \A k \in 1..Len(ran') : k \in 1..Len(ran) \/ k = Len(ran) + 1
  BY <1>2
<1>4. \A k, l \in 1..Len(ran') : k < l => k \in 1..Len(ran)
  BY <1>2
<1>5. ASSUME NEW k \in 1..Len(ran'), NEW l \in 1..Len(ran'), k < l
      PROVE  /\ ran'[k] # ran'[l]
             /\ route[ran'[k]] = "hub" /\ route[ran'[l]] = "hub" => ran'[k] < ran'[l]
  <2>1. k \in 1..Len(ran) /\ ran'[k] = ran[k]
    BY <1>2, <1>4, <1>5
  <2>2. CASE l \in 1..Len(ran)
    BY <1>2, <1>5, <2>1, <2>2 DEF ExecutorInv, RanInv
  <2>3. CASE l = Len(ran) + 1
    BY <1>2, <2>1, <2>3
  <2> QED BY <1>3, <2>2, <2>3
<1>6. \A c : Contains(ran, c) => Contains(ran', c)
  BY <1>2 DEF Contains
<1>7. Contains(ran', x)
  BY <1>2 DEF Contains
<1>8. LateOnlyIfFailed'
  <2> SUFFICES ASSUME NEW d \in 1..issued, NEW c \in earlier[d], Overtaken(c, d)'
               PROVE  answer[c] = "error" /\ ~(route[c] = "hub" /\ route[d] = "hub")
    BY DEF LateOnlyIfFailed, history
  <2>1. PICK k \in 1..Len(ran'), l \in 1..Len(ran') : k < l /\ ran'[k] = d /\ ran'[l] = c
    BY <1>2 DEF Overtaken
  <2>2. k \in 1..Len(ran) /\ ran[k] = d
    BY <1>2, <1>4, <2>1
  <2>3. CASE l \in 1..Len(ran)
    <3>1. Overtaken(c, d)
      BY <1>1, <1>2, <2>1, <2>2, <2>3 DEF Overtaken
    <3> QED BY <3>1 DEF ExecutorInv, LateOnlyIfFailed
  <2>4. CASE l = Len(ran) + 1
    <3>1. c = x
      BY <1>2, <2>1, <2>4
    <3>2. c < d /\ answer[c] # "none" /\ c \in Nat /\ d \in Nat
      BY <3>1 DEF ExecutorInv, CallsInv, TypeOK
    <3>3. answer[c] # "ok"
      BY <1>1, <3>1 DEF ExecutorInv, RanInv, Contains
    <3>4. answer[c] = "error"
      BY <1>1, <3>1, <3>2, <3>3 DEF ExecutorInv, TypeOK, Router!Answers
    <3>5. ~(route[c] = "hub" /\ route[d] = "hub")
      BY <2>2, <3>1, <3>2
    <3> QED BY <3>4, <3>5
  <2> QED BY <1>3, <2>1, <2>3, <2>4
<1> QED BY <1>2, <1>5, <1>6, <1>7, <1>8

LEMMA AgentRuns == ExecutorInv /\ RunFromAgent => ExecutorInv'
<1> SUFFICES ASSUME ExecutorInv, RunFromAgent PROVE ExecutorInv'
  OBVIOUS
<1>1. PICK k \in 1..Len(sent) : Router!Run(k) /\ ran' = Append(ran, sent[k])
  BY DEF RunFromAgent
<1> DEFINE x == sent[k]
<1>2. /\ k > last /\ last' = k /\ done' = Append(done, x)
      /\ UNCHANGED <<sent, answer, connected, configured, op, flying, history>>
  BY <1>1 DEF Router!Run, RunFromAgent
<1>3. /\ x \in 1..issued /\ x \in Cmds /\ route[x] = "hub" /\ issued \in Nat
      /\ last \in 0..Len(sent) /\ done \in Seq(Cmds)
  BY DEF ExecutorAssumption, ExecutorInv, WaysInv, TypeOK, Cmds
<1>4. \A l \in 1..last : sent[l] < x
  <2> SUFFICES ASSUME NEW l \in 1..last PROVE sent[l] < sent[k]
    OBVIOUS
  <2>1. l \in 1..Len(sent) /\ l < k
    BY <1>2, <1>3
  <2> QED BY <2>1 DEF ExecutorInv, WaysInv
<1>5. \A l \in 1..Len(ran) : route[ran[l]] = "hub" => ran[l] < x
  BY <1>4 DEF ExecutorInv, RanInv
<1>6. \A l \in 1..Len(ran) : ran[l] # x
  BY <1>3, <1>5
<1> HIDE DEF x
<1>7. ran' = Append(ran, x)
  BY <1>1 DEF x
<1>8. /\ ran' \in Seq(Cmds) /\ Len(ran') = Len(ran) + 1 /\ Len(ran) \in Nat
      /\ \A l \in 1..Len(ran) : ran'[l] = ran[l]
      /\ ran'[Len(ran) + 1] = x
      /\ \A l, m \in 1..Len(ran') : l < m =>
           /\ ran'[l] # ran'[m]
           /\ route[ran'[l]] = "hub" /\ route[ran'[m]] = "hub" => ran'[l] < ran'[m]
      /\ \A c : Contains(ran, c) => Contains(ran', c)
      /\ Contains(ran', x)
      /\ LateOnlyIfFailed'
  <2>1. UNCHANGED <<answer, history>> /\ Len(ran) \in Nat
    BY <1>2 DEF ExecutorInv, TypeOK
  <2> QED BY <1>3, <1>5, <1>6, <1>7, <2>1, RunsOnce
<1>9. TypeOK'
  <2>1. done' \in Seq(Cmds) /\ last' \in 0..Len(sent')
    BY <1>2, <1>3
  <2> QED BY <1>2, <1>8, <2>1 DEF ExecutorInv, TypeOK, history
<1>10. CallsInv'
  BY <1>2 DEF ExecutorInv, CallsInv, history
<1>11. WaysInv'
  BY <1>2 DEF ExecutorInv, WaysInv, history
<1>12. RanInv'
  <2>1. ASSUME NEW l \in 1..Len(ran')
        PROVE  /\ ran'[l] \in 1..issued' /\ ran'[l] \notin flying'
               /\ route'[ran'[l]] = "hub" => \E m \in 1..last' : sent'[m] = ran'[l]
    <3>1. CASE l \in 1..Len(ran)
      <4>1. \A m \in 1..last : m \in 1..last'
        BY <1>2, <1>3
      <4> QED BY <1>2, <1>8, <3>1, <4>1 DEF ExecutorInv, RanInv, history
    <3>2. CASE l = Len(ran) + 1
      <4>1. x \notin flying
        BY <1>3 DEF ExecutorInv, WaysInv
      <4>2. k \in 1..last' /\ sent'[k] = x
        BY <1>2 DEF x
      <4> QED BY <1>2, <1>3, <1>8, <3>2, <4>1, <4>2 DEF history
    <3> QED BY <1>8, <3>1, <3>2
  <2>2. \A l \in 1..Len(done') : Contains(ran', done'[l])
    <3>1. \A l \in 1..Len(done') : l \in 1..Len(done) \/ l = Len(done) + 1
      BY <1>2, <1>3
    <3>2. /\ \A l \in 1..Len(done) : done'[l] = done[l]
          /\ done'[Len(done) + 1] = x
      BY <1>2, <1>3
    <3> QED BY <1>8, <3>1, <3>2 DEF ExecutorInv, RanInv
  <2>3. \A c \in Cmds : answer'[c] = "ok" => Contains(ran', c)
    BY <1>2, <1>8 DEF ExecutorInv, RanInv
  <2> QED BY <1>2, <1>8, <2>1, <2>2, <2>3 DEF RanInv, history
<1> QED BY <1>8, <1>9, <1>10, <1>11, <1>12 DEF ExecutorInv

LEMMA ClientRuns == ExecutorInv /\ RunFromClient => ExecutorInv'
<1> SUFFICES ASSUME ExecutorInv, RunFromClient PROVE ExecutorInv'
  OBVIOUS
<1>1. PICK x \in flying : flying' = flying \ {x} /\ (ran' = Append(ran, x) \/ UNCHANGED ran)
  BY DEF RunFromClient
<1>2. UNCHANGED <<connected, configured, op, sent, last, done, answer, history>>
  BY DEF RunFromClient, hub
<1>3. x \in 1..issued /\ route[x] = "direct"
  BY DEF ExecutorInv, WaysInv, TypeOK
<1>4. CallsInv' /\ WaysInv'
  BY <1>1, <1>2 DEF ExecutorInv, CallsInv, WaysInv, history
<1>5. CASE UNCHANGED ran
  BY <1>1, <1>2, <1>4, <1>5
     DEF ExecutorInv, TypeOK, RanInv, LateOnlyIfFailed, Overtaken, Contains, history
<1>6. CASE ran' = Append(ran, x)
  <2>1. \A l \in 1..Len(ran) : ran[l] # x
    BY DEF ExecutorInv, RanInv
  <2>2. /\ ran' \in Seq(Cmds) /\ Len(ran') = Len(ran) + 1 /\ Len(ran) \in Nat
        /\ \A l \in 1..Len(ran) : ran'[l] = ran[l]
        /\ ran'[Len(ran) + 1] = x
        /\ \A l, m \in 1..Len(ran') : l < m =>
             /\ ran'[l] # ran'[m]
             /\ route[ran'[l]] = "hub" /\ route[ran'[m]] = "hub" => ran'[l] < ran'[m]
        /\ \A c : Contains(ran, c) => Contains(ran', c)
        /\ LateOnlyIfFailed'
    BY <1>2, <1>3, <1>6, <2>1, RunsOnce DEF ExecutorInv, TypeOK
  <2>3. TypeOK'
    BY <1>1, <1>2, <2>2 DEF ExecutorInv, TypeOK, history
  <2>4. ASSUME NEW l \in 1..Len(ran')
        PROVE  /\ ran'[l] \in 1..issued /\ ran'[l] \notin flying'
               /\ route[ran'[l]] = "hub" => \E m \in 1..last : sent[m] = ran'[l]
    <3>1. CASE l \in 1..Len(ran)
      BY <1>1, <2>2, <3>1 DEF ExecutorInv, RanInv
    <3>2. CASE l = Len(ran) + 1
      BY <1>1, <1>3, <2>2, <3>2
    <3> QED BY <2>2, <3>1, <3>2
  <2>5. RanInv'
    BY <1>2, <2>2, <2>4 DEF ExecutorInv, RanInv, history
  <2> QED BY <1>4, <2>2, <2>3, <2>5 DEF ExecutorInv
<1> QED BY <1>1, <1>5, <1>6

-----------------------------------------------------------------------------

LEMMA ExecutorStep == ExecutorInv /\ [Next]_vars => ExecutorInv'
<1> SUFFICES ASSUME ExecutorInv, [Next]_vars PROVE ExecutorInv'
  OBVIOUS
<1>k. ASSUME op' \in [Handlers -> {Idle} \cup [pc : {"next", "wait"},
                                      via : {"hub", "direct"}, cmd : 0..MaxCmds]],
             \A h \in Handlers : op'[h].pc = "wait" => op'[h] = op[h],
             connected' \in BOOLEAN, configured' \in BOOLEAN,
             UNCHANGED <<hub, answer, flying, history, ran>>
      PROVE  ExecutorInv'
  BY <1>k DEF ExecutorInv, TypeOK, CallsInv, WaysInv, RanInv, LateOnlyIfFailed,
        Overtaken, Contains, hub, history
<1>1. ASSUME NEW h \in Handlers, GetMTExecutor(h) PROVE ExecutorInv'
  <2>1. PICK e \in {"hub", "direct"} : Take(h, e)
    BY <1>1 DEF GetMTExecutor
  <2>2. op'[h] = [pc |-> "next", via |-> e, cmd |-> 0]
        /\ \A g \in Handlers \ {h} : op'[g] = op[g]
    BY <1>1, <2>1 DEF GetMTExecutor, Take, ExecutorInv, TypeOK, Idle
  <2>3. 0 \in 0..MaxCmds
    BY DEF ExecutorAssumption, ExecutorInv
  <2>4. op' \in [Handlers -> {Idle} \cup [pc : {"next", "wait"},
                                          via : {"hub", "direct"}, cmd : 0..MaxCmds]]
    <3>1. op'[h] \in [pc : {"next", "wait"}, via : {"hub", "direct"}, cmd : 0..MaxCmds]
      BY <2>2, <2>3
    <3> QED BY <2>1, <2>2, <3>1 DEF Take, ExecutorInv, TypeOK
  <2>5. \A g \in Handlers : op'[g].pc = "wait" => op'[g] = op[g]
    BY <2>2
  <2> QED BY <1>1, <1>k, <2>4, <2>5 DEF GetMTExecutor, ExecutorInv, TypeOK
<1>2. ASSUME NEW h \in Handlers, Execute(h) PROVE ExecutorInv'
  <2>1. CASE Router!Send(issued + 1) /\ AwaitReply(h)
    BY <1>2, <2>1, IssueWrites DEF Execute, Router!Send
  <2>2. CASE Fail(issued + 1) /\ UNCHANGED <<op, hub>>
    BY <1>2, <2>2, IssueFails DEF Execute
  <2> QED BY <1>2, <2>1, <2>2 DEF Execute
<1>3. ASSUME NEW h \in Handlers, Connect(h) PROVE ExecutorInv'
  <2>1. CASE flying' = flying \cup {issued + 1} /\ AwaitReply(h) /\ UNCHANGED answer
    BY <1>3, <2>1, IssueWrites DEF Connect, hub
  <2>2. CASE Fail(issued + 1) /\ UNCHANGED <<op, flying>>
    BY <1>3, <2>2, IssueFails DEF Connect
  <2> QED BY <1>3, <2>1, <2>2 DEF Connect
<1>4. ASSUME NEW h \in Handlers, ExecuteReturns(h) PROVE ExecutorInv'
  <2>1. PICK a \in {"ok", "error"} :
          /\ a = "ok" => \E k \in 1..Len(done) : done[k] = op[h].cmd
          /\ answer' = [answer EXCEPT ![op[h].cmd] = a]
    BY <1>4 DEF ExecuteReturns, Router!Return
  <2>2. a = "ok" => Contains(ran, op[h].cmd)
    BY <2>1 DEF ExecutorInv, RanInv
  <2> QED BY <1>4, <2>1, <2>2, ReturnKeeps DEF ExecuteReturns, Router!Return, hub
<1>5. ASSUME NEW h \in Handlers, RunReturns(h) PROVE ExecutorInv'
  BY <1>5, ReturnKeeps DEF RunReturns, Fail
<1>6. ASSUME NEW h \in Handlers, Finish(h) PROVE ExecutorInv'
  BY <1>6, <1>k DEF Finish, Idle, ExecutorInv, TypeOK
<1>7. CASE AgentComesOrGoes
  BY <1>7, <1>k DEF AgentComesOrGoes, ExecutorInv, TypeOK
<1>8. CASE Configure
  BY <1>8, <1>k DEF Configure, ExecutorInv, TypeOK
<1>9. CASE UNCHANGED vars
  BY <1>9, <1>k DEF vars, ExecutorInv, TypeOK
<1> QED BY <1>1, <1>2, <1>3, <1>4, <1>5, <1>6, <1>7, <1>8, <1>9, AgentRuns, ClientRuns
        DEF Next

LEMMA AlwaysExecutor ==
  ASSUME ExecutorAssumption PROVE Spec => []ExecutorInv
<1>1. Init => ExecutorInv
  BY ExecutorInit
<1> QED
  BY <1>1, ExecutorStep, PTL DEF Spec

(***************************************************************************)
(* The operations under way, the commands on both ways and what was run    *)
(* are well typed.                                                         *)
(***************************************************************************)
THEOREM TypeCorrect ==
  ASSUME ExecutorAssumption PROVE Spec => []TypeOK
<1>1. ExecutorInv => TypeOK
  BY DEF ExecutorInv
<1> QED
  BY <1>1, AlwaysExecutor, PTL

LEMMA InvKeeps == ExecutorInv => CommandsAreKept
  BY DEF ExecutorInv, RanInv, CommandsAreKept, OnceAndTold, TypeOK

(***************************************************************************)
(* subscription_service.go 38-48, agent_hub.go 115-150, client.go: however *)
(* the executors change, a command is run after those that had returned    *)
(* before it was issued, unless these had failed and not both went through *)
(* the hub; none is run twice, and success is told only of what was run.   *)
(***************************************************************************)
THEOREM CommandsKept ==
  ASSUME ExecutorAssumption PROVE Spec => []CommandsAreKept
  BY InvKeeps, AlwaysExecutor, PTL

=============================================================================
