---------------------------- MODULE RouterCalls ----------------------------
(***************************************************************************)
(* What the rest of the backend may expect of commands it sends through    *)
(* the local agent: the router runs each command at most once and in the   *)
(* order they were sent, some never, some late; a call that succeeds is    *)
(* one whose command was run; a call that fails says nothing.              *)
(***************************************************************************)
EXTENDS Naturals, Sequences

CONSTANT Ids    (* the ids of commands *)

VARIABLES
  sent,      (* the commands sent, in their order                          *)
  last,      (* the position in sent of the last command that was run      *)
  done,      (* the commands that were run, in their order                 *)
  answer     (* what the call of each command returned                     *)

vars == <<sent, last, done, answer>>

Answers == {"none", "ok", "error"}

Init ==
  /\ sent = <<>>
  /\ last = 0
  /\ done = <<>>
  /\ answer = [i \in Ids |-> "none"]

Send(i) ==
  /\ \A k \in 1..Len(sent) : sent[k] # i
  /\ sent' = Append(sent, i)
  /\ UNCHANGED <<last, done, answer>>

Run(k) ==
  /\ k > last
  /\ last' = k
  /\ done' = Append(done, sent[k])
  /\ UNCHANGED <<sent, answer>>

Return(i) ==
  /\ answer[i] = "none"
  /\ \E a \in {"ok", "error"} :
       /\ a = "ok" => \E k \in 1..Len(done) : done[k] = i
       /\ answer' = [answer EXCEPT ![i] = a]
  /\ UNCHANGED <<sent, last, done>>

Next ==
  \/ \E i \in Ids : Send(i) \/ Return(i)
  \/ \E k \in 1..Len(sent) : Run(k)

Spec == Init /\ [][Next]_vars

=============================================================================
