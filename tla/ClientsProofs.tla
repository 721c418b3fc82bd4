--------------------------- MODULE ClientsProofs ---------------------------
(***************************************************************************)
(* What the pages and screens of Clients keep at every step, proved for    *)
(* every set of records, of texts and of bounds. The first half is about   *)
(* what they have in common: the invariant Inv, and one rule for each way  *)
(* a handler, a timer or an answer ends (nothing is sent, a list is, a     *)
(* write is, a list is shown, a request failed); the second half applies   *)
(* the rules to the handlers and answers of the pages with a list that the *)
(* back end alone changes. PagesProofs has the other components.           *)
(*                                                                         *)
(* Each component is an instance of its own, so that Page has fourteen     *)
(* copies of its operators: the lemma <component>Same says that a copy is  *)
(* the operator of Clients, and the rules are proved once.                 *)
(***************************************************************************)
EXTENDS Clients, SequenceTheorems, TLAPS

IsFcn(f) == f = [x \in DOMAIN f |-> f[x]]
IsSeq(s) == \E S : s \in Seq(S)

(* Where the k-th of the calls that remain was before call i was answered. *)
Skip(i, k) == IF k < i THEN k ELSE k + 1

(* One call behind the others. *)
LEMMA Appended ==
    ASSUME NEW s, IsSeq(s), NEW c
    PROVE  /\ IsSeq(s \o <<c>>)
           /\ Len(s) \in Nat /\ DOMAIN s = 1..Len(s)
           /\ Len(s \o <<c>>) = Len(s) + 1
           /\ DOMAIN (s \o <<c>>) = 1..(Len(s) + 1)
           /\ \A k \in 1..Len(s) : (s \o <<c>>)[k] = s[k]
           /\ (s \o <<c>>)[Len(s) + 1] = c
<1>1. PICK S : s \in Seq(S)
  BY DEF IsSeq
<1>2. s \in Seq(S \cup {c}) /\ <<c>> \in Seq(S \cup {c})
  BY <1>1
<1>3. s \o <<c>> \in Seq(S \cup {c})
  BY <1>2
<1>4. QED
  BY <1>2, <1>3 DEF IsSeq

(* None behind them. *)
LEMMA AppendedNone ==
    ASSUME NEW s, IsSeq(s)
    PROVE  s \o <<>> = s /\ Len(s) \in Nat /\ DOMAIN s = 1..Len(s) /\ Len(<<>>) = 0
<1>1. PICK S : s \in Seq(S)
  BY DEF IsSeq
<1>2. QED
  BY <1>1

(* The calls beside call i are the others in their order. *)
LEMMA Removed ==
    ASSUME IsSeq(net), NEW i \in DOMAIN net
    PROVE  /\ IsSeq(Others(i))
           /\ Len(net) \in Nat /\ DOMAIN net = 1..Len(net)
           /\ Len(Others(i)) = Len(net) - 1
           /\ DOMAIN Others(i) = 1..(Len(net) - 1)
           /\ \A k \in 1..(Len(net) - 1) : Others(i)[k] = net[Skip(i, k)]
<1>1. PICK S : net \in Seq(S)
  BY DEF IsSeq
<1>2. Len(net) \in Nat /\ DOMAIN net = 1..Len(net) /\ i \in 1..Len(net)
  BY <1>1
<1> DEFINE a == SubSeq(net, 1, i - 1)
           b == SubSeq(net, i + 1, Len(net))
<1>3. a \in Seq(S) /\ Len(a) = i - 1 /\ \A k \in 1..(i - 1) : a[k] = net[k]
  <2>1. \A k \in 1..(i - 1) : net[k] \in S
    BY <1>1, <1>2
  <2>2. 1 \in Int /\ i - 1 \in Int
    BY <1>2
  <2>3. QED
    BY <1>2, <2>1, <2>2, SubSeqProperties
<1>4. b \in Seq(S) /\ Len(b) = Len(net) - i /\ \A k \in 1..(Len(net) - i) : b[k] = net[i + k]
  <2>1. \A k \in (i + 1)..Len(net) : net[k] \in S
    BY <1>1, <1>2
  <2>2. i + 1 \in Int /\ Len(net) \in Int
    BY <1>2
  <2>3. /\ b \in Seq(S)
        /\ Len(b) = IF i + 1 <= Len(net) THEN Len(net) - (i + 1) + 1 ELSE 0
        /\ \A k \in 1..(Len(net) - (i + 1) + 1) : b[k] = net[i + 1 + k - 1]
    BY <2>1, <2>2, SubSeqProperties
  <2>4. QED
    BY <1>2, <2>3
<1> HIDE DEF a, b
<1>5. /\ a \o b \in Seq(S)
      /\ Len(a \o b) = Len(a) + Len(b)
      /\ \A k \in 1..(Len(a) + Len(b)) : (a \o b)[k] = IF k <= Len(a) THEN a[k] ELSE b[k - Len(a)]
  BY <1>3, <1>4, ConcatProperties
<1>6. ASSUME NEW k \in 1..(Len(net) - 1) PROVE (a \o b)[k] = net[Skip(i, k)]
  <2>1. CASE k < i
    BY <1>2, <1>3, <1>4, <1>5, <2>1 DEF Skip
  <2>2. CASE ~(k < i)
    <3>1. (a \o b)[k] = b[k - (i - 1)] /\ k - (i - 1) \in 1..(Len(net) - i)
      BY <1>2, <1>3, <1>4, <1>5, <2>2
    <3>2. b[k - (i - 1)] = net[i + (k - (i - 1))] /\ i + (k - (i - 1)) = k + 1
      BY <1>2, <1>4, <3>1
    <3>3. QED
      BY <1>2, <2>2, <3>1, <3>2 DEF Skip
  <2>3. QED
    BY <2>1, <2>2
<1>7. Others(i) = a \o b
  BY DEF Others, a, b
<1>8. Len(a \o b) = Len(net) - 1
  BY <1>2, <1>3, <1>4, <1>5
<1>9. DOMAIN (a \o b) = 1..(Len(net) - 1)
  BY <1>5, <1>8, LenProperties
<1>10. QED
  BY <1>2, <1>5, <1>6, <1>7, <1>8, <1>9 DEF IsSeq

(* What it is to be a flag of one of the calls. *)
LEMMA FlagsIn == ASSUME NEW s, NEW x PROVE x \in Flags(s) <=> \E k \in DOMAIN s : x \in s[k].flags
  BY DEF Flags, Range

-----------------------------------------------------------------------------
(* The flags that several calls may hold at a time; every other flag        *)
(* belongs to one call, from the click until the list that follows is read. *)
Common == {"loading", "historyLoading", "refreshing", "deleteCheckLoading", "geoLoading"}
Own(c) == c.flags \ Common

Fields == {"q", "list", "busy", "dlg", "timer", "stale", "acts"}
CallFields == {"op", "flags", "q", "item", "to", "status", "rows"}
Records(p) == [Item -> ValuesOf(p)]

IsState(s) == IsFcn(s) /\ Fields \subseteq DOMAIN s

(* The flags and the values that calls of the components carry.             *)
Carries(p, c) ==
    /\ p = "payments" /\ c.op = "decide" => "action" \in c.flags
    /\ p = "subscriptions" /\ c.op = "save" => "submitting" \in c.flags
    /\ p = "subscriptions" /\ c.op = "disconnect" => "disconnecting" \in c.flags
    /\ p = "plans" /\ c.op = "save" => "submitting" \in c.flags
    /\ p = "plans" /\ c.op = "check" => c.item \in Item
    /\ p = "plans" /\ c.op = "delete" =>
         c.item \in Item /\ c.rows \in Records(p) /\ c.to = "gone"
    /\ p = "mikrotik" /\ c.op = "delete" => "deletingSecret" \in c.flags
    /\ p = "messages" /\ c.op \in {"group", "template"} => "sending" \in c.flags
    /\ c.op \in {"test", "config", "reminders"} \/ (p = "messages" /\ c.op = "save") => c.to = None
    /\ p = "layout" /\ c.op = "notifications" => c.item \in Layout!Centers
    /\ p = "submit" /\ c.op = "submit" => c.rows \in {c.item, ""}
    /\ p \in {"client", "payment"} /\ c.op \notin Reads => "processing" \in c.flags
Plain == Reads \ {"techs", "check", "notifications"}

(* A call that component p sends, and the values it carries.                *)
IsCall(p, c) ==
    /\ IsFcn(c) /\ DOMAIN c = CallFields
    /\ c.status \in {"sent", "ok", "failed"}
    /\ c.to \in ValuesOf(p) \cup {None}
    /\ c.op \in Reads => c.to = None
    /\ c.op \notin Reads => c.flags \cap Common = {}
    /\ c.op \in Lists /\ c.status = "ok" => c.rows \in Records(p)
    /\ c.op = "techs" => p = "staff" /\ c.item \in Records(p)
    /\ c.op \in Payloads => p = "settings" /\ c.rows \in [Item -> ValuesOf(p) \cup {None}]
    /\ Carries(p, c)

Shape ==
    /\ page \in Components
    /\ IsState(st)
    /\ IsSeq(net) /\ Len(net) <= MaxCalls
    /\ \A i \in Calls : IsCall(page, net[i])
    /\ db \in Records(page)
    /\ st.acts \in 0..MaxActs[page] /\ st.stale \in BOOLEAN
    /\ st.list.rows = None \/ st.list.rows \in Records(page)

(* Every flag that is set is that of a call, and a call has its own ones.   *)
Flagged ==
    /\ st.busy \subseteq Flags(net)
    /\ \A i \in Calls : Own(net[i]) \subseteq st.busy
    /\ \A i, j \in Calls : i # j => Own(net[i]) \cap Own(net[j]) = {}

Listing(c) == c.op \in {"list", "techs"}
Changes(c) == c.to # None \/ c.op \in Payloads

(* The components in which no list follows a write.                         *)
Silent == {"messages", "submit"} \cup Mobile!Screens
(* Those whose handlers change the rows on the screen by themselves.        *)
OwnRows == {"plans", "settings"}

UpToDate ==
    page \notin OwnRows =>
        /\ \A i \in Calls : Changes(net[i]) /\ page \in Silent => st.stale
        /\ ~st.stale =>
             /\ \A i \in Calls : Listing(net[i]) => net[i].q = st.q
             /\ (\A i \in Calls : ~Changes(net[i])) =>
                  /\ \A i \in Calls : net[i].op = "techs" => net[i].item = db
                  /\ \A i \in Calls : Listing(net[i]) /\ net[i].status = "ok" => net[i].rows = db
                  /\ (\A i \in Calls : ~Listing(net[i])) => st.list = [q |-> st.q, rows |-> db]

(* What is searched for is what the box says, unless its timer runs.        *)
Searching == {"payments", "subscriptions", "customers", "staff"}
Searches(s) ==
    "typed" \in DOMAIN s /\ "search" \in DOMAIN s.q /\ (s.timer \/ s.q.search = s.typed)
Search == page \in Searching => Searches(st)

Inv == Shape /\ Flagged /\ UpToDate /\ Search

-----------------------------------------------------------------------------
(* What Sent, Send, Do and Answer come to for no call and for one call.     *)

(* Where nothing is sent the state stays. *)
LEMMA SentNone ==
    ASSUME NEW s, IsState(s), NEW before
    PROVE  Sent(s, before, <<>>) = s
<1>1. Flags(<<>>) = {}
  BY DEF Flags, Range
<1>2. {c \in Range(<<>>) : c.op = "list"} = {}
  BY DEF Range
<1>3. Sent(s, before, <<>>) = [[s EXCEPT !.stale = s.stale] EXCEPT !.busy = s.busy \cup {}]
  BY <1>1, <1>2 DEF Sent, IsState, Fields, IsFcn
<1>4. QED
  BY <1>3 DEF IsState, Fields, IsFcn

(* One call that is sent sets its flags, and a list makes the rows fresh or *)
(* not.                                                                     *)
LEMMA SentOne ==
    ASSUME NEW s, IsState(s), NEW before, NEW c
    PROVE  Sent(s, before, <<c>>) =
               [s EXCEPT !.stale = IF c.op = "list" THEN before # <<>> \/ c.q # s.q ELSE s.stale,
                         !.busy = s.busy \cup c.flags]
<1>1. Range(<<c>>) = {c}
  BY DEF Range
<1>2. Flags(<<c>>) = c.flags
  BY <1>1 DEF Flags
<1>3. CASE c.op = "list"
  <2>1. {d \in Range(<<c>>) : d.op = "list"} = {c}
    BY <1>1, <1>3
  <2>2. QED
    BY <1>2, <1>3, <2>1 DEF Sent
<1>4. CASE c.op # "list"
  <2>1. {d \in Range(<<c>>) : d.op = "list"} = {}
    BY <1>1, <1>4
  <2>2. QED
    BY <1>2, <1>4, <2>1 DEF Sent
<1>5. QED
  BY <1>3, <1>4

(* What a handler of the mounted component does to its state before the     *)
(* flags of the calls it sends are set: it clears at most common flags.     *)
Keeps(s) ==
    /\ IsFcn(s) /\ DOMAIN s = DOMAIN st
    /\ s.acts = st.acts
    /\ s.stale \in BOOLEAN /\ (st.stale => s.stale)
    /\ s.busy \subseteq st.busy /\ st.busy \ Common \subseteq s.busy
    /\ page \in Searching => Searches(s)

(* A handler that sends nothing, and one that sends call c. *)
Quiet(s) == Keeps(s) /\ s.q = st.q /\ s.list = st.list
Sends(s, c) ==
    /\ Keeps(s) /\ s.list = st.list
    /\ IsCall(page, c) /\ c.status = "sent" /\ c.op # "techs"
    /\ Own(c) \cap st.busy = {}
    /\ s.q = st.q \/ c.op = "list"
    /\ Changes(c) /\ page \in Silent => s.stale

(* Handlers and answers leave the rest of the state they set alone.         *)
History == {"acts", "stale", "busy"}
After(s) ==
    /\ page' = page /\ IsFcn(st') /\ DOMAIN st' = DOMAIN s
    /\ \A f \in DOMAIN s \ History : st'[f] = s[f]

(* Whatever is sent, the fields outside the history are those the handler   *)
(* set.                                                                     *)
LEMMA Afterwards ==
    ASSUME NEW s, IsFcn(s), NEW calls,
           Send(s, calls) \/ Do(s, calls) \/ \E i \in Calls : Answer(i, s, calls)
    PROVE  After(s)
<1>1. ASSUME NEW u, IsFcn(u), NEW before
      PROVE  /\ IsFcn(Sent(u, before, calls)) /\ DOMAIN Sent(u, before, calls) = DOMAIN u
             /\ \A f \in DOMAIN u \ History : Sent(u, before, calls)[f] = u[f]
  BY <1>1 DEF Sent, IsFcn, History
<1>2. CASE Send(s, calls)
  BY <1>1, <1>2 DEF Send, After
<1>3. CASE Do(s, calls)
  <2> DEFINE u == [s EXCEPT !.acts = @ + 1]
  <2>1. IsFcn(u) /\ DOMAIN u = DOMAIN s /\ \A f \in DOMAIN s \ History : u[f] = s[f]
    BY DEF IsFcn, History
  <2>2. st' = Sent(u, net, calls) /\ page' = page
    BY <1>3 DEF Do, Send
  <2> HIDE DEF u
  <2>3. QED
    BY <1>1, <2>1, <2>2 DEF After
<1>4. ASSUME NEW i \in Calls, Answer(i, s, calls) PROVE After(s)
  <2> DEFINE u == [s EXCEPT !.stale = @ \/ net[i].status = "failed", !.busy = @ \ net[i].flags]
  <2>1. IsFcn(u) /\ DOMAIN u = DOMAIN s /\ \A f \in DOMAIN s \ History : u[f] = s[f]
    BY DEF IsFcn, History
  <2>2. st' = Sent(u, Others(i), calls) /\ page' = page
    BY <1>4 DEF Answer
  <2> HIDE DEF u
  <2>3. QED
    BY <1>1, <2>1, <2>2 DEF After
<1>5. QED
  BY <1>2, <1>3, <1>4

(* The box and the search agree after a step if the handler left them so. *)
LEMMA SearchRule ==
    ASSUME Shape, NEW s, Keeps(s), After(s)
    PROVE  Search'
<1>1. Fields \subseteq DOMAIN s
  BY DEF Shape, IsState, Keeps
<1>2. "timer" \in DOMAIN s \ History /\ "q" \in DOMAIN s \ History
  BY <1>1 DEF Fields, History
<1>3. ASSUME page \in Searching PROVE Searches(st')
  <2>1. Searches(s)
    BY <1>3 DEF Keeps
  <2>2. "typed" \in DOMAIN s \ History
    BY <2>1 DEF Searches, History
  <2>3. DOMAIN st' = DOMAIN s /\ st'.timer = s.timer /\ st'.q = s.q /\ st'.typed = s.typed
    BY <1>2, <2>2 DEF After
  <2>4. QED
    BY <2>1, <2>3 DEF Searches
<1>4. QED
  BY <1>3 DEF Search, After

(* A timer that sends nothing, *)
LEMMA SendNone ==
    ASSUME Shape, NEW s, Keeps(s), Send(s, <<>>)
    PROVE  st' = s /\ net' = net /\ page' = page /\ db' = db
<1>1. IsState(s)
  BY DEF Keeps, Shape, IsState
<1>2. net \o <<>> = net
  BY AppendedNone DEF Shape
<1>3. QED
  BY <1>1, <1>2, SentNone DEF Send

(* a handler that sends nothing, *)
LEMMA DoNone ==
    ASSUME Shape, NEW s, Keeps(s), Do(s, <<>>)
    PROVE  /\ st' = [s EXCEPT !.acts = @ + 1] /\ net' = net /\ page' = page /\ db' = db
           /\ st.acts < MaxActs[page]
<1>1. IsState([s EXCEPT !.acts = @ + 1])
  BY DEF Keeps, Shape, IsState, IsFcn
<1>2. net \o <<>> = net
  BY AppendedNone DEF Shape
<1>3. Sent([s EXCEPT !.acts = @ + 1], net, <<>>) = [s EXCEPT !.acts = @ + 1]
  BY <1>1, SentNone
<1>4. QED
  BY <1>2, <1>3 DEF Do, Send

(* a timer that sends a call, *)
LEMMA SendOne ==
    ASSUME Shape, NEW s, Keeps(s), NEW c, Send(s, <<c>>)
    PROVE  /\ st' = [s EXCEPT !.stale = IF c.op = "list" THEN net # <<>> \/ c.q # s.q ELSE s.stale,
                              !.busy = s.busy \cup c.flags]
           /\ net' = net \o <<c>> /\ page' = page /\ db' = db
           /\ Len(net) + 1 <= MaxCalls
<1>1. IsState(s)
  BY DEF Keeps, Shape, IsState
<1>2. Len(<<c>>) = 1
  OBVIOUS
<1>3. st' = Sent(s, net, <<c>>) /\ net' = net \o <<c>> /\ page' = page /\ db' = db
  BY DEF Send
<1>4. Len(net) + 1 <= MaxCalls
  BY <1>2 DEF Send
<1>5. QED
  BY <1>1, <1>3, <1>4, SentOne

(* a handler that sends one, *)
LEMMA DoOne ==
    ASSUME Shape, NEW s, Keeps(s), NEW c, Do(s, <<c>>)
    PROVE  /\ st' = [s EXCEPT !.acts = @ + 1,
                              !.stale = IF c.op = "list" THEN net # <<>> \/ c.q # s.q ELSE s.stale,
                              !.busy = s.busy \cup c.flags]
           /\ net' = net \o <<c>> /\ page' = page /\ db' = db
           /\ Len(net) + 1 <= MaxCalls /\ st.acts < MaxActs[page]
<1> DEFINE u == [s EXCEPT !.acts = @ + 1]
<1>1. IsState(u)
  BY DEF Keeps, Shape, IsState, IsFcn
<1>2. Len(<<c>>) = 1
  OBVIOUS
<1>3. u.stale = s.stale /\ u.busy = s.busy /\ u.q = s.q
  BY DEF Keeps, Shape, IsState, Fields
<1>4. Send(u, <<c>>) /\ st.acts < MaxActs[page]
  BY DEF Do
<1> DEFINE b == IF c.op = "list" THEN net # <<>> \/ c.q # s.q ELSE s.stale
           f == s.busy \cup c.flags
<1>5. (IF c.op = "list" THEN net # <<>> \/ c.q # u.q ELSE u.stale) = b /\ u.busy \cup c.flags = f
  BY <1>3
<1> HIDE DEF u
<1>6. st' = Sent(u, net, <<c>>) /\ net' = net \o <<c>> /\ page' = page /\ db' = db
  BY <1>4 DEF Send
<1>7. Len(net) + 1 <= MaxCalls
  BY <1>2, <1>4 DEF Send
<1>8. st' = [u EXCEPT !.stale = IF c.op = "list" THEN net # <<>> \/ c.q # u.q ELSE u.stale,
                      !.busy = u.busy \cup c.flags]
  BY <1>1, <1>6, SentOne
<1> HIDE DEF b, f
<1>9. st' = [u EXCEPT !.stale = b, !.busy = f]
  BY <1>5, <1>8
<1>10. st' = [s EXCEPT !.acts = @ + 1, !.stale = b, !.busy = f]
  BY <1>9 DEF u
<1>11. QED
  BY <1>4, <1>6, <1>7, <1>10 DEF b, f

(* an answer after which nothing is sent, *)
LEMMA AnswerNone ==
    ASSUME Shape, NEW i \in Calls, NEW s, Keeps(s), Answer(i, s, <<>>)
    PROVE  /\ st' = [s EXCEPT !.stale = @ \/ net[i].status = "failed", !.busy = @ \ net[i].flags]
           /\ net' = Others(i) /\ page' = page /\ db' = db
<1> DEFINE u == [s EXCEPT !.stale = @ \/ net[i].status = "failed", !.busy = @ \ net[i].flags]
<1>1. IsState(u)
  BY DEF Keeps, Shape, IsState, IsFcn
<1>2. Others(i) \o <<>> = Others(i)
  BY AppendedNone, Removed DEF Shape
<1>3. Sent(u, Others(i), <<>>) = u
  BY <1>1, SentNone
<1>4. QED
  BY <1>2, <1>3 DEF Answer

(* and one after which a call is. *)
LEMMA AnswerOne ==
    ASSUME Shape, NEW i \in Calls, NEW s, Keeps(s), NEW c, Answer(i, s, <<c>>)
    PROVE  /\ st' = [s EXCEPT !.stale = IF c.op = "list" THEN Others(i) # <<>> \/ c.q # s.q
                                        ELSE s.stale \/ net[i].status = "failed",
                              !.busy = (s.busy \ net[i].flags) \cup c.flags]
           /\ net' = Others(i) \o <<c>> /\ page' = page /\ db' = db
<1> DEFINE u == [s EXCEPT !.stale = @ \/ net[i].status = "failed", !.busy = @ \ net[i].flags]
<1>1. IsState(u)
  BY DEF Keeps, Shape, IsState, IsFcn
<1>2. u.stale = (s.stale \/ net[i].status = "failed") /\ u.busy = s.busy \ net[i].flags /\ u.q = s.q
  BY DEF Keeps, Shape, IsState, Fields
<1>3. st' = Sent(u, Others(i), <<c>>) /\ net' = Others(i) \o <<c>> /\ page' = page /\ db' = db
  BY DEF Answer
<1> DEFINE b == IF c.op = "list" THEN Others(i) # <<>> \/ c.q # s.q
                                 ELSE s.stale \/ net[i].status = "failed"
           f == (s.busy \ net[i].flags) \cup c.flags
<1>4. (IF c.op = "list" THEN Others(i) # <<>> \/ c.q # u.q ELSE u.stale) = b /\ u.busy \cup c.flags = f
  BY <1>2
<1> HIDE DEF u
<1>5. st' = [u EXCEPT !.stale = IF c.op = "list" THEN Others(i) # <<>> \/ c.q # u.q ELSE u.stale,
                      !.busy = u.busy \cup c.flags]
  BY <1>1, <1>3, SentOne
<1> HIDE DEF b, f
<1>6. st' = [u EXCEPT !.stale = b, !.busy = f]
  BY <1>4, <1>5
<1>7. st' = [s EXCEPT !.stale = b, !.busy = f]
  BY <1>6, <1>1 DEF u, IsState, IsFcn
<1>8. QED
  BY <1>3, <1>7 DEF b, f

-----------------------------------------------------------------------------
(* The kinds of step keep the invariant. *)

(* A step that leaves the calls, the query and the list alone. *)
LEMMA SameCalls ==
    ASSUME Inv, page' = page, db' = db, net' = net, IsState(st'),
           st'.acts \in 0..MaxActs[page], st'.stale \in BOOLEAN, st.stale => st'.stale,
           st'.busy \subseteq st.busy, st.busy \ Common \subseteq st'.busy,
           st'.q = st.q, st'.list = st.list
    PROVE  Shape' /\ Flagged' /\ UpToDate'
<1>1. Shape'
  BY DEF Inv, Shape, Calls
<1>2. Flagged'
  <2>1. st'.busy \subseteq Flags(net)
    BY DEF Inv, Flagged
  <2>2. \A i \in Calls : Own(net[i]) \subseteq st'.busy
    BY DEF Inv, Flagged, Own
  <2>3. QED
    BY <2>1, <2>2 DEF Inv, Flagged, Calls
<1>3. UpToDate'
  BY DEF Inv, UpToDate, Calls
<1>4. QED
  BY <1>1, <1>2, <1>3

(* A user who may act once more stays within the bound. *)
LEMMA OneMoreAct ==
    ASSUME Shape, st.acts < MaxActs[page]
    PROVE  st.acts + 1 \in 0..MaxActs[page]
<1>1. page \in DOMAIN MaxActs
  BY ClientsAssumption DEF Shape
<1>2. MaxActs[page] \in Nat
  BY <1>1, PageAssumption
<1>3. QED
  BY <1>2 DEF Shape

(* A handler that sends nothing keeps the invariant. *)
LEMMA QuietRule ==
    ASSUME Inv, NEW s, Quiet(s), Send(s, <<>>) \/ Do(s, <<>>)
    PROVE  Inv'
<1>1. Shape /\ Keeps(s) /\ s.q = st.q /\ s.list = st.list
  BY DEF Inv, Quiet
<1> DEFINE Rest == Shape' /\ Flagged' /\ UpToDate'
<1>2. ASSUME Send(s, <<>>) PROVE Rest
  <2>1. st' = s /\ net' = net /\ page' = page /\ db' = db
    BY <1>1, <1>2, SendNone
  <2>2. /\ IsState(st') /\ st'.acts \in 0..MaxActs[page]
        /\ st'.stale \in BOOLEAN /\ (st.stale => st'.stale)
        /\ st'.busy \subseteq st.busy /\ st.busy \ Common \subseteq st'.busy
        /\ st'.q = st.q /\ st'.list = st.list
    BY <1>1, <2>1 DEF Keeps, Shape, IsState
  <2>3. QED
    BY <2>1, <2>2, SameCalls
<1>3. ASSUME Do(s, <<>>) PROVE Rest
  <2>1. /\ st' = [s EXCEPT !.acts = @ + 1] /\ net' = net /\ page' = page /\ db' = db
        /\ st.acts < MaxActs[page]
    BY <1>1, <1>3, DoNone
  <2>2. IsState(st') /\ st'.acts = st.acts + 1 /\ st'.stale = s.stale /\ st'.busy = s.busy
        /\ st'.q = st.q /\ st'.list = st.list
    BY <1>1, <2>1 DEF Keeps, Shape, IsState, IsFcn, Fields
  <2>3. st'.acts \in 0..MaxActs[page]
    BY <1>1, <2>1, <2>2, OneMoreAct
  <2>4. QED
    BY <1>1, <2>1, <2>2, <2>3, SameCalls DEF Keeps
<1>4. Search'
  <2>1. IsFcn(s)
    BY <1>1 DEF Keeps
  <2>2. After(s)
    BY <2>1, Afterwards
  <2>3. QED
    BY <1>1, <2>2, SearchRule
<1>5. QED
  BY <1>2, <1>3, <1>4 DEF Inv

(* One more call in flight. *)
LEMMA SendsRule ==
    ASSUME Inv, NEW s, NEW c, Sends(s, c), Send(s, <<c>>) \/ Do(s, <<c>>)
    PROVE  Inv'
<1>1. Shape /\ Keeps(s)
  BY DEF Inv, Sends
<1> DEFINE b == IF c.op = "list" THEN net # <<>> \/ c.q # s.q ELSE s.stale
<1>2. /\ IsState(st') /\ st'.acts \in 0..MaxActs[page] /\ st'.stale = b
      /\ st'.busy = s.busy \cup c.flags /\ st'.q = s.q /\ st'.list = st.list
      /\ net' = net \o <<c>> /\ page' = page /\ db' = db /\ Len(net) + 1 <= MaxCalls
  <2>1. CASE Send(s, <<c>>)
    <3>1. /\ st' = [s EXCEPT !.stale = b, !.busy = s.busy \cup c.flags]
          /\ net' = net \o <<c>> /\ page' = page /\ db' = db /\ Len(net) + 1 <= MaxCalls
      BY <1>1, <2>1, SendOne
    <3> HIDE DEF b
    <3>2. QED
      BY <1>1, <3>1 DEF Keeps, Sends, Shape, IsState, IsFcn, Fields
  <2>2. CASE Do(s, <<c>>)
    <3>1. /\ st' = [s EXCEPT !.acts = @ + 1, !.stale = b, !.busy = s.busy \cup c.flags]
          /\ net' = net \o <<c>> /\ page' = page /\ db' = db /\ Len(net) + 1 <= MaxCalls
          /\ st.acts < MaxActs[page]
      BY <1>1, <2>2, DoOne
    <3> HIDE DEF b
    <3>2. IsState(st') /\ st'.stale = b /\ st'.busy = s.busy \cup c.flags /\ st'.q = s.q
          /\ st'.list = st.list /\ st'.acts = st.acts + 1
      BY <1>1, <3>1 DEF Keeps, Sends, Shape, IsState, IsFcn, Fields
    <3>3. st'.acts \in 0..MaxActs[page]
      BY <1>1, <3>1, <3>2, OneMoreAct
    <3>4. QED
      BY <3>1, <3>2, <3>3
  <2>3. QED
    BY <2>1, <2>2
<1>3. b \in BOOLEAN
  BY DEF Sends, Keeps
<1>4. /\ IsSeq(net') /\ Len(net) \in Nat /\ Calls = 1..Len(net)
      /\ Len(net') = Len(net) + 1 /\ Calls' = 1..(Len(net) + 1)
      /\ \A k \in 1..Len(net) : net'[k] = net[k]
      /\ net'[Len(net) + 1] = c
  BY <1>1, <1>2, Appended DEF Shape, Calls
<1> HIDE DEF b
<1>5. ASSUME NEW k \in Calls'
      PROVE  \/ k \in Calls /\ net'[k] = net[k]
             \/ k = Len(net) + 1 /\ net'[k] = c
  <2>1. k \in 1..(Len(net) + 1)
    BY <1>4
  <2>2. k \in 1..Len(net) \/ k = Len(net) + 1
    BY <1>4, <2>1
  <2>3. QED
    BY <1>4, <2>2
<1>6. Shape'
  <2>1. \A k \in Calls' : IsCall(page, net'[k])
    BY <1>1, <1>5 DEF Shape, Sends
  <2>2. Len(net') <= MaxCalls
    BY <1>2, <1>4
  <2>3. QED
    BY <1>1, <1>2, <1>3, <1>4, <2>1, <2>2 DEF Shape
<1>7. Flagged'
  <2>1. \A x \in st'.busy : x \in Flags(net')
    <3>1. \A x \in c.flags : x \in Flags(net')
      BY <1>4, FlagsIn DEF Calls
    <3>2. \A x \in st.busy : x \in Flags(net')
      <4>1. \A x \in st.busy : \E k \in DOMAIN net : x \in net[k].flags
        BY FlagsIn DEF Inv, Flagged
      <4>2. QED
        BY <1>4, <4>1, FlagsIn DEF Calls
    <3>3. QED
      BY <1>1, <1>2, <3>1, <3>2 DEF Keeps
  <2>2. \A k \in Calls' : Own(net'[k]) \subseteq st'.busy
    <3>1. \A k \in Calls : Own(net[k]) \subseteq s.busy
      BY <1>1 DEF Inv, Flagged, Own, Keeps
    <3>2. QED
      BY <1>2, <1>5, <3>1 DEF Own
  <2>3. ASSUME NEW j \in Calls', NEW k \in Calls', j # k
        PROVE  Own(net'[j]) \cap Own(net'[k]) = {}
    <3>1. \A m \in Calls : Own(net[m]) \cap Own(c) = {}
      BY DEF Inv, Flagged, Sends
    <3>2. QED
      BY <1>5, <2>3, <3>1 DEF Inv, Flagged
  <2>4. QED
    BY <2>1, <2>2, <2>3 DEF Flagged, Calls
<1>8. UpToDate'
  <2>1. c.op = "list" => ~Changes(c)
    BY DEF Sends, IsCall, Changes, Reads, Lists, Payloads
  <2>2. net # <<>> \/ Calls = {}
    BY <1>4
  <2>3. ASSUME page \notin OwnRows, NEW k \in Calls', Changes(net'[k]), page \in Silent PROVE st'.stale
    <3>1. CASE k \in Calls /\ net'[k] = net[k]
      <4>1. st.stale
        BY <2>3, <3>1 DEF Inv, UpToDate
      <4>2. net # <<>>
        BY <1>4, <3>1
      <4>3. QED
        BY <1>1, <1>2, <4>1, <4>2 DEF b, Keeps
    <3>2. CASE net'[k] = c
      BY <1>2, <2>1, <2>3, <3>2 DEF b, Sends
    <3>3. QED
      BY <1>5, <3>1, <3>2
  <2>4. ASSUME page \notin OwnRows, ~st'.stale, c.op = "list"
        PROVE  /\ \A k \in Calls' : Listing(net'[k]) => net'[k].q = st'.q
               /\ \A k \in Calls' : net'[k].op # "techs" /\ net'[k].status # "ok"
               /\ \E k \in Calls' : Listing(net'[k])
    <3>1. net = <<>> /\ c.q = s.q
      BY <1>2, <2>4 DEF b
    <3>2. Calls' = {1} /\ net'[1] = c
      BY <1>4, <3>1
    <3>3. QED
      BY <1>2, <2>4, <3>1, <3>2 DEF Listing, Sends
  <2>5. ASSUME page \notin OwnRows, ~st'.stale, c.op # "list"
        PROVE  /\ ~st.stale /\ ~Listing(c) /\ st'.q = st.q
               /\ \A k \in Calls : Listing(net[k]) => net[k].q = st.q
    BY <1>1, <1>2, <2>5 DEF b, Sends, Keeps, Listing, Inv, UpToDate
  <2>6. ASSUME page \notin OwnRows, ~st'.stale, c.op # "list",
               \A k \in Calls' : ~Changes(net'[k])
        PROVE  /\ \A k \in Calls' : net'[k].op = "techs" => net'[k].item = db
               /\ \A k \in Calls' : Listing(net'[k]) /\ net'[k].status = "ok" => net'[k].rows = db
               /\ (\A k \in Calls' : ~Listing(net'[k])) => st'.list = [q |-> st'.q, rows |-> db]
    <3>1. \A k \in Calls : k \in Calls' /\ net'[k] = net[k]
      BY <1>4
    <3>2. /\ \A k \in Calls : net[k].op = "techs" => net[k].item = db
          /\ \A k \in Calls : Listing(net[k]) /\ net[k].status = "ok" => net[k].rows = db
          /\ (\A k \in Calls : ~Listing(net[k])) => st.list = [q |-> st.q, rows |-> db]
      BY <2>5, <2>6, <3>1 DEF Inv, UpToDate
    <3>3. QED
      BY <1>2, <1>5, <2>5, <2>6, <3>1, <3>2 DEF Sends, Listing
  <2>7. ASSUME page \notin OwnRows, ~st'.stale, NEW k \in Calls', Listing(net'[k])
        PROVE  net'[k].q = st'.q
    <3>1. CASE c.op = "list"
      BY <2>4, <2>7, <3>1
    <3>2. CASE c.op # "list"
      BY <1>5, <2>5, <2>7, <3>2
    <3>3. QED
      BY <3>1, <3>2
  <2>8. ASSUME page \notin OwnRows, ~st'.stale, \A k \in Calls' : ~Changes(net'[k])
        PROVE  /\ \A k \in Calls' : net'[k].op = "techs" => net'[k].item = db'
               /\ \A k \in Calls' : Listing(net'[k]) /\ net'[k].status = "ok" => net'[k].rows = db'
               /\ (\A k \in Calls' : ~Listing(net'[k])) => st'.list = [q |-> st'.q, rows |-> db']
    <3>1. CASE c.op = "list"
      BY <2>4, <2>8, <3>1
    <3>2. CASE c.op # "list"
      BY <1>2, <2>6, <2>8, <3>2
    <3>3. QED
      BY <3>1, <3>2
  <2>9. QED
    BY <1>2, <2>3, <2>7, <2>8 DEF UpToDate, Calls
<1>9. Search'
  <2>1. IsFcn(s)
    BY <1>1 DEF Keeps
  <2>2. After(s)
    BY <2>1, Afterwards
  <2>3. QED
    BY <1>1, <2>2, SearchRule
<1>10. QED
  BY <1>6, <1>7, <1>8, <1>9 DEF Inv

(* Each call that remains was one of the others, and all of them remain.    *)
LEMMA Remaining ==
    ASSUME IsSeq(net), NEW i \in Calls
    PROVE  /\ \A k \in DOMAIN Others(i) : Skip(i, k) \in Calls \ {i} /\ Others(i)[k] = net[Skip(i, k)]
           /\ \A k, l \in DOMAIN Others(i) : k # l => Skip(i, k) # Skip(i, l)
           /\ \A j \in Calls \ {i} : \E k \in DOMAIN Others(i) : Others(i)[k] = net[j]
           /\ Others(i) # <<>> \/ Calls = {i}
<1>1. /\ Len(net) \in Nat /\ Calls = 1..Len(net)
      /\ DOMAIN Others(i) = 1..(Len(net) - 1)
      /\ \A k \in 1..(Len(net) - 1) : Others(i)[k] = net[Skip(i, k)]
  BY Removed DEF Calls
<1>2. i \in 1..Len(net)
  BY <1>1
<1>3. ASSUME NEW k \in 1..(Len(net) - 1) PROVE Skip(i, k) \in Calls \ {i}
  BY <1>1, <1>2 DEF Skip
<1>4. ASSUME NEW k \in 1..(Len(net) - 1), NEW l \in 1..(Len(net) - 1), k # l
      PROVE  Skip(i, k) # Skip(i, l)
  BY <1>2, <1>4 DEF Skip
<1>5. ASSUME NEW j \in Calls \ {i} PROVE \E k \in 1..(Len(net) - 1) : Skip(i, k) = j
  <2>1. CASE j < i
    <3>1. j \in 1..(Len(net) - 1) /\ Skip(i, j) = j
      BY <1>1, <1>2, <2>1 DEF Skip
    <3>2. QED
      BY <3>1
  <2>2. CASE ~(j < i)
    <3>1. j - 1 \in 1..(Len(net) - 1) /\ ~(j - 1 < i) /\ (j - 1) + 1 = j
      BY <1>1, <1>2, <1>5, <2>2
    <3>2. QED
      BY <3>1 DEF Skip
  <2>3. QED
    BY <2>1, <2>2
<1>6. Others(i) # <<>> \/ Calls = {i}
  <2>1. CASE Others(i) = <<>>
    <3>1. DOMAIN Others(i) = {}
      BY <2>1
    <3>2. Len(Others(i)) = 0 /\ Len(Others(i)) = Len(net) - 1
      BY <2>1, Removed DEF Calls
    <3>2a. Len(net) = 1
      BY <1>1, <3>2
    <3>3. 1..1 = {1}
      OBVIOUS
    <3>4. QED
      BY <1>1, <1>2, <3>2a, <3>3
  <2>2. QED
    BY <2>1
<1>7. QED
  BY <1>1, <1>3, <1>4, <1>5, <1>6

(* The same with one more call behind them. *)
LEMMA Replaced ==
    ASSUME IsSeq(net), NEW i \in Calls, NEW c, net' = Others(i) \o <<c>>
    PROVE  /\ IsSeq(net') /\ Len(net) \in Nat /\ Len(net') = Len(net)
           /\ Calls = 1..Len(net) /\ Calls' = 1..Len(net)
           /\ \A k \in 1..(Len(net) - 1) :
                Skip(i, k) \in Calls \ {i} /\ net'[k] = net[Skip(i, k)]
           /\ \A k, l \in 1..(Len(net) - 1) : k # l => Skip(i, k) # Skip(i, l)
           /\ \A j \in Calls \ {i} : \E k \in 1..(Len(net) - 1) : net'[k] = net[j]
           /\ net'[Len(net)] = c
           /\ Others(i) # <<>> \/ Calls = {i}
<1> DEFINE o == Others(i)
           n == net'
<1>1. /\ IsSeq(o) /\ Len(net) \in Nat /\ Calls = 1..Len(net)
      /\ Len(o) = Len(net) - 1 /\ DOMAIN o = 1..(Len(net) - 1)
  BY Removed DEF Calls
<1>2. /\ \A k \in DOMAIN o : Skip(i, k) \in Calls \ {i} /\ o[k] = net[Skip(i, k)]
      /\ \A k, l \in DOMAIN o : k # l => Skip(i, k) # Skip(i, l)
      /\ \A j \in Calls \ {i} : \E k \in DOMAIN o : o[k] = net[j]
      /\ o # <<>> \/ Calls = {i}
  BY Remaining
<1>3. n = o \o <<c>> /\ Calls' = DOMAIN n
  BY DEF Calls
<1> HIDE DEF o, n
<1>4. IsSeq(o)
  BY <1>1
<1>5. /\ IsSeq(n) /\ Len(n) = Len(o) + 1
      /\ DOMAIN n = 1..(Len(o) + 1)
      /\ \A k \in 1..Len(o) : n[k] = o[k]
      /\ n[Len(o) + 1] = c
  <2>1. /\ IsSeq(o \o <<c>>) /\ Len(o \o <<c>>) = Len(o) + 1
        /\ DOMAIN (o \o <<c>>) = 1..(Len(o) + 1)
        /\ \A k \in 1..Len(o) : (o \o <<c>>)[k] = o[k]
        /\ (o \o <<c>>)[Len(o) + 1] = c
    BY <1>4, Appended
  <2>2. QED
    BY <1>3, <2>1
<1>6. Len(o) + 1 = Len(net)
  BY <1>1
<1>7. \A j \in Calls \ {i} : \E k \in 1..(Len(net) - 1) : n[k] = net[j]
  BY <1>1, <1>2, <1>5
<1>8. o # <<>> \/ Calls = {i}
  BY <1>2
<1>9. /\ IsSeq(n) /\ Len(net) \in Nat /\ Len(n) = Len(net)
      /\ Calls = 1..Len(net) /\ Calls' = 1..Len(net)
      /\ \A k \in 1..(Len(net) - 1) : Skip(i, k) \in Calls \ {i} /\ n[k] = net[Skip(i, k)]
      /\ \A k, l \in 1..(Len(net) - 1) : k # l => Skip(i, k) # Skip(i, l)
      /\ n[Len(net)] = c
  BY <1>1, <1>2, <1>3, <1>5, <1>6
<1>10. QED
  BY <1>7, <1>8, <1>9 DEF o, n

(* What follows the await of call i sends nothing more: the rows on the     *)
(* screen are as before, or those of the call.                              *)
Ends(i, s) ==
    /\ Keeps(s) /\ s.q = st.q
    /\ s.list.rows = None \/ s.list.rows \in Records(page)
    /\ page \notin OwnRows /\ ~s.stale /\ net[i].status = "ok" =>
         \/ ~Listing(net[i]) /\ ~Changes(net[i]) /\ s.list = st.list
         \/ Changes(net[i]) /\ page \in Silent
         \/ net[i].op = "list" /\ s.list = [q |-> net[i].q, rows |-> net[i].rows]
         \/ /\ net[i].op = "techs"
            /\ s.list = [q |-> net[i].q, rows |-> Staff!Combined(net[i].item, net[i].rows)]

(* Two lists of the same rows combine to these rows. *)
LEMMA CombinedSame ==
    ASSUME page = "staff", NEW rows \in Records(page) PROVE Staff!Combined(rows, rows) = rows
<1>1. rows \in [Item -> {"admin", "technician", "gone"}]
  BY DEF Records, ValuesOf, Staff!Values, Staff!Roles
<1>2. QED
  BY <1>1 DEF Staff!Combined

(* An answer after which nothing is sent keeps the invariant. *)
LEMMA EndsRule ==
    ASSUME Inv, NEW i \in Calls, net[i].status # "sent", NEW s, Ends(i, s), Answer(i, s, <<>>)
    PROVE  Inv'
<1>1. Shape /\ Keeps(s)
  BY DEF Inv, Ends
<1> DEFINE b == s.stale \/ net[i].status = "failed"
<1>2. /\ st' = [s EXCEPT !.stale = b, !.busy = s.busy \ net[i].flags]
      /\ net' = Others(i) /\ page' = page /\ db' = db
  <2>1. /\ st' = [s EXCEPT !.stale = @ \/ net[i].status = "failed", !.busy = @ \ net[i].flags]
        /\ net' = Others(i) /\ page' = page /\ db' = db
    BY <1>1, AnswerNone
  <2>2. QED
    BY <2>1
<1>3. b \in BOOLEAN
  OBVIOUS
<1>4. b = (s.stale \/ net[i].status = "failed")
  OBVIOUS
<1> HIDE DEF b
<1>5. /\ IsState(st') /\ st'.stale = b /\ st'.busy = s.busy \ net[i].flags /\ st'.q = st.q
      /\ st'.list = s.list /\ st'.acts = st.acts
  BY <1>1, <1>2 DEF Keeps, Ends, Shape, IsState, IsFcn, Fields
<1>6. /\ IsSeq(net') /\ Len(net') <= MaxCalls
      /\ \A k \in Calls' : Skip(i, k) \in Calls \ {i} /\ net'[k] = net[Skip(i, k)]
      /\ \A k, l \in Calls' : k # l => Skip(i, k) # Skip(i, l)
      /\ \A j \in Calls \ {i} : \E k \in Calls' : net'[k] = net[j]
  <2>1. IsSeq(net) /\ Len(net) <= MaxCalls /\ i \in DOMAIN net
    BY <1>1 DEF Shape, Calls
  <2>2. MaxCalls \in Nat
    BY PageAssumption
  <2>3. IsSeq(Others(i)) /\ Len(net) \in Nat /\ Len(Others(i)) = Len(net) - 1
    BY <2>1, Removed
  <2>4. Len(net') <= MaxCalls
    BY <1>2, <2>1, <2>2, <2>3
  <2>5. QED
    BY <1>2, <2>1, <2>3, <2>4, Remaining DEF Calls
<1>7. Shape'
  <2>1. \A k \in Calls' : IsCall(page, net'[k])
    BY <1>1, <1>6 DEF Shape
  <2>2. st'.list.rows = None \/ st'.list.rows \in Records(page)
    BY <1>5 DEF Ends
  <2>3. QED
    BY <1>1, <1>2, <1>3, <1>5, <1>6, <2>1, <2>2 DEF Shape
<1>8. Flagged'
  <2>1. ASSUME NEW x \in st'.busy PROVE x \in Flags(net')
    <3>1. x \in st.busy /\ x \notin net[i].flags
      BY <1>1, <1>5, <2>1 DEF Keeps
    <3>2. PICK j \in Calls : x \in net[j].flags
      BY <3>1, FlagsIn DEF Inv, Flagged, Calls
    <3>3. PICK k \in Calls' : net'[k] = net[j]
      BY <1>6, <3>1, <3>2
    <3>4. QED
      BY <3>2, <3>3, FlagsIn DEF Calls
  <2>2. ASSUME NEW k \in Calls' PROVE Own(net'[k]) \subseteq st'.busy
    <3>1. Skip(i, k) \in Calls /\ Skip(i, k) # i /\ net'[k] = net[Skip(i, k)]
      BY <1>6
    <3>2. Own(net[Skip(i, k)]) \subseteq st.busy /\ Own(net[Skip(i, k)]) \cap Own(net[i]) = {}
      BY <3>1 DEF Inv, Flagged
    <3>3. QED
      BY <1>1, <1>5, <3>1, <3>2 DEF Own, Keeps
  <2>3. ASSUME NEW j \in Calls', NEW k \in Calls', j # k
        PROVE  Own(net'[j]) \cap Own(net'[k]) = {}
    BY <1>6, <2>3 DEF Inv, Flagged
  <2>4. QED
    BY <2>1, <2>2, <2>3 DEF Flagged, Calls
<1>9. UpToDate'
  <2>1. ASSUME page \notin OwnRows, NEW k \in Calls', Changes(net'[k]), page \in Silent PROVE st'.stale
    <3>1. st.stale
      BY <1>6, <2>1 DEF Inv, UpToDate
    <3>2. QED
      BY <1>1, <1>4, <1>5, <3>1 DEF Keeps
  <2>2. ASSUME page \notin OwnRows, ~st'.stale
        PROVE  /\ ~st.stale /\ ~s.stale /\ net[i].status = "ok"
               /\ Changes(net[i]) => page \notin Silent
    <3>1. ~st.stale /\ ~s.stale /\ net[i].status # "failed"
      BY <1>1, <1>4, <1>5, <2>2 DEF Keeps
    <3>2. net[i].status = "ok"
      BY <1>1, <3>1 DEF Shape, IsCall
    <3>3. QED
      BY <2>2, <3>1, <3>2 DEF Inv, UpToDate
  <2>3. ASSUME page \notin OwnRows, ~st'.stale, NEW k \in Calls', Listing(net'[k])
        PROVE  net'[k].q = st'.q
    BY <1>5, <1>6, <2>2, <2>3 DEF Inv, UpToDate
  <2>4. ASSUME page \notin OwnRows, ~st'.stale, \A k \in Calls' : ~Changes(net'[k])
        PROVE  /\ \A k \in Calls' : net'[k].op = "techs" => net'[k].item = db
               /\ \A k \in Calls' : Listing(net'[k]) /\ net'[k].status = "ok" => net'[k].rows = db
               /\ (\A k \in Calls' : ~Listing(net'[k])) => st'.list = [q |-> st'.q, rows |-> db]
    <3>1. \/ ~Listing(net[i]) /\ ~Changes(net[i]) /\ s.list = st.list
          \/ net[i].op = "list" /\ s.list = [q |-> net[i].q, rows |-> net[i].rows]
          \/ /\ net[i].op = "techs"
             /\ s.list = [q |-> net[i].q, rows |-> Staff!Combined(net[i].item, net[i].rows)]
      BY <2>2, <2>4 DEF Ends
    <3>2. ~Changes(net[i])
      BY <1>1, <3>1 DEF Shape, IsCall, Changes, Reads, Lists, Payloads
    <3>3. \A j \in Calls : ~Changes(net[j])
      BY <1>6, <2>4, <3>2
    <3>4. /\ \A j \in Calls : Listing(net[j]) => net[j].q = st.q
          /\ \A j \in Calls : net[j].op = "techs" => net[j].item = db
          /\ \A j \in Calls : Listing(net[j]) /\ net[j].status = "ok" => net[j].rows = db
          /\ (\A j \in Calls : ~Listing(net[j])) => st.list = [q |-> st.q, rows |-> db]
      BY <2>2, <2>4, <3>3 DEF Inv, UpToDate
    <3>5. ASSUME \A k \in Calls' : ~Listing(net'[k]) PROVE s.list = [q |-> st.q, rows |-> db]
      <4>1. CASE ~Listing(net[i]) /\ s.list = st.list
        BY <1>6, <3>4, <3>5, <4>1
      <4>2. CASE net[i].op = "list" /\ s.list = [q |-> net[i].q, rows |-> net[i].rows]
        BY <2>2, <2>4, <3>4, <4>2 DEF Listing
      <4>3. CASE /\ net[i].op = "techs"
                 /\ s.list = [q |-> net[i].q, rows |-> Staff!Combined(net[i].item, net[i].rows)]
        <5>1. page = "staff" /\ db \in Records(page)
          BY <1>1, <4>3 DEF Shape, IsCall
        <5>2. net[i].item = db /\ net[i].rows = db /\ net[i].q = st.q
          BY <2>2, <2>4, <3>4, <4>3 DEF Listing
        <5>3. Staff!Combined(db, db) = db
          BY <5>1, CombinedSame
        <5>4. QED
          BY <4>3, <5>2, <5>3
      <4>4. QED
        BY <3>1, <4>1, <4>2, <4>3
    <3>6. QED
      BY <1>5, <1>6, <3>4, <3>5
  <2>5. QED
    BY <1>2, <2>1, <2>3, <2>4 DEF UpToDate, Calls
<1>10. Search'
  <2>1. IsFcn(s)
    BY <1>1 DEF Keeps
  <2>2. After(s)
    BY <2>1, Afterwards
  <2>3. QED
    BY <1>1, <2>2, SearchRule
<1>11. QED
  BY <1>7, <1>8, <1>9, <1>10 DEF Inv

(* What follows the await of call i sends call c, which takes the flags of  *)
(* its own over.                                                            *)
Continues(i, s, c) ==
    /\ Keeps(s) /\ s.q = st.q /\ s.list = st.list
    /\ IsCall(page, c) /\ c.status = "sent" /\ ~Changes(c)
    /\ Own(c) \subseteq net[i].flags
    /\ \/ c.op = "list"
       \/ /\ c.op = "techs" /\ c.q = net[i].q
          /\ net[i].op = "list" /\ net[i].status = "ok" /\ c.item = net[i].rows
       \/ ~Listing(c) /\ ~Listing(net[i]) /\ ~Changes(net[i])

(* An answer after which a call is sent keeps the invariant. *)
LEMMA ContinuesRule ==
    ASSUME Inv, NEW i \in Calls, net[i].status # "sent", NEW s, NEW c, Continues(i, s, c),
           Answer(i, s, <<c>>)
    PROVE  Inv'
<1>1. Shape /\ Keeps(s)
  BY DEF Inv, Continues
<1> DEFINE b == IF c.op = "list" THEN Others(i) # <<>> \/ c.q # s.q
                ELSE s.stale \/ net[i].status = "failed"
<1>2. /\ st' = [s EXCEPT !.stale = b, !.busy = (s.busy \ net[i].flags) \cup c.flags]
      /\ net' = Others(i) \o <<c>> /\ page' = page /\ db' = db
  BY <1>1, AnswerOne
<1>3. b \in BOOLEAN
  BY DEF Keeps, Continues
<1>4. /\ c.op = "list" => b = (Others(i) # <<>> \/ c.q # s.q)
      /\ c.op # "list" => b = (s.stale \/ net[i].status = "failed")
  OBVIOUS
<1> HIDE DEF b
<1>5. /\ IsState(st') /\ st'.stale = b /\ st'.busy = (s.busy \ net[i].flags) \cup c.flags
      /\ st'.q = st.q /\ st'.list = st.list /\ st'.acts = st.acts
  BY <1>1, <1>2 DEF Keeps, Continues, Shape, IsState, IsFcn, Fields
<1>6. IsSeq(net) /\ net' = Others(i) \o <<c>>
  BY <1>1, <1>2 DEF Shape
<1>7. /\ IsSeq(net') /\ Len(net) \in Nat /\ Len(net') = Len(net)
      /\ Calls = 1..Len(net) /\ Calls' = 1..Len(net)
      /\ \A k \in 1..(Len(net) - 1) :
           Skip(i, k) \in Calls \ {i} /\ net'[k] = net[Skip(i, k)]
      /\ \A k, l \in 1..(Len(net) - 1) : k # l => Skip(i, k) # Skip(i, l)
      /\ \A j \in Calls \ {i} : \E k \in 1..(Len(net) - 1) : net'[k] = net[j]
      /\ net'[Len(net)] = c
      /\ Others(i) # <<>> \/ Calls = {i}
  BY <1>6, Replaced
<1>8. ASSUME NEW k \in Calls'
      PROVE  \/ k \in 1..(Len(net) - 1) /\ Skip(i, k) \in Calls \ {i} /\ net'[k] = net[Skip(i, k)]
             \/ k = Len(net) /\ net'[k] = c
  <2>1. k \in 1..(Len(net) - 1) \/ k = Len(net)
    BY <1>7
  <2>2. QED
    BY <1>7, <2>1
<1>9. ASSUME NEW j \in Calls, j # i PROVE \E k \in Calls' : net'[k] = net[j]
  <2>1. PICK k \in 1..(Len(net) - 1) : net'[k] = net[j]
    BY <1>7, <1>9
  <2>2. k \in Calls'
    BY <1>7
  <2>3. QED
    BY <2>1, <2>2
<1>10. Len(net) \in Calls' /\ net'[Len(net)] = c
  <2>1. Len(net) \in 1..Len(net)
    BY <1>7
  <2>2. QED
    BY <1>7, <2>1
<1>11. Shape'
  <2>1. \A k \in Calls' : IsCall(page, net'[k])
    BY <1>1, <1>8 DEF Shape, Continues
  <2>2. QED
    BY <1>1, <1>2, <1>3, <1>5, <1>7, <2>1 DEF Shape
<1>12. Flagged'
  <2>1. ASSUME NEW x \in st'.busy PROVE x \in Flags(net')
    <3>1. CASE x \in c.flags
      BY <1>10, <3>1, FlagsIn DEF Calls
    <3>2. CASE x \notin c.flags
      <4>1. x \in st.busy /\ x \notin net[i].flags
        BY <1>1, <1>5, <2>1, <3>2 DEF Keeps
      <4>2. PICK j \in Calls : x \in net[j].flags
        BY <4>1, FlagsIn DEF Inv, Flagged, Calls
      <4>3. PICK k \in Calls' : net'[k] = net[j]
        BY <1>9, <4>1, <4>2
      <4>4. QED
        BY <4>2, <4>3, FlagsIn DEF Calls
    <3>3. QED
      BY <3>1, <3>2
  <2>2. ASSUME NEW j \in Calls, j # i
        PROVE  Own(net[j]) \subseteq st'.busy /\ Own(net[j]) \cap Own(c) = {}
    <3>1. Own(net[j]) \subseteq st.busy /\ Own(net[j]) \cap Own(net[i]) = {}
      BY <2>2 DEF Inv, Flagged
    <3>2. QED
      BY <1>1, <1>5, <3>1 DEF Own, Keeps, Continues
  <2>3. ASSUME NEW k \in Calls' PROVE Own(net'[k]) \subseteq st'.busy
    <3>1. Own(c) \subseteq st'.busy
      BY <1>5 DEF Own
    <3>2. QED
      BY <1>8, <2>2, <3>1
  <2>4. ASSUME NEW j \in Calls', NEW k \in Calls', j # k
        PROVE  Own(net'[j]) \cap Own(net'[k]) = {}
    <3>1. \A m \in Calls, n \in Calls : m # n => Own(net[m]) \cap Own(net[n]) = {}
      BY DEF Inv, Flagged
    <3>2. CASE net'[j] = c
      BY <1>8, <2>2, <2>4, <3>2
    <3>3. CASE net'[k] = c
      BY <1>8, <2>2, <2>4, <3>3
    <3>4. CASE net'[j] # c /\ net'[k] # c
      <4>1. /\ j \in 1..(Len(net) - 1) /\ Skip(i, j) \in Calls /\ net'[j] = net[Skip(i, j)]
            /\ k \in 1..(Len(net) - 1) /\ Skip(i, k) \in Calls /\ net'[k] = net[Skip(i, k)]
        BY <1>8, <3>4
      <4>2. Skip(i, j) # Skip(i, k)
        BY <1>7, <2>4, <4>1
      <4>3. QED
        BY <3>1, <4>1, <4>2
    <3>5. QED
      BY <3>2, <3>3, <3>4
  <2>5. QED
    BY <2>1, <2>3, <2>4 DEF Flagged, Calls
<1>13. UpToDate'
  <2>1. CASE c.op = "list"
    <3>1. ASSUME page \notin OwnRows, ~st'.stale
          PROVE  Calls = {i} /\ c.q = st.q
      BY <1>4, <1>5, <1>7, <2>1, <3>1 DEF Continues
    <3>2. ASSUME Calls = {i} PROVE Calls' = {1} /\ net'[1] = c
      <4>1. Len(net) \in Calls /\ 1 \in Calls
        BY <1>7
      <4>2. Len(net) = 1
        BY <3>2, <4>1
      <4>3. 1..1 = {1}
        OBVIOUS
      <4>4. QED
        BY <1>7, <4>2, <4>3
    <3>3. ASSUME page \notin OwnRows, NEW k \in Calls', Changes(net'[k]), page \in Silent PROVE st'.stale
      <4>1. net'[k] # c
        BY <3>3 DEF Continues
      <4>2. k \in 1..(Len(net) - 1)
        BY <1>8, <4>1
      <4>3. Others(i) # <<>>
        BY <1>7, <4>2
      <4>4. QED
        BY <1>4, <1>5, <2>1, <4>3
    <3>4. ASSUME page \notin OwnRows, ~st'.stale
          PROVE  \A k \in Calls' : net'[k] = c
      BY <3>1, <3>2, <3>4
    <3>5. Listing(c) /\ c.op # "techs" /\ c.status # "ok"
      BY <2>1 DEF Listing, Continues
    <3>6. QED
      BY <1>2, <1>5, <1>10, <3>1, <3>3, <3>4, <3>5 DEF UpToDate, Calls
  <2>2. CASE c.op # "list"
    <3>1. ASSUME page \notin OwnRows, NEW k \in Calls', Changes(net'[k]), page \in Silent PROVE st'.stale
      <4>1. st.stale
        BY <1>8, <3>1 DEF Inv, UpToDate, Continues
      <4>2. QED
        BY <1>1, <1>4, <1>5, <2>2, <4>1 DEF Keeps
    <3>2. ASSUME page \notin OwnRows, ~st'.stale
          PROVE  ~st.stale /\ net[i].status # "failed"
      BY <1>1, <1>4, <1>5, <2>2, <3>2 DEF Keeps
    <3>3. /\ Listing(c) => Listing(net[i]) /\ c.q = net[i].q
          /\ Listing(net[i]) => Listing(c)
          /\ c.op = "techs" => Listing(net[i]) /\ net[i].status = "ok" /\ c.item = net[i].rows
          /\ ~Changes(net[i]) /\ ~Changes(c) /\ c.status # "ok"
      <4>1. Listing(net[i]) => ~Changes(net[i])
        BY <1>1 DEF Shape, IsCall, Changes, Reads, Lists, Payloads, Listing
      <4>2. QED
        BY <2>2, <4>1 DEF Continues, Listing
    <3>4. ASSUME page \notin OwnRows, ~st'.stale, NEW k \in Calls', Listing(net'[k])
          PROVE  net'[k].q = st'.q
      BY <1>5, <1>8, <3>2, <3>3, <3>4 DEF Inv, UpToDate
    <3>5. ASSUME page \notin OwnRows, ~st'.stale, \A k \in Calls' : ~Changes(net'[k])
          PROVE  /\ \A k \in Calls' : net'[k].op = "techs" => net'[k].item = db
                 /\ \A k \in Calls' : Listing(net'[k]) /\ net'[k].status = "ok" => net'[k].rows = db
                 /\ (\A k \in Calls' : ~Listing(net'[k])) => st'.list = [q |-> st'.q, rows |-> db]
      <4>1. \A j \in Calls : ~Changes(net[j])
        BY <1>9, <3>3, <3>5
      <4>2. /\ \A j \in Calls : net[j].op = "techs" => net[j].item = db
            /\ \A j \in Calls : Listing(net[j]) /\ net[j].status = "ok" => net[j].rows = db
            /\ (\A j \in Calls : ~Listing(net[j])) => st.list = [q |-> st.q, rows |-> db]
        BY <3>2, <3>5, <4>1 DEF Inv, UpToDate
      <4>3. c.op = "techs" => c.item = db
        BY <3>3, <4>2
      <4>4. (\A k \in Calls' : ~Listing(net'[k])) => \A j \in Calls : ~Listing(net[j])
        BY <1>9, <1>10, <3>3
      <4>5. QED
        BY <1>5, <1>8, <3>3, <4>2, <4>3, <4>4
    <3>6. QED
      BY <1>2, <3>1, <3>4, <3>5 DEF UpToDate, Calls
  <2>3. QED
    BY <2>1, <2>2
<1>14. Search'
  <2>1. IsFcn(s)
    BY <1>1 DEF Keeps
  <2>2. After(s)
    BY <2>1, Afterwards
  <2>3. QED
    BY <1>1, <2>2, SearchRule
<1>15. QED
  BY <1>11, <1>12, <1>13, <1>14 DEF Inv

(* The back end changes nothing but the status and the rows of the call it  *)
(* serves, and records.                                                     *)
LEMMA Served ==
    ASSUME Shape, NEW i \in Calls, Serve(i)
    PROVE  /\ page' = page /\ st' = st /\ IsSeq(net') /\ Len(net') = Len(net) /\ Calls' = Calls
           /\ \A j \in Calls : j # i => net'[j] = net[j]
           /\ IsFcn(net'[i]) /\ DOMAIN net'[i] = CallFields
           /\ net'[i].op = net[i].op /\ net'[i].flags = net[i].flags /\ net'[i].q = net[i].q
           /\ net'[i].item = net[i].item /\ net'[i].to = net[i].to
           /\ \/ /\ net'[i].status = "failed" /\ net'[i].rows = net[i].rows
                 /\ db' \in {db, Applied(net[i])}
              \/ /\ net'[i].status = "ok" /\ db' = Applied(net[i])
                 /\ net'[i].rows = IF net[i].op \in Lists THEN db ELSE net[i].rows
           /\ net[i].status = "sent"
           /\ Applied(net[i]) \in Records(page)
           /\ ~Changes(net[i]) => Applied(net[i]) = db
<1>1. IsCall(page, net[i]) /\ db \in Records(page) /\ IsSeq(net)
  BY DEF Shape
<1>2. IsFcn(net[i]) /\ DOMAIN net[i] = CallFields
  BY <1>1 DEF IsCall
<1>3. ASSUME NEW x PROVE
        /\ IsSeq([net EXCEPT ![i] = x]) /\ Len([net EXCEPT ![i] = x]) = Len(net)
        /\ DOMAIN [net EXCEPT ![i] = x] = DOMAIN net
        /\ [net EXCEPT ![i] = x][i] = x
        /\ \A j \in Calls : j # i => [net EXCEPT ![i] = x][j] = net[j]
  <2>1. PICK S : net \in Seq(S)
    BY <1>1 DEF IsSeq
  <2>2. net \in Seq(S \cup {x}) /\ i \in 1..Len(net)
    BY <2>1 DEF Calls
  <2>3. [net EXCEPT ![i] = x] \in Seq(S \cup {x})
    BY <2>2
  <2>4. QED
    BY <2>1, <2>2, <2>3 DEF Calls, IsSeq
<1>4. Applied(net[i]) \in Records(page) /\ (~Changes(net[i]) => Applied(net[i]) = db)
  <2> DEFINE v(k) == CASE net[i].op \in Payloads /\ net[i].rows[k] # None -> net[i].rows[k]
                       [] net[i].to # None /\ net[i].item \in {k, None} -> net[i].to
                       [] OTHER -> db[k]
  <2>1. ASSUME NEW k \in Item PROVE v(k) \in ValuesOf(page) /\ (~Changes(net[i]) => v(k) = db[k])
    BY <1>1 DEF IsCall, Records, Changes
  <2>2. Applied(net[i]) = [k \in Item |-> v(k)]
    BY DEF Applied
  <2> HIDE DEF v
  <2>3. QED
    BY <1>1, <2>1, <2>2 DEF Records
<1> DEFINE failed == [net[i] EXCEPT !.status = "failed"]
           ok == [net[i] EXCEPT !.status = "ok", !.rows = IF net[i].op \in Lists THEN db ELSE net[i].rows]
<1>5. /\ net[i].status = "sent" /\ page' = page /\ st' = st
      /\ \/ net' = [net EXCEPT ![i] = failed] /\ (db' = db \/ db' = Applied(net[i]))
         \/ net' = [net EXCEPT ![i] = ok] /\ db' = Applied(net[i])
  <2>1. [net EXCEPT ![i].status = "failed"] = [net EXCEPT ![i] = failed]
    OBVIOUS
  <2>2. [net EXCEPT ![i].status = "ok", ![i].rows = IF net[i].op \in Lists THEN db ELSE @]
            = [net EXCEPT ![i] = ok]
    BY <1>1, <1>2 DEF CallFields, Calls
  <2>3. QED
    BY <2>1, <2>2 DEF Serve
<1>6. /\ IsFcn(failed) /\ DOMAIN failed = CallFields
      /\ failed.op = net[i].op /\ failed.flags = net[i].flags /\ failed.q = net[i].q
      /\ failed.item = net[i].item /\ failed.to = net[i].to
      /\ failed.status = "failed" /\ failed.rows = net[i].rows
  BY <1>2 DEF CallFields, IsFcn
<1>7. /\ IsFcn(ok) /\ DOMAIN ok = CallFields
      /\ ok.op = net[i].op /\ ok.flags = net[i].flags /\ ok.q = net[i].q
      /\ ok.item = net[i].item /\ ok.to = net[i].to
      /\ ok.status = "ok" /\ ok.rows = IF net[i].op \in Lists THEN db ELSE net[i].rows
  BY <1>2 DEF CallFields, IsFcn
<1> HIDE DEF failed, ok
<1>8. CASE net' = [net EXCEPT ![i] = failed] /\ (db' = db \/ db' = Applied(net[i]))
  <2>1. /\ IsSeq(net') /\ Len(net') = Len(net) /\ DOMAIN net' = DOMAIN net /\ net'[i] = failed
        /\ \A j \in Calls : j # i => net'[j] = net[j]
    BY <1>3, <1>8
  <2>2. QED
    BY <1>4, <1>5, <1>6, <1>8, <2>1 DEF Calls
<1>9. CASE net' = [net EXCEPT ![i] = ok] /\ db' = Applied(net[i])
  <2>1. /\ IsSeq(net') /\ Len(net') = Len(net) /\ DOMAIN net' = DOMAIN net /\ net'[i] = ok
        /\ \A j \in Calls : j # i => net'[j] = net[j]
    BY <1>3, <1>9
  <2>2. QED
    BY <1>4, <1>5, <1>7, <1>9, <2>1 DEF Calls
<1>10. QED
  BY <1>5, <1>8, <1>9

(* What a call carries does not depend on its status, nor on the rows of a  *)
(* list.                                                                    *)
LEMMA CarriesStill ==
    ASSUME NEW p, NEW c, Carries(p, c), NEW d,
           \A f \in {"op", "flags", "item", "to"} : d[f] = c[f],
           c.op \notin Lists => d["rows"] = c["rows"]
    PROVE  Carries(p, d)
<1>1. d.op = c.op /\ d.flags = c.flags /\ d.item = c.item /\ d.to = c.to
  OBVIOUS
<1>2. c.op \in {"delete", "submit"} => d.rows = c.rows
  BY DEF Lists
<1>3. /\ p = "plans" /\ d.op = "check" => d.item \in Item
      /\ p = "plans" /\ d.op = "delete" => d.item \in Item /\ d.rows \in Records(p) /\ d.to = "gone"
      /\ p = "layout" /\ d.op = "notifications" => d.item \in Layout!Centers
      /\ p = "submit" /\ d.op = "submit" => d.rows \in {d.item, ""}
  BY <1>1, <1>2 DEF Carries
<1>4. QED
  BY <1>1, <1>3 DEF Carries

(* The back end's handling of a call keeps the invariant. *)
LEMMA ServeRule ==
    ASSUME Inv, NEW i \in Calls, Serve(i)
    PROVE  Inv'
<1>1. Shape
  BY DEF Inv
<1>2. /\ page' = page /\ st' = st /\ IsSeq(net') /\ Len(net') = Len(net) /\ Calls' = Calls
      /\ \A j \in Calls : j # i => net'[j] = net[j]
      /\ IsFcn(net'[i]) /\ DOMAIN net'[i] = CallFields
      /\ net'[i].op = net[i].op /\ net'[i].flags = net[i].flags /\ net'[i].q = net[i].q
      /\ net'[i].item = net[i].item /\ net'[i].to = net[i].to
      /\ \/ /\ net'[i].status = "failed" /\ net'[i].rows = net[i].rows
            /\ db' \in {db, Applied(net[i])}
         \/ /\ net'[i].status = "ok" /\ db' = Applied(net[i])
            /\ net'[i].rows = IF net[i].op \in Lists THEN db ELSE net[i].rows
      /\ net[i].status = "sent"
      /\ Applied(net[i]) \in Records(page)
      /\ ~Changes(net[i]) => Applied(net[i]) = db
  BY <1>1, Served
<1>3. Shape'
  <2>1. IsCall(page, net[i]) /\ db \in Records(page)
    BY <1>1 DEF Shape
  <2>2. IsCall(page, net'[i])
    <3>1. Carries(page, net[i])
      BY <2>1 DEF IsCall
    <3>2. net'[i].rows = net[i].rows \/ net[i].op \in Lists
      BY <1>2
    <3>3. Carries(page, net'[i])
      BY <1>2, <3>1, <3>2, CarriesStill
    <3>4. /\ net[i].op \in Lists /\ net'[i].status = "ok" => net'[i].rows \in Records(page)
          /\ net[i].op \in Payloads => net'[i].rows = net[i].rows
      BY <1>2, <2>1 DEF IsCall, Lists, Payloads
    <3>5. QED
      BY <1>2, <2>1, <3>3, <3>4 DEF IsCall
  <2>3. ASSUME NEW j \in Calls PROVE IsCall(page, net'[j])
    BY <1>1, <1>2, <2>2 DEF Shape
  <2>4. db' \in Records(page)
    BY <1>2, <2>1
  <2>5. QED
    BY <1>1, <1>2, <2>3, <2>4 DEF Shape
<1>4. \A j \in Calls : /\ net'[j].flags = net[j].flags /\ net'[j].op = net[j].op
                       /\ net'[j].q = net[j].q /\ net'[j].item = net[j].item
                       /\ net'[j].to = net[j].to
  BY <1>2
<1>5. Flagged'
  <2>1. ASSUME NEW x \in st.busy PROVE x \in Flags(net')
    <3>1. PICK j \in Calls : x \in net[j].flags
      BY FlagsIn DEF Inv, Flagged, Calls
    <3>2. x \in net'[j].flags /\ j \in Calls'
      BY <1>2, <1>4, <3>1
    <3>3. QED
      BY <3>2, FlagsIn DEF Calls
  <2>2. \A j \in Calls : Own(net'[j]) = Own(net[j])
    BY <1>4 DEF Own
  <2>3. QED
    BY <1>2, <2>1, <2>2 DEF Inv, Flagged
<1>6. UpToDate'
  <2>1. \A j \in Calls : Changes(net'[j]) <=> Changes(net[j])
    BY <1>4 DEF Changes
  <2>2. \A j \in Calls : Listing(net'[j]) <=> Listing(net[j])
    BY <1>4 DEF Listing
  <2>3. ASSUME \A j \in Calls : ~Changes(net[j]) PROVE db' = db
    BY <1>2, <2>3
  <2>4. Listing(net[i]) => net[i].op \in Lists
    BY <1>1 DEF Listing, Lists, Shape, IsCall
  <2>5. ASSUME page \notin OwnRows, ~st.stale, \A j \in Calls : ~Changes(net[j])
        PROVE  /\ \A j \in Calls : net[j].op = "techs" => net[j].item = db'
               /\ \A j \in Calls : Listing(net[j]) /\ net'[j].status = "ok" => net'[j].rows = db'
               /\ (\A j \in Calls : ~Listing(net[j])) => st.list = [q |-> st.q, rows |-> db']
    BY <1>2, <2>3, <2>4, <2>5 DEF Inv, UpToDate
  <2>6. QED
    BY <1>2, <1>4, <2>1, <2>2, <2>5 DEF Inv, UpToDate
<1>7. Search'
  BY <1>2 DEF Inv, Search
<1>8. QED
  BY <1>3, <1>5, <1>6, <1>7 DEF Inv

(* A change by another user keeps the invariant. *)
LEMMA OtherRule ==
    ASSUME Inv, NEW values, values \subseteq ValuesOf(page), OtherUser(values)
    PROVE  Inv'
<1>1. Shape
  BY DEF Inv
<1>2. PICK i \in Item, v \in values : db' = [db EXCEPT ![i] = v]
  BY DEF OtherUser
<1>3. st' = [st EXCEPT !.acts = @ + 1, !.stale = TRUE] /\ page' = page /\ net' = net
      /\ st.acts < MaxActs[page]
  BY DEF OtherUser
<1>4. IsState(st') /\ st'.stale = TRUE /\ st'.acts = st.acts + 1 /\ st'.busy = st.busy
      /\ st'.list = st.list /\ st'.q = st.q
  BY <1>1, <1>3 DEF Shape, IsState, IsFcn, Fields
<1>5. db' \in Records(page)
  BY <1>1, <1>2 DEF Shape, Records
<1>6. st'.acts \in 0..MaxActs[page]
  BY <1>1, <1>3, <1>4, OneMoreAct
<1>7. Shape'
  BY <1>1, <1>3, <1>4, <1>5, <1>6 DEF Shape, Calls
<1>8. Flagged' /\ UpToDate'
  BY <1>3, <1>4 DEF Inv, Flagged, UpToDate, Calls
<1>9. Search'
  <2>1. page \in Searching => Searches(st')
    BY <1>1, <1>3 DEF Inv, Search, Searches, Shape, IsState, IsFcn, Fields
  <2>2. QED
    BY <1>3, <2>1 DEF Search
<1>10. QED
  BY <1>7, <1>8, <1>9 DEF Inv

-----------------------------------------------------------------------------
(* The calls that are sent.                                                 *)

(* The fields of a read, *)
LEMMA ReadFields ==
    ASSUME NEW op, NEW flags, NEW q, NEW c, c = Read(op, flags, q)
    PROVE  /\ IsFcn(c) /\ DOMAIN c = CallFields
           /\ c.op = op /\ c.flags = flags /\ c.q = q /\ c.item = None /\ c.to = None
           /\ c.status = "sent" /\ c.rows = None
  BY DEF Read, IsFcn, CallFields

(* of a write, *)
LEMMA WriteFields ==
    ASSUME NEW op, NEW flags, NEW q, NEW i, NEW v, NEW c, c = Write(op, flags, q, i, v)
    PROVE  /\ IsFcn(c) /\ DOMAIN c = CallFields
           /\ c.op = op /\ c.flags = flags /\ c.q = q /\ c.item = i /\ c.to = v
           /\ c.status = "sent" /\ c.rows = None
<1> DEFINE r == Read(op, flags, q)
<1>1. /\ IsFcn(r) /\ DOMAIN r = CallFields
      /\ r.op = op /\ r.flags = flags /\ r.q = q /\ r.item = None /\ r.to = None
      /\ r.status = "sent" /\ r.rows = None
  BY ReadFields
<1>2. c = [r EXCEPT !.item = i, !.to = v]
  BY DEF Write
<1> HIDE DEF r
<1>3. QED
  BY <1>1, <1>2 DEF IsFcn, CallFields

ReadOf(op, flags, q, i) == [Read(op, flags, q) EXCEPT !.item = i]

(* and of a read about one record. *)
LEMMA ReadOfFields ==
    ASSUME NEW op, NEW flags, NEW q, NEW i, NEW c, c = ReadOf(op, flags, q, i)
    PROVE  /\ IsFcn(c) /\ DOMAIN c = CallFields
           /\ c.op = op /\ c.flags = flags /\ c.q = q /\ c.item = i /\ c.to = None
           /\ c.status = "sent" /\ c.rows = None
<1> DEFINE r == Read(op, flags, q)
<1>1. /\ IsFcn(r) /\ DOMAIN r = CallFields
      /\ r.op = op /\ r.flags = flags /\ r.q = q /\ r.item = None /\ r.to = None
      /\ r.status = "sent" /\ r.rows = None
  BY ReadFields
<1>2. c = [r EXCEPT !.item = i]
  BY DEF ReadOf
<1> HIDE DEF r
<1>3. QED
  BY <1>1, <1>2 DEF IsFcn, CallFields

(* A call of a read whose answer brings no technicians. *)
Reading(c, op, flags, q) ==
    /\ IsFcn(c) /\ DOMAIN c = CallFields
    /\ c.op = op /\ c.flags = flags /\ c.q = q /\ c.to = None /\ c.status = "sent"

(* Reads are reads. *)
LEMMA Readings ==
    ASSUME NEW op, NEW flags, NEW q, NEW i
    PROVE  /\ Reading(Read(op, flags, q), op, flags, q)
           /\ Reading([Read(op, flags, q) EXCEPT !.item = i], op, flags, q)
<1>1. Reading(Read(op, flags, q), op, flags, q)
  BY ReadFields DEF Reading
<1>2. Reading([Read(op, flags, q) EXCEPT !.item = i], op, flags, q)
  <2> DEFINE r == Read(op, flags, q)
             c == [r EXCEPT !.item = i]
  <2>1. Reading(r, op, flags, q)
    BY <1>1
  <2> HIDE DEF r
  <2>2. Reading(c, op, flags, q)
    BY <2>1 DEF Reading, IsFcn, CallFields
  <2>3. QED
    BY <2>2 DEF r
<1>3. QED
  BY <1>1, <1>2

(* A read is a call that changes nothing. *)
LEMMA ReadingIsCall ==
    ASSUME NEW op \in Plain, NEW flags, NEW q, NEW c, Reading(c, op, flags, q)
    PROVE  IsCall(page, c) /\ ~Changes(c)
  BY DEF Reading, IsCall, Carries, Plain, Changes, Reads, Lists, Payloads

-----------------------------------------------------------------------------
(* What handlers and answers do, by kind.                                   *)

(* A read whose flags may be those of several calls.                        *)
LEMMA ReadRule ==
    ASSUME Inv, NEW s, Keeps(s), s.list = st.list,
           NEW op \in Plain, NEW flags, flags \subseteq Common, NEW q, NEW c,
           Reading(c, op, flags, q),
           op = "list" \/ s.q = st.q,
           Send(s, <<c>>) \/ Do(s, <<c>>)
    PROVE  Inv'
<1>1. IsCall(page, c) /\ ~Changes(c)
  BY ReadingIsCall
<1>2. Sends(s, c)
  BY <1>1 DEF Sends, Reading, Own, Plain
<1>3. QED
  BY <1>2, SendsRule

(* A write with a button of its own keeps the invariant. *)
LEMMA WriteRule ==
    ASSUME Inv, NEW s, Keeps(s), s.q = st.q, s.list = st.list,
           NEW op, op \notin Reads \cup Payloads,
           NEW flags, flags \cap Common = {}, flags \cap st.busy = {},
           NEW q, NEW i, NEW v \in ValuesOf(page) \cup {None},
           v # None /\ page \in Silent => s.stale,
           NEW c, c = Write(op, flags, q, i, v), Carries(page, c), Do(s, <<c>>)
    PROVE  Inv'
<1>1. /\ IsFcn(c) /\ DOMAIN c = CallFields
      /\ c.op = op /\ c.flags = flags /\ c.q = q /\ c.item = i /\ c.to = v
      /\ c.status = "sent" /\ c.rows = None
  BY WriteFields
<1>2. op \notin Lists
  BY DEF Reads
<1>3. IsCall(page, c)
  BY <1>1, <1>2 DEF IsCall, Lists
<1>4. Sends(s, c)
  BY <1>1, <1>3 DEF Sends, Own, Changes, Reads, Lists
<1>5. QED
  BY <1>4, SendsRule

(* So does the answer of a request that failed, *)
LEMMA FailedRule ==
    ASSUME Inv, NEW i \in Calls, net[i].status = "failed", NEW s, Quiet(s), Answer(i, s, <<>>)
    PROVE  Inv'
<1>1. Ends(i, s)
  BY DEF Ends, Quiet, Inv, Shape
<1>2. QED
  BY <1>1, EndsRule

(* The answer of a call that neither reads nor changes the rows. *)
LEMMA AsideRule ==
    ASSUME Inv, NEW i \in Calls, net[i].status # "sent", NEW s, Quiet(s), Answer(i, s, <<>>),
           \/ ~Listing(net[i]) /\ ~Changes(net[i])
           \/ Changes(net[i]) /\ page \in Silent
    PROVE  Inv'
<1>1. Ends(i, s)
  BY DEF Ends, Quiet, Inv, Shape
<1>2. QED
  BY <1>1, EndsRule

(* and a list whose rows are shown. *)
LEMMA ShownRule ==
    ASSUME Inv, NEW i \in Calls, Ok(i, "list"), NEW s, Keeps(s), s.q = st.q,
           s.list = [q |-> net[i].q, rows |-> net[i].rows], Answer(i, s, <<>>)
    PROVE  Inv'
<1>1. net[i].rows \in Records(page)
  BY DEF Inv, Shape, IsCall, Ok, Lists
<1>2. Ends(i, s) /\ net[i].status # "sent"
  BY <1>1 DEF Ends, Ok
<1>3. QED
  BY <1>2, EndsRule

(* A list that follows a write, or another read.                            *)
LEMMA ThenRule ==
    ASSUME Inv, NEW i \in Calls, net[i].status # "sent", NEW s, Quiet(s),
           NEW flags, flags \ Common \subseteq net[i].flags, NEW q, NEW c,
           Reading(c, "list", flags, q), Answer(i, s, <<c>>)
    PROVE  Inv'
<1>1. IsCall(page, c) /\ ~Changes(c)
  BY ReadingIsCall DEF Plain, Reads, Lists
<1>2. Continues(i, s, c)
  BY <1>1 DEF Continues, Quiet, Reading, Own
<1>3. QED
  BY <1>2, ContinuesRule

-----------------------------------------------------------------------------
(* What a step leaves of the dialog and of the calls.                       *)

(* The dialog is the one the handler or the answer set. *)
LEMMA DialogAfter ==
    ASSUME Shape, NEW s, Keeps(s), NEW calls,
           Send(s, calls) \/ Do(s, calls) \/ \E i \in Calls : Answer(i, s, calls)
    PROVE  st'.dlg = s.dlg
<1>1. IsFcn(s) /\ "dlg" \in DOMAIN s \ History
  BY DEF Shape, IsState, Keeps, Fields, History
<1>2. After(s)
  BY <1>1, Afterwards
<1>3. QED
  BY <1>1, <1>2 DEF After

(* Every call but those of the operations ops was there before. *)
Gains(ops) ==
    /\ page' = page
    /\ \A k \in Calls' : net'[k].op \in ops \/ \E j \in Calls : net'[k] = net[j]

(* Where nothing is sent nothing comes. *)
LEMMA GainedNone ==
    ASSUME Shape, NEW s, Keeps(s), NEW ops,
           Send(s, <<>>) \/ Do(s, <<>>) \/ \E i \in Calls : Answer(i, s, <<>>)
    PROVE  Gains(ops)
<1>1. CASE Send(s, <<>>)
  BY <1>1, SendNone DEF Gains, Calls
<1>2. CASE Do(s, <<>>)
  BY <1>2, DoNone DEF Gains, Calls
<1>3. ASSUME NEW i \in Calls, Answer(i, s, <<>>) PROVE Gains(ops)
  <2>1. net' = Others(i) /\ page' = page
    BY <1>3, AnswerNone
  <2>2. \A k \in DOMAIN Others(i) : Skip(i, k) \in Calls \ {i} /\ Others(i)[k] = net[Skip(i, k)]
    BY Remaining DEF Shape
  <2>3. QED
    BY <2>1, <2>2 DEF Gains, Calls
<1>4. QED
  BY <1>1, <1>2, <1>3

(* One call comes where one is sent. *)
LEMMA GainedOne ==
    ASSUME Shape, NEW s, NEW c,
           Send(s, <<c>>) \/ Do(s, <<c>>) \/ \E i \in Calls : Answer(i, s, <<c>>)
    PROVE  page' = page /\ \A k \in Calls' : net'[k] = c \/ \E j \in Calls : net'[k] = net[j]
<1>0. page' = page
  BY DEF Send, Do, Answer
<1>1. CASE Send(s, <<c>>) \/ Do(s, <<c>>)
  <2>1. net' = net \o <<c>>
    BY <1>1 DEF Send, Do
  <2>2. IsSeq(net)
    BY DEF Shape
  <2>3. /\ Len(net) \in Nat /\ Calls = 1..Len(net)
        /\ DOMAIN (net \o <<c>>) = 1..(Len(net) + 1)
        /\ \A k \in 1..Len(net) : (net \o <<c>>)[k] = net[k]
        /\ (net \o <<c>>)[Len(net) + 1] = c
    BY <2>2, Appended DEF Calls
  <2>4. ASSUME NEW k \in Calls' PROVE net'[k] = c \/ \E j \in Calls : net'[k] = net[j]
    <3>1. k \in 1..(Len(net) + 1)
      BY <2>1, <2>3 DEF Calls
    <3>2. k \in 1..Len(net) \/ k = Len(net) + 1
      BY <2>3, <3>1
    <3>3. QED
      BY <2>1, <2>3, <3>2
  <2>5. QED
    BY <1>0, <2>4
<1>2. ASSUME NEW i \in Calls, Answer(i, s, <<c>>)
      PROVE  \A k \in Calls' : net'[k] = c \/ \E j \in Calls : net'[k] = net[j]
  <2>1. IsSeq(net) /\ net' = Others(i) \o <<c>>
    BY <1>2 DEF Answer, Shape
  <2>2. /\ Len(net) \in Nat /\ Calls' = 1..Len(net)
        /\ \A k \in 1..(Len(net) - 1) :
             Skip(i, k) \in Calls \ {i} /\ net'[k] = net[Skip(i, k)]
        /\ net'[Len(net)] = c
    BY <2>1, Replaced
  <2>3. ASSUME NEW k \in Calls' PROVE net'[k] = c \/ \E j \in Calls : net'[k] = net[j]
    <3>1. k \in 1..(Len(net) - 1) \/ k = Len(net)
      BY <2>2
    <3>2. QED
      BY <2>2, <3>1
  <2>4. QED
    BY <2>3
<1>3. QED
  BY <1>0, <1>1, <1>2

-----------------------------------------------------------------------------
(* The operations that pages have in common, which send a list at most.     *)

(* A handler is quiet that leaves alone what the components share. *)
LEMMA QuietDo ==
    ASSUME Inv, NEW s, IsFcn(s), DOMAIN s = DOMAIN st,
           \A f \in Fields \ {"dlg", "timer"} : s[f] = st[f],
           page \in Searching => Searches(s)
    PROVE  Quiet(s)
  BY DEF Quiet, Keeps, Inv, Shape, Fields

(* A handler that changes nothing but the dialog, the timer or the box.     *)
LEMMA StateRule ==
    ASSUME Inv, NEW s, Quiet(s), Send(s, <<>>) \/ Do(s, <<>>)
    PROVE  Inv' /\ st'.dlg = s.dlg /\ net' = net /\ page' = page
<1>1. Inv'
  BY QuietRule
<1>2. Shape /\ Keeps(s)
  BY DEF Inv, Quiet
<1>3. st'.dlg = s.dlg
  BY <1>2, DialogAfter
<1>4. net' = net /\ page' = page
  BY <1>2, SendNone, DoNone
<1>5. QED
  BY <1>1, <1>3, <1>4

(* A keystroke in the box. *)
LEMMA TypeRule ==
    ASSUME Inv, NEW t, Type(t)
    PROVE  Inv' /\ st'.dlg = st.dlg /\ net' = net /\ page' = page
<1> DEFINE s == [st EXCEPT !.typed = t, !.timer = TRUE]
<1>1. IsFcn(s) /\ DOMAIN s = DOMAIN st /\ \A f \in Fields \ {"timer"} : s[f] = st[f]
  BY DEF Inv, Shape, IsState, IsFcn, Fields
<1>2. Do(s, <<>>)
  BY DEF Type
<1>3. page \in Searching => Searches(s)
  BY DEF Inv, Shape, IsState, IsFcn, Fields, Search, Searches
<1> HIDE DEF s
<1>4. Quiet(s)
  BY <1>1, <1>3, QuietDo
<1>5. s.dlg = st.dlg
  BY <1>1 DEF Fields
<1>6. QED
  BY <1>2, <1>4, <1>5, StateRule

(* A dialog opens. *)
LEMMA DialogRule ==
    ASSUME Inv, NEW kind, NEW i, Dialog(kind, i)
    PROVE  Inv' /\ st'.dlg = [kind |-> kind, item |-> i] /\ net' = net /\ page' = page
<1> DEFINE d == [kind |-> kind, item |-> i]
           s == [st EXCEPT !.dlg = d]
<1>1. Do(s, <<>>)
  BY DEF Dialog
<1> HIDE DEF d
<1>2. /\ IsFcn(s) /\ DOMAIN s = DOMAIN st /\ s.dlg = d
      /\ \A f \in Fields \ {"dlg", "timer"} : s[f] = st[f]
  BY DEF Inv, Shape, IsState, IsFcn, Fields
<1>3. page \in Searching => Searches(s)
  BY DEF Inv, Shape, IsState, IsFcn, Fields, Search, Searches
<1> HIDE DEF s
<1>4. Quiet(s)
  BY <1>2, <1>3, QuietDo
<1>5. QED
  BY <1>1, <1>2, <1>4, StateRule DEF d

(* A dialog closes. *)
LEMMA CloseRule ==
    ASSUME Inv, Close
    PROVE  Inv' /\ st'.dlg = None /\ net' = net /\ page' = page
<1> DEFINE s == [st EXCEPT !.dlg = None]
<1>1. /\ IsFcn(s) /\ DOMAIN s = DOMAIN st /\ s.dlg = None
      /\ \A f \in Fields \ {"dlg", "timer"} : s[f] = st[f]
  BY DEF Inv, Shape, IsState, IsFcn, Fields
<1>2. Do(s, <<>>)
  BY DEF Close
<1>3. page \in Searching => Searches(s)
  BY DEF Inv, Shape, IsState, IsFcn, Fields, Search, Searches
<1> HIDE DEF s
<1>4. Quiet(s)
  BY <1>1, <1>3, QuietDo
<1>5. QED
  BY <1>1, <1>2, <1>4, StateRule

(* A change of the query, or of nothing. *)
LEMMA EffectRule ==
    ASSUME Inv, NEW s, Keeps(s), s.list = st.list, Send(s, Effect(s)) \/ Do(s, Effect(s))
    PROVE  Inv' /\ st'.dlg = s.dlg /\ Gains({"list"})
<1>1. Shape
  BY DEF Inv
<1>2. st'.dlg = s.dlg
  BY <1>1, DialogAfter
<1>3. CASE s.q = st.q
  <2>1. Effect(s) = <<>> /\ Quiet(s)
    BY <1>3 DEF Effect, Quiet
  <2>2. QED
    BY <1>1, <1>2, <2>1, QuietRule, GainedNone
<1>4. CASE s.q # st.q
  <2> DEFINE c == Read("list", {"loading"}, s.q)
  <2>1. Effect(s) = <<c>>
    BY <1>4 DEF Effect, Fetch
  <2>2. Reading(c, "list", {"loading"}, s.q)
    BY Readings
  <2>3. "list" \in Plain /\ {"loading"} \subseteq Common
    BY DEF Plain, Reads, Lists, Common
  <2> HIDE DEF c
  <2>4. Inv'
    BY <2>1, <2>2, <2>3, ReadRule
  <2>5. Gains({"list"})
    <3>1. page' = page /\ \A k \in Calls' : net'[k] = c \/ \E j \in Calls : net'[k] = net[j]
      BY <1>1, <2>1, GainedOne
    <3>2. QED
      BY <2>2, <3>1 DEF Gains, Reading
  <2>6. QED
    BY <1>2, <2>4, <2>5
<1>5. QED
  BY <1>3, <1>4

(* The box's timer fires: the search is what was typed. *)
LEMMA SettleRule ==
    ASSUME Inv, Settle
    PROVE  Inv' /\ st'.dlg = st.dlg /\ Gains({"list"})
<1> DEFINE s == [st EXCEPT !.timer = FALSE, !.q.search = st.typed, !.q.page = 1]
<1>1. Keeps(s) /\ s.list = st.list /\ s.dlg = st.dlg
  <2>1. /\ IsFcn(s) /\ DOMAIN s = DOMAIN st /\ s.list = st.list /\ s.dlg = st.dlg
        /\ s.acts = st.acts /\ s.stale = st.stale /\ s.busy = st.busy
    BY DEF Inv, Shape, IsState, IsFcn, Fields
  <2>2. page \in Searching => Searches(s)
    BY DEF Inv, Shape, IsState, IsFcn, Fields, Search, Searches
  <2> HIDE DEF s
  <2>3. QED
    BY <2>1, <2>2 DEF Inv, Shape, Keeps
<1>2. Send(s, Effect(s))
  BY DEF Settle
<1> HIDE DEF s
<1>3. QED
  BY <1>1, <1>2, EffectRule

(* Another filter. *)
LEMMA FilterRule ==
    ASSUME Inv, NEW f, Filter(f)
    PROVE  Inv' /\ st'.dlg = st.dlg /\ Gains({"list"})
<1> DEFINE s == [st EXCEPT !.q.filter = f, !.q.page = 1]
<1>1. Keeps(s) /\ s.list = st.list /\ s.dlg = st.dlg
  <2>1. /\ IsFcn(s) /\ DOMAIN s = DOMAIN st /\ s.list = st.list /\ s.dlg = st.dlg
        /\ s.acts = st.acts /\ s.stale = st.stale /\ s.busy = st.busy
    BY DEF Inv, Shape, IsState, IsFcn, Fields
  <2>2. page \in Searching => Searches(s)
    BY DEF Inv, Shape, IsState, IsFcn, Fields, Search, Searches
  <2> HIDE DEF s
  <2>3. QED
    BY <2>1, <2>2 DEF Inv, Shape, Keeps
<1>2. Do(s, Effect(s))
  BY DEF Filter
<1> HIDE DEF s
<1>3. QED
  BY <1>1, <1>2, EffectRule

(* Another page. *)
LEMMA TurnRule ==
    ASSUME Inv, NEW p, Turn(p)
    PROVE  Inv' /\ st'.dlg = st.dlg /\ Gains({"list"})
<1> DEFINE s == [st EXCEPT !.q.page = p]
<1>1. Keeps(s) /\ s.list = st.list /\ s.dlg = st.dlg
  <2>1. /\ IsFcn(s) /\ DOMAIN s = DOMAIN st /\ s.list = st.list /\ s.dlg = st.dlg
        /\ s.acts = st.acts /\ s.stale = st.stale /\ s.busy = st.busy
    BY DEF Inv, Shape, IsState, IsFcn, Fields
  <2>2. page \in Searching => Searches(s)
    BY DEF Inv, Shape, IsState, IsFcn, Fields, Search, Searches
  <2> HIDE DEF s
  <2>3. QED
    BY <2>1, <2>2 DEF Inv, Shape, Keeps
<1>2. Do(s, Effect(s))
  BY DEF Turn
<1> HIDE DEF s
<1>3. QED
  BY <1>1, <1>2, EffectRule

(* To leave everything alone is quiet. *)
LEMMA StIsQuiet == ASSUME Inv PROVE Quiet(st)
  BY DEF Inv, Shape, IsState, Quiet, Keeps, Search

(* What showing the rows of call i does to the state. *)
LEMMA ShowKeeps ==
    ASSUME Inv, NEW i \in Calls, NEW s, s = Show(st, i)
    PROVE  /\ Keeps(s) /\ s.q = st.q /\ s.list = [q |-> net[i].q, rows |-> net[i].rows]
           /\ s.dlg = st.dlg
  BY DEF Inv, Shape, IsState, IsFcn, Fields, Keeps, Show, Search, Searches

(* The answer of a fetch. *)
LEMMA FetchedRule ==
    ASSUME Inv, NEW i \in Calls, Fetched(i)
    PROVE  Inv' /\ st'.dlg = st.dlg /\ Gains({"list"})
<1>1. CASE Ok(i, "list") /\ Answer(i, Show(st, i), <<>>)
  <2> DEFINE s == Show(st, i)
  <2>1. s = Show(st, i)
    OBVIOUS
  <2> HIDE DEF s
  <2>2. /\ Keeps(s) /\ s.q = st.q /\ s.list = [q |-> net[i].q, rows |-> net[i].rows]
        /\ s.dlg = st.dlg
    BY <2>1, ShowKeeps
  <2>3. Inv'
    BY <1>1, <2>1, <2>2, ShownRule
  <2>4. QED
    BY <1>1, <2>1, <2>2, <2>3, DialogAfter, GainedNone DEF Inv
<1>2. CASE Failed(i, "list") /\ Answer(i, st, <<>>)
  <2>1. Quiet(st) /\ Inv'
    BY <1>2, StIsQuiet, FailedRule DEF Failed
  <2>2. QED
    BY <1>2, <2>1, DialogAfter, GainedNone DEF Inv, Quiet
<1>3. QED
  BY <1>1, <1>2 DEF Fetched

(* The first list after the component appears is alone. *)
LEMMA SentFirst ==
    ASSUME NEW s, NEW c, c.op = "list", c.q = s.q
    PROVE  Sent(s, <<>>, <<c>>) = [s EXCEPT !.stale = FALSE, !.busy = s.busy \cup c.flags]
<1>1. Range(<<c>>) = {c}
  BY DEF Range
<1>2. Flags(<<c>>) = c.flags
  BY <1>1 DEF Flags
<1>3. {d \in Range(<<c>>) : d.op = "list"} = {c}
  BY <1>1
<1>4. (<<>> # <<>> \/ \E d \in {c} : d.q # s.q) = FALSE
  OBVIOUS
<1>5. QED
  BY <1>2, <1>3, <1>4 DEF Sent

(* The component appears.                                                   *)
Starts(p, s, rows) ==
    /\ p \in Components /\ rows \in Records(p)
    /\ IsState(s) /\ s.acts = 0 /\ s.busy = {} /\ s.list = [q |-> None, rows |-> None]
    /\ p \in Searching => Searches(s)

(* A component that appears and asks for its list is up to date. *)
LEMMA MountRule ==
    ASSUME NEW p, NEW s, NEW rows, Starts(p, s, rows), Mount(p, s, rows)
    PROVE  Inv
<1> DEFINE c == Read("list", {"loading"}, s.q)
<1>1. page = p /\ db = rows /\ net = <<c>> /\ st = Sent(s, <<>>, <<c>>)
  BY DEF Mount, Fetch
<1>2. Reading(c, "list", {"loading"}, s.q)
  BY Readings
<1> HIDE DEF c
<1>5. st = [s EXCEPT !.stale = FALSE, !.busy = {"loading"}]
  <2>1. c.op = "list" /\ c.q = s.q /\ s.busy \cup c.flags = {"loading"}
    BY <1>2 DEF Reading, Starts
  <2>2. Sent(s, <<>>, <<c>>) = [s EXCEPT !.stale = FALSE, !.busy = s.busy \cup c.flags]
    BY <2>1, SentFirst
  <2>3. QED
    BY <1>1, <2>1, <2>2
<1>6. /\ IsState(st) /\ st.acts = 0 /\ st.stale = FALSE /\ st.busy = {"loading"}
      /\ st.q = s.q /\ st.list = [q |-> None, rows |-> None]
  BY <1>5 DEF Starts, IsState, IsFcn, Fields
<1>7. IsSeq(net) /\ Len(net) = 1 /\ Calls = {1} /\ net[1] = c
  <2>1. <<c>> \in Seq({c}) /\ Len(<<c>>) = 1 /\ DOMAIN <<c>> = {1} /\ <<c>>[1] = c
    OBVIOUS
  <2>2. QED
    BY <1>1, <2>1 DEF IsSeq, Calls
<1>8. IsCall(page, c) /\ ~Changes(c)
  <2>1. "list" \in Plain
    BY DEF Plain, Reads, Lists
  <2>2. QED
    BY <1>2, <2>1, ReadingIsCall
<1>9. Shape
  <2>1. 1 <= MaxCalls
    <3>1. MaxCalls \in Nat /\ MaxCalls # 0
      BY PageAssumption
    <3>2. QED
      BY <3>1
  <2>2. page \in DOMAIN MaxActs
    BY <1>1, ClientsAssumption DEF Starts
  <2>3. 0 \in 0..MaxActs[page]
    <3>1. MaxActs[page] \in Nat
      BY <2>2, PageAssumption
    <3>2. QED
      BY <3>1
  <2>4. IsState(st) /\ st.acts = 0 /\ st.stale \in BOOLEAN /\ st.list.rows = None
    <3>1. st.stale \in BOOLEAN
      BY <1>6
    <3>2. st.list.rows = None
      BY <1>6
    <3>3. QED
      BY <1>6, <3>1, <3>2
  <2>5. \A i \in Calls : IsCall(page, net[i])
    BY <1>7, <1>8
  <2>6. page \in Components /\ db \in Records(page) /\ IsSeq(net) /\ Len(net) <= MaxCalls
    BY <1>1, <1>7, <2>1 DEF Starts
  <2>7. QED
    BY <2>3, <2>4, <2>5, <2>6 DEF Shape
<1>10. Flagged
  <2>1. "loading" \in Flags(net)
    BY <1>2, <1>7, FlagsIn DEF Calls, Reading
  <2>2. Own(net[1]) = {}
    BY <1>2, <1>7 DEF Reading, Own, Common
  <2>3. QED
    BY <1>6, <1>7, <2>1, <2>2 DEF Flagged
<1>11. UpToDate
  BY <1>2, <1>6, <1>7, <1>8 DEF UpToDate, Listing, Reading
<1>12. Search
  BY <1>1, <1>5 DEF Starts, Search, Searches, IsState, IsFcn, Fields
<1>13. QED
  BY <1>9, <1>10, <1>11, <1>12 DEF Inv

(* The state of a component with query q, but for what own says of it.      *)
IsWith(s, q, own) ==
    /\ IsFcn(s) /\ DOMAIN s = Fields \cup DOMAIN own
    /\ \A f \in DOMAIN own : s[f] = own[f]
    /\ "q" \notin DOMAIN own => s.q = q
    /\ "list" \notin DOMAIN own => s.list = [q |-> None, rows |-> None]
    /\ "busy" \notin DOMAIN own => s.busy = {}
    /\ "dlg" \notin DOMAIN own => s.dlg = None
    /\ "acts" \notin DOMAIN own => s.acts = 0
    /\ "timer" \notin DOMAIN own => s.timer = FALSE

(* The fields of a component are its own and the common ones. *)
LEMMA Withs == ASSUME NEW q, NEW own, NEW s, s = With(Blank(q), own) PROVE IsWith(s, q, own)
<1> DEFINE b == Blank(q)
<1>1. /\ DOMAIN b = Fields
      /\ b.q = q /\ b.list = [q |-> None, rows |-> None] /\ b.busy = {} /\ b.dlg = None
      /\ b.acts = 0 /\ b.timer = FALSE
  BY DEF Blank, Fields
<1>2. s = With(b, own)
  OBVIOUS
<1> HIDE DEF b
<1>3. /\ IsFcn(s) /\ DOMAIN s = Fields \cup DOMAIN own
      /\ \A f \in DOMAIN own : s[f] = own[f]
      /\ \A f \in Fields \ DOMAIN own : s[f] = b[f]
  BY <1>1, <1>2 DEF With, IsFcn
<1>4. QED
  BY <1>1, <1>3 DEF Fields, IsWith

(* The state with which a page with a box, filters and pages appears. *)
LEMMA ListPages ==
    ASSUME NEW f, NEW s, s = ListPage(f)
    PROVE  /\ IsState(s) /\ s.acts = 0 /\ s.busy = {} /\ s.list = [q |-> None, rows |-> None]
           /\ s.dlg = None /\ Searches(s)
<1> DEFINE q == [filter |-> f, search |-> "", page |-> 1]
           own == [typed |-> "", timer |-> TRUE]
<1>1. DOMAIN own = {"typed", "timer"} /\ own.typed = "" /\ own.timer = TRUE
      /\ q.search = "" /\ "search" \in DOMAIN q
  OBVIOUS
<1>2. s = With(Blank(q), own)
  BY DEF ListPage
<1> HIDE DEF q, own
<1>3. IsWith(s, q, own)
  BY <1>2, Withs
<1>4. /\ "q" \notin DOMAIN own /\ "list" \notin DOMAIN own /\ "busy" \notin DOMAIN own
      /\ "dlg" \notin DOMAIN own /\ "acts" \notin DOMAIN own
  BY <1>1
<1>5. s.q = q /\ s.list = [q |-> None, rows |-> None] /\ s.busy = {} /\ s.dlg = None /\ s.acts = 0
  BY <1>3, <1>4 DEF IsWith
<1>6. s.typed = "" /\ "typed" \in DOMAIN s
  BY <1>1, <1>3 DEF IsWith
<1>7. Searches(s)
  BY <1>1, <1>5, <1>6 DEF Searches
<1>8. IsState(s)
  BY <1>3 DEF IsState, IsWith
<1>9. QED
  BY <1>5, <1>7, <1>8

-----------------------------------------------------------------------------

(* A handler that sets one field the rules say nothing of, or the dialog.   *)
LEMMA SetsField ==
    ASSUME Inv, NEW f, f \notin (Fields \ {"dlg"}) \cup {"typed"}, NEW x, NEW s, s = [st EXCEPT ![f] = x]
    PROVE  /\ Quiet(s) /\ DOMAIN s = DOMAIN st
           /\ f \in DOMAIN st => s[f] = x
           /\ \A g \in DOMAIN st : g # f => s[g] = st[g]
<1>1. IsFcn(s) /\ DOMAIN s = DOMAIN st /\ \A g \in DOMAIN st : g # f => s[g] = st[g]
  BY DEF Inv, Shape, IsState, IsFcn
<1>2. Fields \subseteq DOMAIN st
  BY DEF Inv, Shape, IsState
<1>3. \A g \in Fields \ {"dlg", "timer"} : s[g] = st[g]
  BY <1>1, <1>2
<1>4. page \in Searching => Searches(s)
  BY <1>1, <1>2 DEF Inv, Search, Searches, Fields
<1>5. Quiet(s)
  BY <1>1, <1>3, <1>4, QuietDo
<1>6. f \in DOMAIN st => s[f] = x
  OBVIOUS
<1>7. QED
  BY <1>1, <1>5, <1>6

(* A handler that opens or closes a dialog. *)
LEMMA SetsDialog ==
    ASSUME Inv, NEW x, NEW s, s = [st EXCEPT !.dlg = x]
    PROVE  Quiet(s) /\ s.dlg = x
<1>1. "dlg" \in DOMAIN st
  BY DEF Inv, Shape, IsState, Fields
<1>2. QED
  BY <1>1, SetsField

(* No call comes where the calls stay. *)
LEMMA SameGains == ASSUME net' = net, page' = page, NEW ops PROVE Gains(ops)
  BY DEF Gains, Calls

(* The answer of call i leaves the others, and perhaps sends one.           *)
Leaves(i, ops) ==
    /\ page' = page
    /\ \A k \in Calls' : net'[k].op \in ops \/ \E j \in Calls \ {i} : net'[k] = net[j]

(* After an answer that sends nothing the others are left, *)
LEMMA LeftNone ==
    ASSUME Shape, NEW i \in Calls, NEW s, Keeps(s), Answer(i, s, <<>>), NEW ops
    PROVE  Leaves(i, ops)
<1>1. net' = Others(i) /\ page' = page
  BY AnswerNone
<1>2. \A k \in DOMAIN Others(i) : Skip(i, k) \in Calls \ {i} /\ Others(i)[k] = net[Skip(i, k)]
  BY Remaining DEF Shape
<1>3. QED
  BY <1>1, <1>2 DEF Leaves, Calls

(* and with one that is sent, the others and that. *)
LEMMA LeftOne ==
    ASSUME Shape, NEW i \in Calls, NEW s, NEW c, Answer(i, s, <<c>>)
    PROVE  page' = page /\ \A k \in Calls' : net'[k] = c \/ \E j \in Calls \ {i} : net'[k] = net[j]
<1>1. page' = page /\ IsSeq(net) /\ net' = Others(i) \o <<c>>
  BY DEF Answer, Shape
<1>2. /\ Len(net) \in Nat /\ Calls' = 1..Len(net)
      /\ \A k \in 1..(Len(net) - 1) :
           Skip(i, k) \in Calls \ {i} /\ net'[k] = net[Skip(i, k)]
      /\ net'[Len(net)] = c
  BY <1>1, Replaced
<1>3. ASSUME NEW k \in Calls' PROVE net'[k] = c \/ \E j \in Calls \ {i} : net'[k] = net[j]
  <2>1. k \in 1..(Len(net) - 1) \/ k = Len(net)
    BY <1>2
  <2>2. QED
    BY <1>2, <2>1
<1>4. QED
  BY <1>1, <1>3

(* A failed answer, and an answer followed by the list.                     *)
LEMMA FailedStep ==
    ASSUME Inv, NEW i \in Calls, net[i].status = "failed", NEW s, Quiet(s), Answer(i, s, <<>>), NEW ops
    PROVE  Inv' /\ st'.dlg = s.dlg /\ Leaves(i, ops) /\ After(s)
<1>1. Shape /\ Keeps(s) /\ IsFcn(s)
  BY DEF Inv, Quiet, Keeps
<1>2. Inv'
  BY FailedRule
<1>3. st'.dlg = s.dlg
  BY <1>1, DialogAfter
<1>4. Leaves(i, ops)
  BY <1>1, LeftNone
<1>5. After(s)
  BY <1>1, Afterwards
<1>6. QED
  BY <1>2, <1>3, <1>4, <1>5

(* The list that follows what succeeded. *)
LEMMA ThenStep ==
    ASSUME Inv, NEW i \in Calls, net[i].status = "ok", NEW s, Quiet(s),
           NEW flags, flags \ Common \subseteq net[i].flags, NEW q, NEW c,
           Reading(c, "list", flags, q), Answer(i, s, <<c>>)
    PROVE  Inv' /\ st'.dlg = s.dlg /\ Leaves(i, {"list"}) /\ After(s)
<1>1. Shape /\ Keeps(s) /\ IsFcn(s)
  BY DEF Inv, Quiet, Keeps
<1>2. Inv'
  BY ThenRule
<1>3. st'.dlg = s.dlg
  BY <1>1, DialogAfter
<1>4. Leaves(i, {"list"})
  BY <1>1, LeftOne DEF Leaves, Reading
<1>5. After(s)
  BY <1>1, Afterwards
<1>6. QED
  BY <1>2, <1>3, <1>4, <1>5

(* The click of a button that is disabled until the list is read.           *)
LEMMA WriteStep ==
    ASSUME Inv, NEW s, Quiet(s),
           NEW op, op \notin Reads \cup Payloads,
           NEW flags, flags \cap Common = {}, flags \cap st.busy = {},
           NEW q, NEW i, NEW v \in ValuesOf(page) \cup {None},
           v # None /\ page \in Silent => s.stale,
           NEW c, c = Write(op, flags, q, i, v), Carries(page, c), Do(s, <<c>>)
    PROVE  /\ Inv' /\ st'.dlg = s.dlg /\ After(s)
           /\ \A k \in Calls' : net'[k] = c \/ \E j \in Calls : net'[k] = net[j]
<1>1. Shape /\ Keeps(s) /\ IsFcn(s) /\ s.q = st.q /\ s.list = st.list
  BY DEF Inv, Quiet, Keeps
<1>2. Inv'
  BY <1>1, WriteRule
<1>3. st'.dlg = s.dlg
  BY <1>1, DialogAfter
<1>4. \A k \in Calls' : net'[k] = c \/ \E j \in Calls : net'[k] = net[j]
  BY <1>1, GainedOne
<1>5. After(s)
  BY <1>1, Afterwards
<1>6. QED
  BY <1>2, <1>3, <1>4, <1>5

(* A write whose flags are free. *)
Writes(c) ==
    /\ IsFcn(c) /\ DOMAIN c = CallFields /\ c.status = "sent"
    /\ c.op \notin Reads \cup Payloads
    /\ c.flags \cap Common = {} /\ c.flags \cap st.busy = {}
    /\ c.to \in ValuesOf(page) \cup {None}
    /\ Carries(page, c)

(* A write that makes the rows stale, where no list follows it, may be      *)
(* sent.                                                                    *)
LEMMA WritesSends ==
    ASSUME NEW s, Quiet(s), NEW c, Writes(c), Changes(c) /\ page \in Silent => s.stale
    PROVE  Sends(s, c)
<1>1. c.op \notin Lists \cup {"list", "techs"}
  BY DEF Writes, Reads, Lists
<1>2. IsCall(page, c)
  BY <1>1 DEF Writes, IsCall
<1>3. QED
  BY <1>1, <1>2 DEF Sends, Writes, Quiet, Own

(* The click of a button that is not disabled sends such a write. *)
LEMMA WriteIs ==
    ASSUME NEW op, op \notin Reads \cup Payloads,
           NEW flags, flags \cap Common = {}, flags \cap st.busy = {},
           NEW q, NEW i, NEW v, v \in ValuesOf(page) \cup {None},
           NEW c, c = Write(op, flags, q, i, v), Carries(page, c)
    PROVE  Writes(c) /\ c.op = op /\ c.flags = flags /\ c.item = i /\ c.to = v
<1>1. /\ IsFcn(c) /\ DOMAIN c = CallFields
      /\ c.op = op /\ c.flags = flags /\ c.item = i /\ c.to = v
      /\ c.status = "sent"
  BY WriteFields
<1>2. QED
  BY <1>1 DEF Writes

(* What sending a call leaves of the state and of the calls. *)
LEMMA SendsStep ==
    ASSUME Inv, NEW s, NEW c, Sends(s, c), Send(s, <<c>>) \/ Do(s, <<c>>)
    PROVE  /\ Inv' /\ st'.dlg = s.dlg /\ After(s)
           /\ \A k \in Calls' : net'[k] = c \/ \E j \in Calls : net'[k] = net[j]
<1>1. Shape /\ Keeps(s) /\ IsFcn(s)
  BY DEF Inv, Sends, Keeps
<1>2. Inv'
  BY SendsRule
<1>3. st'.dlg = s.dlg
  BY <1>1, DialogAfter
<1>4. \A k \in Calls' : net'[k] = c \/ \E j \in Calls : net'[k] = net[j]
  BY <1>1, GainedOne
<1>5. After(s)
  BY <1>1, Afterwards
<1>6. QED
  BY <1>2, <1>3, <1>4, <1>5

(* Another user's change makes the rows stale and leaves the rest alone. *)
LEMMA OtherStep ==
    ASSUME Inv, NEW values, values \subseteq ValuesOf(page), OtherUser(values)
    PROVE  /\ Inv' /\ st'.dlg = st.dlg /\ st'.stale = TRUE /\ net' = net /\ After(st)
<1>1. Inv'
  BY OtherRule
<1>2. st' = [st EXCEPT !.acts = @ + 1, !.stale = TRUE] /\ net' = net /\ page' = page
  BY DEF OtherUser
<1>3. IsFcn(st') /\ DOMAIN st' = DOMAIN st /\ \A f \in DOMAIN st \ History : st'[f] = st[f]
  BY <1>2 DEF Inv, Shape, IsState, IsFcn, History
<1>4. "dlg" \in DOMAIN st \ History /\ "stale" \in DOMAIN st
  BY DEF Inv, Shape, IsState, Fields, History
<1>5. st'.stale = TRUE
  BY <1>2, <1>4
<1>6. st'.dlg = st.dlg
  BY <1>3, <1>4
<1>7. After(st)
  BY <1>2, <1>3 DEF After
<1>8. QED
  BY <1>1, <1>2, <1>5, <1>6, <1>7

(* A handler's state with the rows of call i. *)
LEMMA ShowsQuiet ==
    ASSUME Inv, NEW i \in Calls, NEW u, Quiet(u), NEW s, s = Show(u, i)
    PROVE  /\ Keeps(s) /\ s.q = st.q /\ s.list = [q |-> net[i].q, rows |-> net[i].rows]
           /\ s.dlg = u.dlg /\ DOMAIN s = DOMAIN u /\ \A g \in DOMAIN u \ {"list"} : s[g] = u[g]
<1>1. /\ IsFcn(u) /\ DOMAIN u = DOMAIN st /\ Fields \subseteq DOMAIN u /\ u.q = st.q
      /\ page \in Searching => Searches(u)
  BY DEF Inv, Shape, IsState, Quiet, Keeps
<1>2. /\ IsFcn(s) /\ DOMAIN s = DOMAIN u /\ \A g \in DOMAIN u \ {"list"} : s[g] = u[g]
      /\ s.list = [q |-> net[i].q, rows |-> net[i].rows]
  BY <1>1 DEF Show, IsFcn, Fields
<1>3. s.acts = u.acts /\ s.stale = u.stale /\ s.busy = u.busy /\ s.dlg = u.dlg /\ s.q = u.q
  BY <1>1, <1>2 DEF Fields
<1>4. page \in Searching => Searches(s)
  BY <1>1, <1>2 DEF Searches, Fields
<1>5. Keeps(s)
  BY <1>1, <1>2, <1>3, <1>4 DEF Quiet, Keeps
<1>6. QED
  BY <1>1, <1>2, <1>3, <1>5

(* The answer of a list whose rows are shown. *)
LEMMA ShownStep ==
    ASSUME Inv, NEW i \in Calls, Ok(i, "list"), NEW s, Keeps(s), s.q = st.q,
           s.list = [q |-> net[i].q, rows |-> net[i].rows], Answer(i, s, <<>>), NEW ops
    PROVE  Inv' /\ st'.dlg = s.dlg /\ Leaves(i, ops) /\ After(s)
<1>1. Shape /\ IsFcn(s)
  BY DEF Inv, Keeps
<1>2. Inv'
  BY ShownRule
<1>3. st'.dlg = s.dlg
  BY <1>1, DialogAfter
<1>4. Leaves(i, ops)
  BY <1>1, LeftNone
<1>5. After(s)
  BY <1>1, Afterwards
<1>6. QED
  BY <1>2, <1>3, <1>4, <1>5

(* What an answer leaves was there before. *)
LEMMA LeavesGains == ASSUME NEW i \in Calls, NEW ops, Leaves(i, ops) PROVE Gains(ops)
  BY DEF Leaves, Gains

(* The flags of a call of its own are set, *)
LEMMA BusyWith ==
    ASSUME Inv, NEW i \in Calls, NEW x \in net[i].flags, x \notin Common PROVE x \in st.busy
  BY DEF Inv, Flagged, Own

(* and no other call has them. *)
LEMMA OneHolder ==
    ASSUME Inv, NEW i \in Calls, NEW j \in Calls, NEW x, x \in net[i].flags, x \in net[j].flags, x \notin Common
    PROVE  i = j
  BY DEF Inv, Flagged, Own

-----------------------------------------------------------------------------
(* The writes whose answer closes the dialog in which they were confirmed.  *)

Confirms(c) ==
    \/ page = "subscriptions" /\ c.op \in {"save", "disconnect"}
    \/ page = "mikrotik" /\ c.op = "delete"
DialogOf(c) ==
    st.dlg # None /\ st.dlg.item = c.item /\ st.dlg.kind = IF c.op = "save" THEN "form" ELSE c.op
OwnDialogs == \A i \in Calls : Confirms(net[i]) => DialogOf(net[i])

Confirmed == {"save", "disconnect", "delete"}

(* The dialogs of writes under way stay where the dialog does, *)
LEMMA DialogsKept ==
    ASSUME OwnDialogs, st'.dlg = st.dlg, NEW ops, ops \cap Confirmed = {}, Gains(ops)
    PROVE  OwnDialogs'
  BY DEF OwnDialogs, Gains, Confirms, DialogOf, Confirmed

(* need nothing where no such write is under way, *)
LEMMA DialogsFree ==
    ASSUME \A j \in Calls : ~Confirms(net[j]), NEW ops, ops \cap Confirmed = {}, Gains(ops)
    PROVE  OwnDialogs'
  BY DEF OwnDialogs, Gains, Confirms, DialogOf, Confirmed

(* are those of a write that is sent from its dialog, *)
LEMMA DialogsSent ==
    ASSUME OwnDialogs, st'.dlg = st.dlg, page' = page, NEW c, Confirms(c) => DialogOf(c),
           \A k \in Calls' : net'[k] = c \/ \E j \in Calls : net'[k] = net[j]
    PROVE  OwnDialogs'
<1>1. ASSUME NEW k \in Calls', Confirms(net'[k]) PROVE DialogOf(net'[k])
  <2>1. CASE net'[k] = c
    BY <1>1, <2>1
  <2>2. ASSUME NEW j \in Calls, net'[k] = net[j] PROVE DialogOf(net'[k])
    BY <1>1, <2>2 DEF OwnDialogs
  <2>3. QED
    BY <2>1, <2>2
<1>2. QED
  BY <1>1 DEF OwnDialogs, Confirms, DialogOf

(* and are free when the write is answered. *)
LEMMA DialogsAnswered ==
    ASSUME Inv, OwnDialogs, NEW i \in Calls, Confirms(net[i]), NEW ops, ops \cap Confirmed = {},
           Leaves(i, ops)
    PROVE  OwnDialogs'
<1>1. ASSUME NEW j \in Calls, j # i, Confirms(net[j]) PROVE FALSE
  <2>1. net[j].op = net[i].op
    <3>1. DialogOf(net[i]) /\ DialogOf(net[j])
      BY <1>1 DEF OwnDialogs
    <3>2. QED
      BY <1>1, <3>1 DEF DialogOf, Confirms
  <2>2. Carries(page, net[i]) /\ Carries(page, net[j])
    BY DEF Inv, Shape, IsCall
  <2>3. \E x \in {"submitting", "disconnecting", "deletingSecret"} :
           x \in net[i].flags /\ x \in net[j].flags
    BY <1>1, <2>1, <2>2 DEF Confirms, Carries
  <2>4. QED
    BY <1>1, <2>3, OneHolder DEF Common
<1>2. QED
  BY <1>1 DEF OwnDialogs, Leaves, Confirms, DialogOf, Confirmed

(* The answer of a write closes its dialog, or leaves it. *)
LEMMA ClosedQuiet ==
    ASSUME Inv, NEW b PROVE Quiet(IF b THEN [st EXCEPT !.dlg = None] ELSE st)
<1> DEFINE s == [st EXCEPT !.dlg = None]
<1>1. s = [st EXCEPT !.dlg = None]
  OBVIOUS
<1> HIDE DEF s
<1>2. Quiet(s)
  BY <1>1, SetsDialog
<1>3. Quiet(IF b THEN s ELSE st)
  BY <1>2, StIsQuiet
<1>4. QED
  BY <1>3 DEF s

(* A state that differs from one the handler may have in what nothing       *)
(* depends on.                                                              *)
LEMMA KeepsLike ==
    ASSUME NEW u, Keeps(u), IsState(u), NEW s, IsFcn(s), DOMAIN s = DOMAIN u,
           \A f \in DOMAIN u \cap {"q", "acts", "timer", "typed"} : s[f] = u[f],
           s.stale \in BOOLEAN, u.stale => s.stale,
           s.busy \subseteq u.busy, u.busy \ Common \subseteq s.busy
    PROVE  Keeps(s) /\ s.q = u.q
<1>1. s.q = u.q /\ s.acts = u.acts /\ s.timer = u.timer
  BY DEF IsState, Fields
<1>2. page \in Searching => Searches(s)
  BY <1>1 DEF Keeps, Searches
<1>3. s.stale \in BOOLEAN /\ (st.stale => s.stale)
  BY DEF Keeps
<1>4. s.busy \subseteq st.busy /\ st.busy \ Common \subseteq s.busy
  BY DEF Keeps
<1>5. QED
  BY <1>1, <1>2, <1>3, <1>4 DEF Keeps

(* A handler that sets one more field, or clears common flags. *)
LEMMA KeepsBut ==
    ASSUME Inv, NEW u, Keeps(u), NEW f, f \notin {"q", "acts", "timer", "typed", "stale"}, NEW x,
           f = "busy" => x \subseteq u.busy /\ u.busy \ Common \subseteq x,
           NEW s, s = [u EXCEPT ![f] = x]
    PROVE  /\ Keeps(s) /\ DOMAIN s = DOMAIN u
           /\ f \in DOMAIN u => s[f] = x
           /\ \A g \in DOMAIN u : g # f => s[g] = u[g]
<1>1. IsFcn(u) /\ DOMAIN u = DOMAIN st /\ Fields \subseteq DOMAIN u
  BY DEF Inv, Shape, IsState, Keeps
<1>2. IsFcn(s) /\ DOMAIN s = DOMAIN u /\ \A g \in DOMAIN u : g # f => s[g] = u[g]
  BY <1>1 DEF IsFcn
<1>3. f \in DOMAIN u => s[f] = x
  OBVIOUS
<1>4. s.acts = u.acts /\ s.stale = u.stale /\ s.timer = u.timer /\ s.q = u.q
  BY <1>1, <1>2 DEF Fields
<1>5. s.busy \subseteq st.busy /\ st.busy \ Common \subseteq s.busy
  <2>1. CASE f = "busy"
    BY <1>1, <1>3, <2>1 DEF Keeps, Fields
  <2>2. CASE f # "busy"
    BY <1>1, <1>2, <2>2 DEF Keeps, Fields
  <2>3. QED
    BY <2>1, <2>2
<1>6. page \in Searching => Searches(s)
  BY <1>1, <1>2, <1>4 DEF Keeps, Searches
<1>7. Keeps(s)
  BY <1>1, <1>2, <1>4, <1>5, <1>6 DEF Keeps
<1>8. QED
  BY <1>2, <1>3, <1>7

(* A handler after which the rows may differ. *)
LEMMA KeepsStale ==
    ASSUME Inv, NEW u, Keeps(u), NEW s, s = [u EXCEPT !.stale = TRUE]
    PROVE  /\ Keeps(s) /\ DOMAIN s = DOMAIN u /\ s.stale
           /\ \A g \in DOMAIN u : g # "stale" => s[g] = u[g]
<1>1. IsFcn(u) /\ DOMAIN u = DOMAIN st /\ Fields \subseteq DOMAIN u
  BY DEF Inv, Shape, IsState, Keeps
<1>2. IsFcn(s) /\ DOMAIN s = DOMAIN u /\ \A g \in DOMAIN u : g # "stale" => s[g] = u[g]
  BY <1>1 DEF IsFcn
<1>3. s.stale = TRUE
  BY <1>1 DEF Fields
<1>4. s.acts = u.acts /\ s.busy = u.busy /\ s.timer = u.timer /\ s.q = u.q
  BY <1>1, <1>2 DEF Fields
<1>5. page \in Searching => Searches(s)
  BY <1>1, <1>2, <1>4 DEF Keeps, Searches
<1>6. Keeps(s)
  BY <1>1, <1>2, <1>3, <1>4, <1>5 DEF Keeps
<1>7. QED
  BY <1>2, <1>3, <1>6

(* An answer after which something else than the list is read.              *)
LEMMA NextRule ==
    ASSUME Inv, NEW i \in Calls, net[i].status # "sent", ~Listing(net[i]), ~Changes(net[i]),
           NEW s, Quiet(s), NEW op \in Plain \ {"list"},
           NEW flags, flags \ Common \subseteq net[i].flags, NEW q, NEW c,
           Reading(c, op, flags, q), Answer(i, s, <<c>>)
    PROVE  Inv'
<1>1. IsCall(page, c) /\ ~Changes(c)
  BY ReadingIsCall
<1>2. ~Listing(c)
  BY DEF Reading, Plain, Listing
<1>3. Continues(i, s, c)
  BY <1>1, <1>2 DEF Continues, Quiet, Reading, Own
<1>4. QED
  BY <1>3, ContinuesRule

(* The component has the state it appears with. *)
LEMMA Mounted ==
    ASSUME NEW p, NEW s, NEW rows, IsState(s), Mount(p, s, rows)
    PROVE  /\ IsFcn(st) /\ DOMAIN st = DOMAIN s
           /\ \A f \in DOMAIN s \ History : st[f] = s[f]
  BY DEF Mount, Sent, IsState, IsFcn, History

(* A component that appears before it knows what the back end has.          *)
Opened ==
    /\ page \in Components \ Searching /\ db \in Records(page)
    /\ IsState(st) /\ st.acts = 0 /\ st.stale = TRUE /\ st.list.rows = None

(* A component that appears before its list is there has its types, *)
LEMMA OpenedShape ==
    ASSUME Opened, IsSeq(net), NEW n \in {0, 1}, Len(net) = n, \A i \in Calls : IsCall(page, net[i])
    PROVE  Shape /\ UpToDate /\ Search
<1>1. n <= MaxCalls
  <2>1. MaxCalls \in Nat /\ MaxCalls # 0
    BY PageAssumption
  <2>2. QED
    BY <2>1
<1>2. page \in DOMAIN MaxActs
  BY ClientsAssumption DEF Opened
<1>3. 0 \in 0..MaxActs[page]
  <2>1. MaxActs[page] \in Nat
    BY <1>2, PageAssumption
  <2>2. QED
    BY <2>1
<1>4. st.stale = TRUE
  BY DEF Opened
<1>5. Shape
  <2>1. page \in Components /\ db \in Records(page) /\ IsState(st) /\ st.acts \in 0..MaxActs[page]
    BY <1>3 DEF Opened
  <2>2. st.stale \in BOOLEAN
    BY <1>4
  <2>3. st.list.rows = None
    BY DEF Opened
  <2>4. QED
    BY <1>1, <2>1, <2>2, <2>3 DEF Shape
<1>6. UpToDate
  BY <1>4 DEF UpToDate
<1>7. Search
  BY DEF Opened, Search
<1>8. QED
  BY <1>5, <1>6, <1>7

(* keeps the invariant with a read under way, *)
LEMMA OpenedCalling ==
    ASSUME Opened, st.busy = {"loading"}, NEW op \in Plain, NEW q, NEW c,
           Reading(c, op, {"loading"}, q), net = <<c>>
    PROVE  Inv
<1>1. IsSeq(net) /\ Len(net) = 1 /\ Calls = {1} /\ net[1] = c
  <2>1. <<c>> \in Seq({c}) /\ Len(<<c>>) = 1 /\ DOMAIN <<c>> = {1} /\ <<c>>[1] = c
    OBVIOUS
  <2>2. QED
    BY <2>1 DEF IsSeq, Calls
<1>2. IsCall(page, c)
  BY ReadingIsCall
<1>3. Shape /\ UpToDate /\ Search
  BY <1>1, <1>2, OpenedShape
<1>4. Flagged
  <2>1. "loading" \in Flags(net)
    BY <1>1, FlagsIn DEF Calls, Reading
  <2>2. Own(net[1]) = {}
    BY <1>1 DEF Reading, Own, Common
  <2>3. QED
    BY <1>1, <2>1, <2>2 DEF Flagged
<1>5. QED
  BY <1>3, <1>4 DEF Inv

(* and with none. *)
LEMMA OpenedSilent == ASSUME Opened, st.busy = {}, net = <<>> PROVE Inv
<1>1. IsSeq(net) /\ Len(net) = 0 /\ Calls = {}
  <2>1. <<>> \in Seq({}) /\ Len(<<>>) = 0 /\ DOMAIN <<>> = {}
    OBVIOUS
  <2>2. QED
    BY <2>1 DEF IsSeq, Calls
<1>2. Shape /\ UpToDate /\ Search
  BY <1>1, OpenedShape
<1>3. Flagged
  BY <1>1 DEF Flagged
<1>4. QED
  BY <1>2, <1>3 DEF Inv

WriteOf(op, flags, q, i, v, r) == [Write(op, flags, q, i, v) EXCEPT !.rows = r]

(* The fields of a write that carries rows. *)
LEMMA WriteWith ==
    ASSUME NEW op, NEW flags, NEW q, NEW i, NEW v, NEW r,
           NEW c, c = WriteOf(op, flags, q, i, v, r)
    PROVE  /\ IsFcn(c) /\ DOMAIN c = CallFields
           /\ c.op = op /\ c.flags = flags /\ c.q = q /\ c.item = i /\ c.to = v
           /\ c.status = "sent" /\ c.rows = r
<1> DEFINE w == Write(op, flags, q, i, v)
<1>1. /\ IsFcn(w) /\ DOMAIN w = CallFields
      /\ w.op = op /\ w.flags = flags /\ w.q = q /\ w.item = i /\ w.to = v
      /\ w.status = "sent"
  BY WriteFields
<1>2. c = [w EXCEPT !.rows = r]
  BY DEF WriteOf
<1> HIDE DEF w
<1>3. QED
  BY <1>1, <1>2 DEF IsFcn, CallFields

(* The acts are counted, and the back end is left alone. *)
LEMMA ActsAfter ==
    ASSUME Shape, NEW s, Keeps(s), NEW calls
    PROVE  /\ Do(s, calls) => st'.acts = st.acts + 1 /\ db' = db /\ st.acts < MaxActs[page]
           /\ (\E i \in Calls : Answer(i, s, calls)) => st'.acts = st.acts /\ db' = db
<1>1. "acts" \in DOMAIN s /\ s.acts = st.acts
  BY DEF Shape, IsState, Keeps, Fields
<1>2. ASSUME NEW u, NEW before, "acts" \in DOMAIN u
      PROVE  Sent(u, before, calls).acts = u.acts
  BY <1>2 DEF Sent
<1>3. ASSUME Do(s, calls) PROVE st'.acts = st.acts + 1 /\ db' = db /\ st.acts < MaxActs[page]
  <2> DEFINE u == [s EXCEPT !.acts = @ + 1]
  <2>1. "acts" \in DOMAIN u /\ u.acts = st.acts + 1
    BY <1>1
  <2>2. st' = Sent(u, net, calls) /\ db' = db /\ st.acts < MaxActs[page]
    BY <1>3 DEF Do, Send
  <2> HIDE DEF u
  <2>3. QED
    BY <1>2, <2>1, <2>2
<1>4. ASSUME NEW i \in Calls, Answer(i, s, calls) PROVE st'.acts = st.acts /\ db' = db
  <2> DEFINE u == [s EXCEPT !.stale = @ \/ net[i].status = "failed", !.busy = @ \ net[i].flags]
  <2>1. "acts" \in DOMAIN u /\ u.acts = st.acts
    BY <1>1
  <2>2. st' = Sent(u, Others(i), calls) /\ db' = db
    BY <1>4 DEF Answer
  <2> HIDE DEF u
  <2>3. QED
    BY <1>2, <2>1, <2>2
<1>5. QED
  BY <1>3, <1>4

(* A button is disabled anew only by a call that is sent. *)
LEMMA BusyFrom ==
    ASSUME Inv, Inv', NEW x, x \notin Common, x \notin st.busy,
           \A k \in Calls' : x \notin net'[k].flags \/ \E j \in Calls : net'[k].flags = net[j].flags
    PROVE  x \notin st'.busy
<1>1. SUFFICES ASSUME x \in st'.busy PROVE FALSE
  OBVIOUS
<1>2. x \in Flags(net')
  BY <1>1 DEF Inv, Flagged
<1>3. PICK k \in Calls' : x \in net'[k].flags
  BY <1>2, FlagsIn DEF Calls
<1>4. PICK j \in Calls : x \in net[j].flags
  BY <1>3
<1>5. QED
  BY <1>4, BusyWith

-----------------------------------------------------------------------------
(* What handlers and answers leave of the calls, the flags and the rows.    *)

DoesStay(who) == \A j \in who : \E k \in Calls' : net'[k] = net[j]

(* Two calls that were there before were two before. *)
Distinct(c) ==
    \A k, l \in Calls' : k # l /\ net'[k] # c /\ net'[l] # c =>
        \E a, b \in Calls : a # b /\ net'[k] = net[a] /\ net'[l] = net[b]

(* What a handler leaves that sends nothing, *)
LEMMA DoneNone ==
    ASSUME Shape, NEW s, Keeps(s), Do(s, <<>>)
    PROVE  db' = db /\ net' = net /\ st'.busy = s.busy /\ (s.stale => st'.stale)
<1>1. st' = [s EXCEPT !.acts = @ + 1] /\ net' = net /\ db' = db
  BY DoNone
<1>2. Fields \subseteq DOMAIN s
  BY DEF Shape, IsState, Keeps
<1>3. st'.busy = s.busy /\ st'.stale = s.stale
  BY <1>1, <1>2 DEF Fields
<1>4. QED
  BY <1>1, <1>3

(* what one leaves that sends a call, *)
LEMMA DoneOne ==
    ASSUME Shape, NEW s, Keeps(s), NEW c, Do(s, <<c>>)
    PROVE  /\ db' = db /\ st'.busy = s.busy \cup c.flags
           /\ c.op # "list" => (s.stale => st'.stale)
           /\ DoesStay(Calls) /\ Distinct(c)
<1> DEFINE b == IF c.op = "list" THEN net # <<>> \/ c.q # s.q ELSE s.stale
           f == s.busy \cup c.flags
<1>1. st' = [s EXCEPT !.acts = @ + 1, !.stale = b, !.busy = f] /\ net' = net \o <<c>> /\ db' = db
  BY DoOne
<1>2. Fields \subseteq DOMAIN s /\ IsSeq(net)
  BY DEF Shape, IsState, Keeps
<1>3. c.op # "list" => (s.stale => b)
  OBVIOUS
<1> HIDE DEF b, f
<1>4. st'.busy = f /\ (b => st'.stale)
  BY <1>1, <1>2 DEF Fields
<1>5. /\ Len(net) \in Nat /\ Calls = 1..Len(net)
      /\ DOMAIN (net \o <<c>>) = 1..(Len(net) + 1)
      /\ \A k \in 1..Len(net) : (net \o <<c>>)[k] = net[k]
      /\ (net \o <<c>>)[Len(net) + 1] = c
  BY <1>2, Appended DEF Calls
<1>6. /\ Calls' = 1..(Len(net) + 1) /\ \A k \in 1..Len(net) : net'[k] = net[k]
      /\ net'[Len(net) + 1] = c
  BY <1>1, <1>5 DEF Calls
<1>7. DoesStay(Calls)
  <2>1. \A j \in Calls : j \in Calls' /\ net'[j] = net[j]
    BY <1>5, <1>6
  <2>2. QED
    BY <2>1 DEF DoesStay
<1>8. \A k \in Calls' : k \in Calls \/ net'[k] = c
  BY <1>5, <1>6
<1>9. Distinct(c)
  BY <1>5, <1>6, <1>8 DEF Distinct
<1>10. QED
  BY <1>1, <1>3, <1>4, <1>7, <1>9 DEF f

(* and what an answer leaves. *)
LEMMA EndedAfter ==
    ASSUME Shape, NEW i \in Calls, NEW s, Keeps(s), Answer(i, s, <<>>)
    PROVE  /\ db' = db /\ st'.busy = s.busy \ net[i].flags
           /\ (s.stale => st'.stale) /\ (net[i].status = "failed" => st'.stale)
           /\ DoesStay(Calls \ {i}) /\ \A c : Distinct(c)
<1> DEFINE b == s.stale \/ net[i].status = "failed"
           f == s.busy \ net[i].flags
<1>1. st' = [s EXCEPT !.stale = b, !.busy = f] /\ net' = Others(i) /\ db' = db
  <2>1. /\ st' = [s EXCEPT !.stale = @ \/ net[i].status = "failed", !.busy = @ \ net[i].flags]
        /\ net' = Others(i) /\ db' = db
    BY AnswerNone
  <2>2. QED
    BY <2>1
<1>2. Fields \subseteq DOMAIN s /\ IsSeq(net)
  BY DEF Shape, IsState, Keeps
<1>3. (s.stale => b) /\ (net[i].status = "failed" => b)
  OBVIOUS
<1> HIDE DEF b, f
<1>4. st'.busy = f /\ (b => st'.stale)
  BY <1>1, <1>2 DEF Fields
<1>5. /\ \A k \in Calls' : Skip(i, k) \in Calls /\ net'[k] = net[Skip(i, k)]
      /\ \A k, l \in Calls' : k # l => Skip(i, k) # Skip(i, l)
      /\ \A j \in Calls \ {i} : \E k \in Calls' : net'[k] = net[j]
  <2>1. /\ \A k \in DOMAIN Others(i) : Skip(i, k) \in Calls /\ Others(i)[k] = net[Skip(i, k)]
        /\ \A k, l \in DOMAIN Others(i) : k # l => Skip(i, k) # Skip(i, l)
        /\ \A j \in Calls \ {i} : \E k \in DOMAIN Others(i) : Others(i)[k] = net[j]
    BY <1>2, Remaining
  <2>2. Calls' = DOMAIN Others(i)
    BY <1>1 DEF Calls
  <2>3. QED
    BY <1>1, <2>1, <2>2
<1>6. QED
  BY <1>1, <1>3, <1>4, <1>5 DEF f, DoesStay, Distinct

(* A list that follows an answer is alone, or the rows are stale.           *)
LEMMA ListAfter ==
    ASSUME Shape, NEW i \in Calls, NEW s, Keeps(s), NEW c, c.op = "list", Answer(i, s, <<c>>)
    PROVE  /\ db' = db /\ st'.busy = (s.busy \ net[i].flags) \cup c.flags
           /\ st'.stale \/ (c.q = s.q /\ \A k \in Calls' : net'[k] = c)
           /\ Distinct(c)
<1> DEFINE b == IF c.op = "list" THEN Others(i) # <<>> \/ c.q # s.q
                ELSE s.stale \/ net[i].status = "failed"
           f == (s.busy \ net[i].flags) \cup c.flags
<1>1. st' = [s EXCEPT !.stale = b, !.busy = f] /\ net' = Others(i) \o <<c>> /\ db' = db
  BY AnswerOne
<1>2. Fields \subseteq DOMAIN s /\ IsSeq(net)
  BY DEF Shape, IsState, Keeps
<1>3. b \/ (Others(i) = <<>> /\ c.q = s.q)
  OBVIOUS
<1> HIDE DEF b, f
<1>4. st'.busy = f /\ (b => st'.stale)
  BY <1>1, <1>2 DEF Fields
<1>5. /\ Len(net) \in Nat /\ Calls' = 1..Len(net)
      /\ \A k \in 1..(Len(net) - 1) : Skip(i, k) \in Calls /\ net'[k] = net[Skip(i, k)]
      /\ \A k, l \in 1..(Len(net) - 1) : k # l => Skip(i, k) # Skip(i, l)
      /\ net'[Len(net)] = c
      /\ Others(i) # <<>> \/ Calls = {i}
  BY <1>1, <1>2, Replaced
<1>6. \A k \in Calls' : net'[k] # c => k \in 1..(Len(net) - 1)
  BY <1>5
<1>7. Distinct(c)
  BY <1>5, <1>6 DEF Distinct
<1>8. ASSUME Others(i) = <<>> PROVE \A k \in Calls' : net'[k] = c
  <2>1. \A k \in Calls' : net'[k] = c \/ \E j \in Calls \ {i} : net'[k] = net[j]
    BY LeftOne
  <2>2. QED
    BY <1>5, <1>8, <2>1
<1>9. QED
  BY <1>1, <1>3, <1>4, <1>7, <1>8 DEF f

(* Every call but c was there before. *)
Comes(c) == \A k \in Calls' : net'[k] = c \/ \E j \in Calls : net'[k] = net[j]

-----------------------------------------------------------------------------
(* Payments *)

DecisionAsked == st.dlg = None \/ st.dlg.kind \in {"approve", "reject"}

(* The operators of the payments' page are those of Clients. *)
LEMMA PaymentsSame ==
    /\ \A op, flags, q, i, v : Payments!Write(op, flags, q, i, v) = Write(op, flags, q, i, v)
    /\ \A op, flags, q : Payments!Read(op, flags, q) = Read(op, flags, q)
    /\ \A s, calls : Payments!Do(s, calls) <=> Do(s, calls)
    /\ \A i, s, calls : Payments!Answer(i, s, calls) <=> Answer(i, s, calls)
    /\ \A v : Payments!OtherUser(v) <=> OtherUser(v)
    /\ \A t : Payments!Type(t) <=> Type(t)
    /\ Payments!Settle <=> Settle
    /\ \A f : Payments!Filter(f) <=> Filter(f)
    /\ \A p : Payments!Turn(p) <=> Turn(p)
    /\ \A i : Payments!Fetched(i) <=> Fetched(i)
    /\ \A k, i : Payments!Dialog(k, i) <=> Dialog(k, i)
    /\ Payments!Close <=> Close
    /\ \A p, s, rows : Payments!Mount(p, s, rows) <=> Mount(p, s, rows)
    /\ \A f : Payments!ListPage(f) = ListPage(f)
    /\ \A i, op : Payments!Ok(i, op) <=> Ok(i, op)
    /\ \A i, op : Payments!Failed(i, op) <=> Failed(i, op)
    /\ \A f : Payments!Idle(f) <=> Idle(f)
  BY DEF Payments!Write, Write, Payments!Read, Read, Payments!Do, Do,
         Payments!Send, Send, Payments!Sent, Sent, Payments!Flags, Flags,
         Payments!Range, Range, Payments!Answer, Answer, Payments!Others,
         Others, Payments!OtherUser, OtherUser, Payments!Type, Type,
         Payments!Settle, Settle, Payments!Effect, Effect, Payments!Fetch,
         Fetch, Payments!Filter, Filter, Payments!Turn, Turn,
         Payments!Fetched, Fetched, Payments!Ok, Ok, Payments!Failed, Failed,
         Payments!Show, Show, Payments!Dialog, Dialog, Payments!Close, Close,
         Payments!Mount, Mount, Payments!ListPage, ListPage, Payments!With,
         With, Payments!Blank, Blank, Payments!Idle, Idle

(* The payments' page when it appears. *)
LEMMA PaymentsInit ==
    ASSUME Payments!Init
    PROVE  Inv /\ page = "payments" /\ DecisionAsked
<1> DEFINE rows == [i \in Item |-> "pending"]
<1>1. PICK f \in Payments!Filters : Mount("payments", ListPage(f), rows)
  BY PaymentsSame DEF Payments!Init
<1> DEFINE s == ListPage(f)
<1>2. s = ListPage(f)
  OBVIOUS
<1>3. rows \in Records("payments") /\ "payments" \in Components
  BY DEF Records, ValuesOf, Payments!Values, Components
<1>4. Mount("payments", s, rows)
  BY <1>1
<1> HIDE DEF s, rows
<1>5. /\ IsState(s) /\ s.acts = 0 /\ s.busy = {} /\ s.list = [q |-> None, rows |-> None]
      /\ s.dlg = None /\ Searches(s)
  BY <1>2, ListPages
<1>6. Starts("payments", s, rows)
  BY <1>3, <1>5 DEF Starts
<1>7. Inv
  BY <1>4, <1>6, MountRule
<1>8. page = "payments" /\ st.dlg = None
  BY <1>4, <1>5 DEF Mount, Sent, IsState, Fields
<1>9. QED
  BY <1>7, <1>8 DEF DecisionAsked

(* Payments.tsx: every handler, timer and answer keeps the invariant, and   *)
(* the dialog asks to approve or to reject.                                 *)
LEMMA PaymentsStep ==
    ASSUME Inv, page = "payments", DecisionAsked, Payments!Next
    PROVE  Inv' /\ DecisionAsked'
<1>0. Shape /\ Quiet(st) /\ Keeps(st)
  BY StIsQuiet DEF Inv, Quiet
<1>1. ASSUME NEW t, Payments!TypeSearch(t) PROVE Inv' /\ DecisionAsked'
  BY <1>1, PaymentsSame, TypeRule DEF Payments!TypeSearch, DecisionAsked
<1>2. CASE Payments!Debounce
  BY <1>2, PaymentsSame, SettleRule DEF Payments!Debounce, DecisionAsked
<1>3. CASE Payments!CancelDialog
  BY <1>3, PaymentsSame, CloseRule DEF Payments!CancelDialog, DecisionAsked
<1>4. CASE Payments!handleConfirmAction
  <2> DEFINE d == Payments!Decision[st.dlg.kind]
             c == Write("decide", {"action"}, st.q, st.dlg.item, d)
  <2>1. Do(st, <<c>>)
    BY <1>4, PaymentsSame DEF Payments!handleConfirmAction
  <2>2. st.dlg # None /\ "action" \notin st.busy
    BY <1>4, PaymentsSame DEF Payments!handleConfirmAction, Payments!CanConfirm, Idle
  <2>3. d \in ValuesOf(page) \cup {None}
    BY <2>2 DEF DecisionAsked, Payments!Decision, ValuesOf, Payments!Values
  <2> HIDE DEF d
  <2>4. /\ "decide" \notin Reads \cup Payloads
        /\ {"action"} \cap Common = {} /\ {"action"} \cap st.busy = {}
        /\ page \notin Silent
    BY <2>2 DEF Reads, Lists, Payloads, Common, Silent, Mobile!Screens
  <2>5. Carries(page, c)
    BY WriteFields DEF Carries
  <2>6. c = Write("decide", {"action"}, st.q, st.dlg.item, d)
    OBVIOUS
  <2> HIDE DEF c
  <2>7. Inv' /\ st'.dlg = st.dlg
    BY <1>0, <2>1, <2>3, <2>4, <2>5, <2>6, WriteStep
  <2>8. QED
    BY <2>7 DEF DecisionAsked
<1>5. ASSUME NEW f, Payments!handleFilterChange(f) PROVE Inv' /\ DecisionAsked'
  BY <1>5, PaymentsSame, FilterRule DEF Payments!handleFilterChange, DecisionAsked
<1>6. ASSUME NEW p, Payments!Paginate(p) PROVE Inv' /\ DecisionAsked'
  BY <1>6, PaymentsSame, TurnRule DEF Payments!Paginate, DecisionAsked
<1>7. ASSUME NEW i, NEW a \in {"approve", "reject"}, Payments!openConfirm(a, i)
      PROVE  Inv' /\ DecisionAsked'
  <2>1. Dialog(a, i)
    BY <1>7, PaymentsSame DEF Payments!openConfirm
  <2>2. Inv' /\ st'.dlg = [kind |-> a, item |-> i]
    BY <2>1, DialogRule
  <2>3. QED
    BY <2>2 DEF DecisionAsked
<1>8. ASSUME NEW i \in Calls, Payments!Decided(i) PROVE Inv' /\ DecisionAsked'
  <2>1. CASE Failed(i, "decide") /\ Answer(i, st, <<>>)
    <3>1. Inv' /\ st'.dlg = st.dlg
      BY <1>0, <2>1, FailedStep DEF Failed
    <3>2. QED
      BY <3>1 DEF DecisionAsked
  <2> DEFINE s == [st EXCEPT !.dlg = None]
             c == Read("list", {"loading", "action"}, net[i].q)
  <2>2. CASE Ok(i, "decide") /\ Answer(i, s, <<c>>)
    <3>1. s = [st EXCEPT !.dlg = None] /\ Reading(c, "list", {"loading", "action"}, net[i].q)
      BY Readings
    <3> HIDE DEF s, c
    <3>2. Quiet(s) /\ s.dlg = None
      BY <3>1, SetsDialog
    <3>3. {"loading", "action"} \ Common \subseteq net[i].flags
      BY <2>2 DEF Inv, Shape, IsCall, Carries, Ok, Common
    <3>4. Inv' /\ st'.dlg = None
      BY <2>2, <3>1, <3>2, <3>3, ThenStep DEF Ok
    <3>5. QED
      BY <3>4 DEF DecisionAsked
  <2>3. QED
    BY <1>8, <2>1, <2>2, PaymentsSame DEF Payments!Decided
<1>9. ASSUME NEW i \in Calls, Payments!Fetched(i) PROVE Inv' /\ DecisionAsked'
  BY <1>9, PaymentsSame, FetchedRule DEF DecisionAsked
<1>10. CASE Payments!OtherUser(Payments!Values)
  <2>1. OtherUser(Payments!Values)
    BY <1>10, PaymentsSame
  <2>2. Payments!Values \subseteq ValuesOf(page)
    BY DEF ValuesOf
  <2>3. Inv' /\ st'.dlg = st.dlg
    BY <2>1, <2>2, OtherStep
  <2>4. QED
    BY <2>3 DEF DecisionAsked
<1>11. QED
  BY <1>1, <1>2, <1>3, <1>4, <1>5, <1>6, <1>7, <1>8, <1>9, <1>10 DEF Payments!Next, Payments!Calls, Calls

-----------------------------------------------------------------------------
(* Subscriptions *)

(* The operators of the subscriptions' page are those of Clients. *)
LEMMA SubscriptionsSame ==
    /\ \A op, flags, q, i, v : Subscriptions!Write(op, flags, q, i, v) = Write(op, flags, q, i, v)
    /\ \A op, flags, q : Subscriptions!Read(op, flags, q) = Read(op, flags, q)
    /\ \A s, calls : Subscriptions!Do(s, calls) <=> Do(s, calls)
    /\ \A i, s, calls : Subscriptions!Answer(i, s, calls) <=> Answer(i, s, calls)
    /\ \A v : Subscriptions!OtherUser(v) <=> OtherUser(v)
    /\ \A t : Subscriptions!Type(t) <=> Type(t)
    /\ Subscriptions!Settle <=> Settle
    /\ \A f : Subscriptions!Filter(f) <=> Filter(f)
    /\ \A p : Subscriptions!Turn(p) <=> Turn(p)
    /\ \A k, i : Subscriptions!Dialog(k, i) <=> Dialog(k, i)
    /\ Subscriptions!Close <=> Close
    /\ \A p, s, rows : Subscriptions!Mount(p, s, rows) <=> Mount(p, s, rows)
    /\ \A f : Subscriptions!ListPage(f) = ListPage(f)
    /\ \A s, own : Subscriptions!With(s, own) = With(s, own)
    /\ \A i, op : Subscriptions!Ok(i, op) <=> Ok(i, op)
    /\ \A i, op : Subscriptions!Failed(i, op) <=> Failed(i, op)
    /\ \A f : Subscriptions!Idle(f) <=> Idle(f)
    /\ \A k : Subscriptions!DialogIs(k) <=> DialogIs(k)
    /\ \A s, i : Subscriptions!Show(s, i) = Show(s, i)
  BY DEF Subscriptions!Write, Write, Subscriptions!Read, Read,
         Subscriptions!Do, Do, Subscriptions!Send, Send, Subscriptions!Sent,
         Sent, Subscriptions!Flags, Flags, Subscriptions!Range, Range,
         Subscriptions!Answer, Answer, Subscriptions!Others, Others,
         Subscriptions!OtherUser, OtherUser, Subscriptions!Type, Type,
         Subscriptions!Settle, Settle, Subscriptions!Effect, Effect,
         Subscriptions!Fetch, Fetch, Subscriptions!Filter, Filter,
         Subscriptions!Turn, Turn, Subscriptions!Dialog, Dialog,
         Subscriptions!Close, Close, Subscriptions!Mount, Mount,
         Subscriptions!ListPage, ListPage, Subscriptions!With, With,
         Subscriptions!Blank, Blank, Subscriptions!Ok, Ok,
         Subscriptions!Failed, Failed, Subscriptions!Idle, Idle,
         Subscriptions!DialogIs, DialogIs, Subscriptions!Show, Show

(* The subscriptions' page when it appears. *)
LEMMA SubscriptionsInit ==
    ASSUME Subscriptions!Init
    PROVE  Inv /\ page = "subscriptions" /\ OwnDialogs
<1>1. PICK f \in Subscriptions!Filters, i \in Item :
        Mount("subscriptions", With(ListPage(f), [reconnectingId |-> None]),
              [j \in Item |-> IF j = i THEN "suspended" ELSE "active"])
  BY SubscriptionsSame DEF Subscriptions!Init
<1> DEFINE u == ListPage(f)
           own == [reconnectingId |-> None]
           s == With(u, own)
           rows == [j \in Item |-> IF j = i THEN "suspended" ELSE "active"]
<1>2. u = ListPage(f) /\ s = With(u, own) /\ DOMAIN own = {"reconnectingId"}
  OBVIOUS
<1>3. rows \in Records("subscriptions") /\ "subscriptions" \in Components
  BY DEF Records, ValuesOf, Subscriptions!Values, Components
<1>4. Mount("subscriptions", s, rows)
  BY <1>1
<1> HIDE DEF s, rows, u, own
<1>5. /\ IsState(u) /\ u.acts = 0 /\ u.busy = {} /\ u.list = [q |-> None, rows |-> None]
      /\ Searches(u)
  BY <1>2, ListPages
<1>6. IsFcn(s) /\ DOMAIN s = DOMAIN u \cup DOMAIN own /\ \A g \in DOMAIN u \ DOMAIN own : s[g] = u[g]
  BY <1>2 DEF With, IsFcn
<1>7. /\ IsState(s) /\ s.acts = u.acts /\ s.busy = u.busy /\ s.list = u.list
      /\ Searches(s)
  <2>1. s.typed = u.typed /\ s.q = u.q /\ s.timer = u.timer
    BY <1>2, <1>5, <1>6 DEF IsState, Fields, Searches
  <2>2. Searches(s)
    BY <1>2, <1>5, <1>6, <2>1 DEF Searches
  <2>3. QED
    BY <1>2, <1>5, <1>6, <2>2 DEF IsState, Fields
<1>8. Starts("subscriptions", s, rows)
  BY <1>3, <1>5, <1>7 DEF Starts
<1>9. Inv
  BY <1>4, <1>8, MountRule
<1>10. page = "subscriptions" /\ net = <<Read("list", {"loading"}, s.q)>>
  BY <1>4 DEF Mount, Fetch
<1>11. \A k \in Calls : net[k].op = "list"
  BY <1>10, ReadFields DEF Calls
<1>12. QED
  BY <1>9, <1>10, <1>11 DEF OwnDialogs, Confirms

(* Subscriptions.tsx: a write that was confirmed in a dialog leaves it open *)
(* until its answer.                                                        *)
LEMMA SubscriptionsStep ==
    ASSUME Inv, page = "subscriptions", OwnDialogs, Subscriptions!Next
    PROVE  Inv' /\ OwnDialogs'
<1>0. Shape /\ Quiet(st) /\ Keeps(st) /\ IsFcn(st)
  BY StIsQuiet DEF Inv, Quiet, Keeps
<1> DEFINE Goal == Inv' /\ OwnDialogs'
<1>a. {"list"} \cap Confirmed = {}
  BY DEF Confirmed
<1>b. ASSUME st'.dlg = st.dlg, Gains({"list"}) PROVE OwnDialogs'
  BY <1>a, <1>b, DialogsKept
<1>c. ASSUME st.dlg = None, Gains({"list"}) PROVE OwnDialogs'
  <2>1. \A j \in Calls : ~Confirms(net[j])
    BY <1>c DEF OwnDialogs, DialogOf
  <2>2. QED
    BY <1>a, <1>c, <2>1, DialogsFree
<1>1. ASSUME NEW t, Subscriptions!TypeSearch(t) PROVE Goal
  BY <1>1, <1>b, SubscriptionsSame, TypeRule, SameGains DEF Subscriptions!TypeSearch
<1>2. CASE Subscriptions!Debounce
  BY <1>2, <1>b, SubscriptionsSame, SettleRule DEF Subscriptions!Debounce
<1>3. CASE Subscriptions!CloseDialog
  <2>1. Close /\ "submitting" \notin st.busy /\ "disconnecting" \notin st.busy
    BY <1>3, SubscriptionsSame DEF Subscriptions!CloseDialog, Idle
  <2>2. ASSUME NEW j \in Calls, Confirms(net[j]) PROVE FALSE
    <3>1. Carries(page, net[j])
      BY DEF Inv, Shape, IsCall
    <3>2. "submitting" \in net[j].flags \/ "disconnecting" \in net[j].flags
      BY <2>2, <3>1 DEF Confirms, Carries
    <3>3. QED
      BY <2>1, <3>2, BusyWith DEF Common
  <2>3. Inv' /\ Gains({"list"})
    BY <2>1, CloseRule, SameGains
  <2>4. QED
    BY <1>a, <2>2, <2>3, DialogsFree
<1>4. ASSUME NEW kind, NEW i, st.dlg = None, Dialog(kind, i) PROVE Goal
  BY <1>4, <1>c, DialogRule, SameGains
<1>5. CASE Subscriptions!openAdd
  BY <1>4, <1>5, SubscriptionsSame DEF Subscriptions!openAdd, Subscriptions!Uncovered
<1>6. ASSUME NEW i, Subscriptions!openEdit(i) \/ Subscriptions!confirmDisconnect(i) PROVE Goal
  BY <1>4, <1>6, SubscriptionsSame
  DEF Subscriptions!openEdit, Subscriptions!confirmDisconnect, Subscriptions!Uncovered
<1>7. ASSUME NEW op \in {"save", "disconnect"}, NEW flag \in {"submitting", "disconnecting"},
             flag = IF op = "save" THEN "submitting" ELSE "disconnecting",
             NEW v \in {None, "suspended"}, flag \notin st.busy,
             st.dlg # None, st.dlg.kind = IF op = "save" THEN "form" ELSE op,
             NEW c, c = Write(op, {flag}, st.q, st.dlg.item, v), Do(st, <<c>>)
      PROVE  Goal
  <2>1. c.op = op /\ c.flags = {flag} /\ c.item = st.dlg.item
    BY <1>7, WriteFields
  <2>2. Carries(page, c)
    BY <1>7, <2>1 DEF Carries
  <2>3. /\ op \notin Reads \cup Payloads /\ {flag} \cap Common = {} /\ {flag} \cap st.busy = {}
        /\ page \notin Silent /\ v \in ValuesOf(page) \cup {None}
    BY <1>7 DEF Reads, Lists, Payloads, Common, Silent, Mobile!Screens, ValuesOf, Subscriptions!Values
  <2>4. /\ Inv' /\ st'.dlg = st.dlg /\ After(st)
        /\ \A k \in Calls' : net'[k] = c \/ \E j \in Calls : net'[k] = net[j]
    BY <1>0, <1>7, <2>2, <2>3, WriteStep
  <2>5. DialogOf(c)
    BY <1>7, <2>1 DEF DialogOf
  <2>6. OwnDialogs'
    BY <2>4, <2>5, DialogsSent DEF After
  <2>7. QED
    BY <2>4, <2>6
<1>8. CASE Subscriptions!handleSubmit
  <2>1. /\ st.dlg # None /\ st.dlg.kind = "form" /\ "submitting" \notin st.busy
        /\ Do(st, <<Write("save", {"submitting"}, st.q, st.dlg.item, None)>>)
    BY <1>8, SubscriptionsSame DEF Subscriptions!handleSubmit, DialogIs, Idle
  <2>2. QED
    BY <1>7, <2>1
<1>9. CASE Subscriptions!handleDisconnectConfirmed
  <2>1. /\ st.dlg # None /\ st.dlg.kind = "disconnect" /\ "disconnecting" \notin st.busy
        /\ Do(st, <<Write("disconnect", {"disconnecting"}, st.q, st.dlg.item, "suspended")>>)
    BY <1>9, SubscriptionsSame DEF Subscriptions!handleDisconnectConfirmed, DialogIs, Idle
  <2>2. QED
    BY <1>7, <2>1
<1>10. ASSUME NEW f, Subscriptions!handleFilterChange(f) PROVE Goal
  BY <1>10, <1>b, SubscriptionsSame, FilterRule DEF Subscriptions!handleFilterChange
<1>11. ASSUME NEW p, Subscriptions!Paginate(p) PROVE Goal
  BY <1>11, <1>b, SubscriptionsSame, TurnRule DEF Subscriptions!Paginate
<1>12. ASSUME NEW i, Subscriptions!handleReconnect(i) PROVE Goal
  <2> DEFINE s == [st EXCEPT !.reconnectingId = i]
             flags == {}
             v == "active"
             c == Write("reconnect", flags, st.q, i, v)
  <2>1. /\ s = [st EXCEPT !.reconnectingId = i] /\ c = Write("reconnect", flags, st.q, i, v)
        /\ Do(s, <<c>>) /\ flags \cap Common = {} /\ flags \cap st.busy = {}
    BY <1>12, SubscriptionsSame DEF Subscriptions!handleReconnect
  <2> HIDE DEF s, c, flags, v
  <2>2. Quiet(s) /\ s.dlg = st.dlg
    BY <1>0, <2>1, SetsField DEF Fields, Shape, IsState
  <2>3. c.op = "reconnect"
    BY <2>1, WriteFields
  <2>4. Carries(page, c)
    BY <2>3 DEF Carries
  <2>5. /\ "reconnect" \notin Reads \cup Payloads
        /\ page \notin Silent /\ v \in ValuesOf(page) \cup {None}
    BY DEF v, Reads, Lists, Payloads, Silent, Mobile!Screens, ValuesOf, Subscriptions!Values
  <2>6. c = Write("reconnect", flags, st.q, i, v) /\ Do(s, <<c>>) /\ flags \cap Common = {} /\ flags \cap st.busy = {}
    BY <2>1
  <2>7. /\ Inv' /\ st'.dlg = s.dlg /\ After(s)
        /\ \A k \in Calls' : net'[k] = c \/ \E j \in Calls : net'[k] = net[j]
    BY <2>2, <2>4, <2>5, <2>6, WriteStep
  <2>8. OwnDialogs'
    <3>1. ~Confirms(c) /\ page' = page /\ st'.dlg = st.dlg
      BY <2>2, <2>3, <2>7 DEF After, Confirms
    <3>2. QED
      BY <2>7, <3>1, DialogsSent
  <2>9. QED
    BY <2>7, <2>8
<1>13. ASSUME NEW i \in Calls, Subscriptions!Saved(i) PROVE Goal
  <2>1. CASE (Failed(i, "save") \/ Failed(i, "disconnect")) /\ Answer(i, st, <<>>)
    BY <1>0, <1>b, <2>1, FailedStep, LeavesGains DEF Failed
  <2>2. CASE /\ Ok(i, "save") \/ Ok(i, "disconnect")
             /\ Answer(i, [st EXCEPT !.dlg = None], <<Read("list", {"loading"} \cup net[i].flags, net[i].q)>>)
    <3> DEFINE s == [st EXCEPT !.dlg = None]
               flags == {"loading"} \cup net[i].flags
               c == Read("list", flags, net[i].q)
    <3>1. s = [st EXCEPT !.dlg = None] /\ Reading(c, "list", flags, net[i].q) /\ Answer(i, s, <<c>>)
      BY <2>2, Readings
    <3>2. flags \ Common \subseteq net[i].flags
      BY DEF Common
    <3> HIDE DEF s, c, flags
    <3>3. Quiet(s)
      BY <3>1, SetsDialog
    <3>4. Inv' /\ Leaves(i, {"list"})
      BY <2>2, <3>1, <3>2, <3>3, ThenStep DEF Ok
    <3>5. Confirms(net[i])
      BY <2>2 DEF Ok, Confirms
    <3>6. QED
      BY <1>a, <3>4, <3>5, DialogsAnswered
  <2>3. QED
    BY <1>13, <2>1, <2>2, SubscriptionsSame DEF Subscriptions!Saved
<1>14. ASSUME NEW i \in Calls, Subscriptions!Reconnected(i) PROVE Goal
  <2>1. CASE Failed(i, "reconnect") /\ Answer(i, [st EXCEPT !.reconnectingId = None], <<>>)
    <3> DEFINE s == [st EXCEPT !.reconnectingId = None]
    <3>1. s = [st EXCEPT !.reconnectingId = None]
      OBVIOUS
    <3> HIDE DEF s
    <3>2. Quiet(s) /\ s.dlg = st.dlg
      BY <1>0, <3>1, SetsField DEF Fields, Shape, IsState
    <3>3. Inv' /\ st'.dlg = st.dlg /\ Gains({"list"})
      BY <2>1, <3>1, <3>2, FailedStep, LeavesGains DEF Failed
    <3>4. QED
      BY <1>b, <3>3
  <2>2. CASE /\ Ok(i, "reconnect")
             /\ Answer(i, st, <<[Read("list", {"loading"}, net[i].q) EXCEPT !.item = net[i].item]>>)
    <3> DEFINE c == [Read("list", {"loading"}, net[i].q) EXCEPT !.item = net[i].item]
    <3>1. Reading(c, "list", {"loading"}, net[i].q) /\ Answer(i, st, <<c>>)
      BY <2>2, Readings
    <3> HIDE DEF c
    <3>2. {"loading"} \ Common \subseteq net[i].flags
      BY DEF Common
    <3>3. Inv' /\ st'.dlg = st.dlg /\ Gains({"list"})
      BY <1>0, <2>2, <3>1, <3>2, ThenStep, LeavesGains DEF Ok
    <3>4. QED
      BY <1>b, <3>3
  <2>3. QED
    BY <1>14, <2>1, <2>2, SubscriptionsSame DEF Subscriptions!Reconnected
<1>15. ASSUME NEW i \in Calls, Subscriptions!fetchData(i) PROVE Goal
  <2> DEFINE u == IF net[i].item = None THEN st ELSE [st EXCEPT !.reconnectingId = None]
             s == Show(u, i)
  <2>1. Quiet(u) /\ u.dlg = st.dlg
    <3> DEFINE w == [st EXCEPT !.reconnectingId = None]
    <3>1. w = [st EXCEPT !.reconnectingId = None]
      OBVIOUS
    <3> HIDE DEF w
    <3>2. Quiet(w) /\ w.dlg = st.dlg
      BY <1>0, <3>1, SetsField DEF Fields, Shape, IsState
    <3>3. u = st \/ u = w
      BY DEF w
    <3>4. QED
      BY <1>0, <3>2, <3>3
  <2>2. (Ok(i, "list") /\ Answer(i, s, <<>>)) \/ (Failed(i, "list") /\ Answer(i, u, <<>>))
    BY <1>15, SubscriptionsSame DEF Subscriptions!fetchData
  <2>3. s = Show(u, i)
    OBVIOUS
  <2> HIDE DEF s, u
  <2>4. Keeps(s) /\ s.q = st.q /\ s.list = [q |-> net[i].q, rows |-> net[i].rows] /\ s.dlg = st.dlg
    BY <2>1, <2>3, ShowsQuiet
  <2>5. Inv' /\ st'.dlg = st.dlg /\ Gains({"list"})
    <3>1. CASE Ok(i, "list") /\ Answer(i, s, <<>>)
      BY <2>4, <3>1, ShownStep, LeavesGains
    <3>2. CASE Failed(i, "list") /\ Answer(i, u, <<>>)
      BY <2>1, <3>2, FailedStep, LeavesGains DEF Failed
    <3>3. QED
      BY <2>2, <3>1, <3>2
  <2>6. QED
    BY <1>b, <2>5
<1>16. CASE Subscriptions!OtherUser(Subscriptions!Values)
  <2>1. OtherUser(Subscriptions!Values) /\ Subscriptions!Values \subseteq ValuesOf(page)
    BY <1>16, SubscriptionsSame DEF ValuesOf
  <2>2. Inv' /\ st'.dlg = st.dlg /\ Gains({"list"})
    BY <1>0, <2>1, OtherStep, SameGains DEF After
  <2>3. QED
    BY <1>b, <2>2
<1>17. QED
  BY <1>1, <1>2, <1>3, <1>5, <1>6, <1>8, <1>9, <1>10, <1>11, <1>12, <1>13, <1>14, <1>15, <1>16
  DEF Subscriptions!Next, Subscriptions!Calls, Calls

-----------------------------------------------------------------------------
(* Customers *)

(* The operators of the customers' page are those of Clients. *)
LEMMA CustomersSame ==
    /\ \A op, flags, q, i, v : Customers!Write(op, flags, q, i, v) = Write(op, flags, q, i, v)
    /\ \A op, flags, q : Customers!Read(op, flags, q) = Read(op, flags, q)
    /\ \A s, calls : Customers!Do(s, calls) <=> Do(s, calls)
    /\ \A i, s, calls : Customers!Answer(i, s, calls) <=> Answer(i, s, calls)
    /\ \A v : Customers!OtherUser(v) <=> OtherUser(v)
    /\ \A t : Customers!Type(t) <=> Type(t)
    /\ Customers!Settle <=> Settle
    /\ \A f : Customers!Filter(f) <=> Filter(f)
    /\ \A p : Customers!Turn(p) <=> Turn(p)
    /\ \A i : Customers!Fetched(i) <=> Fetched(i)
    /\ \A k, i : Customers!Dialog(k, i) <=> Dialog(k, i)
    /\ Customers!Close <=> Close
    /\ \A p, s, rows : Customers!Mount(p, s, rows) <=> Mount(p, s, rows)
    /\ \A f : Customers!ListPage(f) = ListPage(f)
    /\ \A i, op : Customers!Ok(i, op) <=> Ok(i, op)
    /\ \A i, op : Customers!Failed(i, op) <=> Failed(i, op)
    /\ \A f : Customers!Idle(f) <=> Idle(f)
    /\ \A k : Customers!DialogIs(k) <=> DialogIs(k)
  BY DEF Customers!Write, Write, Customers!Read, Read, Customers!Do, Do,
         Customers!Send, Send, Customers!Sent, Sent, Customers!Flags, Flags,
         Customers!Range, Range, Customers!Answer, Answer, Customers!Others,
         Others, Customers!OtherUser, OtherUser, Customers!Type, Type,
         Customers!Settle, Settle, Customers!Effect, Effect, Customers!Fetch,
         Fetch, Customers!Filter, Filter, Customers!Turn, Turn,
         Customers!Fetched, Fetched, Customers!Ok, Ok, Customers!Failed,
         Failed, Customers!Show, Show, Customers!Dialog, Dialog,
         Customers!Close, Close, Customers!Mount, Mount, Customers!ListPage,
         ListPage, Customers!With, With, Customers!Blank, Blank,
         Customers!Idle, Idle, Customers!DialogIs, DialogIs

(* The customers' page when it appears. *)
LEMMA CustomersInit == ASSUME Customers!Init PROVE Inv
<1> DEFINE rows(i) == [j \in Item |-> IF j = i THEN "inactive" ELSE "active"]
<1>1. PICK i \in Item : Mount("customers", ListPage("all"), rows(i))
  BY CustomersSame DEF Customers!Init
<1> DEFINE s == ListPage("all")
           r == rows(i)
<1>2. s = ListPage("all") /\ Mount("customers", s, r)
  BY <1>1
<1>3. r \in Records("customers") /\ "customers" \in Components
  BY DEF Records, ValuesOf, Customers!Values, Components
<1> HIDE DEF s, r, rows
<1>4. /\ IsState(s) /\ s.acts = 0 /\ s.busy = {} /\ s.list = [q |-> None, rows |-> None]
      /\ Searches(s)
  BY <1>2, ListPages
<1>5. Starts("customers", s, r)
  BY <1>3, <1>4 DEF Starts
<1>6. QED
  BY <1>2, <1>5, MountRule

(* Customers.tsx: every handler, timer and answer keeps the invariant. *)
LEMMA CustomersStep == ASSUME Inv, page = "customers", Customers!Next PROVE Inv'
<1>0. Shape /\ Quiet(st) /\ Keeps(st) /\ IsFcn(st)
  BY StIsQuiet DEF Inv, Quiet, Keeps
<1>1. ASSUME NEW t, Customers!TypeSearch(t) PROVE Inv'
  BY <1>1, CustomersSame, TypeRule DEF Customers!TypeSearch
<1>2. CASE Customers!Debounce
  BY <1>2, CustomersSame, SettleRule DEF Customers!Debounce
<1>3. CASE Customers!CloseDialog
  BY <1>3, CustomersSame, CloseRule DEF Customers!CloseDialog
<1>4. ASSUME NEW f, Customers!setStatusFilter(f) PROVE Inv'
  BY <1>4, CustomersSame, FilterRule DEF Customers!setStatusFilter
<1>5. ASSUME NEW p, Customers!Paginate(p) PROVE Inv'
  BY <1>5, CustomersSame, TurnRule DEF Customers!Paginate
<1>6. ASSUME NEW i, Customers!Form(i) PROVE Inv'
  <2> DEFINE s == [st EXCEPT !.dlg = [kind |-> "form", item |-> i, pin |-> None]]
  <2>1. s = [st EXCEPT !.dlg = [kind |-> "form", item |-> i, pin |-> None]] /\ Do(s, <<>>)
    BY <1>6, CustomersSame DEF Customers!Form
  <2> HIDE DEF s
  <2>2. Quiet(s)
    BY <2>1, SetsDialog
  <2>3. QED
    BY <2>1, <2>2, StateRule
<1>7. ASSUME NEW i, Customers!setDeleteTarget(i) PROVE Inv'
  BY <1>7, CustomersSame, DialogRule DEF Customers!setDeleteTarget
<1>8. CASE Customers!handleGetLocation
  <2> DEFINE c == [Read("locate", {"geoLoading"}, st.q) EXCEPT !.item = st.dlg.item]
  <2>1. Do(st, <<c>>)
    BY <1>8, CustomersSame DEF Customers!handleGetLocation
  <2>2. Reading(c, "locate", {"geoLoading"}, st.q)
    BY Readings
  <2>3. "locate" \in Plain /\ {"geoLoading"} \subseteq Common
    BY DEF Plain, Reads, Lists, Common
  <2> HIDE DEF c
  <2>4. QED
    BY <1>0, <2>1, <2>2, <2>3, ReadRule DEF Quiet
<1>9. ASSUME NEW i \in Calls, Customers!Located(i) PROVE Inv'
  <2>1. CASE Failed(i, "locate") /\ Answer(i, st, <<>>)
    BY <1>0, <2>1, FailedRule DEF Failed
  <2> DEFINE s == [st EXCEPT !.dlg = [st.dlg EXCEPT !.pin = <<net[i].item>>]]
             u == IF Customers!DialogIs("form") THEN s ELSE st
  <2>2. CASE Ok(i, "locate") /\ Answer(i, u, <<>>)
    <3>1. s = [st EXCEPT !.dlg = [st.dlg EXCEPT !.pin = <<net[i].item>>]] /\ (u = s \/ u = st)
      OBVIOUS
    <3> HIDE DEF s, u
    <3>2. Quiet(u)
      BY <1>0, <3>1, SetsDialog
    <3>3. ~Listing(net[i]) /\ ~Changes(net[i])
      BY <1>0, <2>2 DEF Ok, Shape, IsCall, Listing, Changes, Reads, Payloads
    <3>4. QED
      BY <2>2, <3>2, <3>3, AsideRule DEF Ok
  <2>3. QED
    BY <1>9, <2>1, <2>2, CustomersSame DEF Customers!Located
<1>10. CASE Customers!handleSubmit
  <2> DEFINE d == st.dlg.item
             v == None
             c == Write("save", {"submitting"}, st.q, d, v)
  <2>1. Do(st, <<c>>) /\ "submitting" \notin st.busy
    BY <1>10, CustomersSame DEF Customers!handleSubmit, Idle
  <2>2. c = Write("save", {"submitting"}, st.q, d, v) /\ Carries(page, c)
    BY WriteFields DEF Carries
  <2>3. /\ "save" \notin Reads \cup Payloads /\ {"submitting"} \cap Common = {}
        /\ {"submitting"} \cap st.busy = {} /\ page \notin Silent /\ v \in ValuesOf(page) \cup {None}
    BY <2>1 DEF Reads, Lists, Payloads, Common, Silent, Mobile!Screens, ValuesOf
  <2> HIDE DEF c, v, d
  <2>4. QED
    BY <1>0, <2>1, <2>2, <2>3, WriteStep
<1>11. CASE Customers!handleDelete
  <2> DEFINE d == st.dlg.item
             v == "gone"
             flags == {"deleting"}
             c == Write("delete", flags, st.q, d, v)
  <2>1. Do(st, <<c>>) /\ flags \cap Common = {} /\ flags \cap st.busy = {}
    BY <1>11, CustomersSame DEF Customers!handleDelete, Idle, Common
  <2>2. c = Write("delete", flags, st.q, d, v) /\ Carries(page, c)
    BY WriteFields DEF Carries
  <2>3. "delete" \notin Reads \cup Payloads /\ page \notin Silent /\ v \in ValuesOf(page) \cup {None}
    BY DEF Reads, Lists, Payloads, Silent, Mobile!Screens, ValuesOf, Customers!Values
  <2> HIDE DEF c, v, d, flags
  <2>4. QED
    BY <1>0, <2>1, <2>2, <2>3, WriteStep
<1>12. ASSUME NEW i \in Calls, Customers!Written(i) PROVE Inv'
  <2>1. CASE (Failed(i, "save") \/ Failed(i, "delete")) /\ Answer(i, st, <<>>)
    BY <1>0, <2>1, FailedRule DEF Failed
  <2> DEFINE closes == IF net[i].op = "save" THEN "form" ELSE "delete"
             s == IF DialogIs(closes) THEN [st EXCEPT !.dlg = None] ELSE st
             flags == {"loading"} \cup net[i].flags
             c == Read("list", flags, net[i].q)
  <2>2. CASE (Ok(i, "save") \/ Ok(i, "delete")) /\ Answer(i, s, <<c>>)
    <3>1. Reading(c, "list", flags, net[i].q) /\ flags \ Common \subseteq net[i].flags
      BY Readings DEF Common
    <3>2. Quiet(s)
      BY <1>0, ClosedQuiet
    <3> HIDE DEF s, c, flags
    <3>3. QED
      BY <2>2, <3>1, <3>2, ThenRule DEF Ok
  <2>3. QED
    BY <1>12, <2>1, <2>2, CustomersSame DEF Customers!Written
<1>13. ASSUME NEW i \in Calls, Customers!fetchUsers(i) PROVE Inv'
  BY <1>13, CustomersSame, FetchedRule DEF Customers!fetchUsers
<1>14. CASE Customers!OtherUser(Customers!Values \ {"gone"})
  <2>1. OtherUser(Customers!Values \ {"gone"}) /\ (Customers!Values \ {"gone"}) \subseteq ValuesOf(page)
    BY <1>14, CustomersSame DEF ValuesOf, Customers!Values
  <2>2. QED
    BY <2>1, OtherRule
<1>15. QED
  BY <1>1, <1>2, <1>3, <1>4, <1>5, <1>6, <1>7, <1>8, <1>9, <1>10, <1>11, <1>12, <1>13, <1>14
  DEF Customers!Next, Customers!openAdd, Customers!openEdit, Customers!Calls, Calls

-----------------------------------------------------------------------------
(* Staff *)

(* The operators of the staff's page are those of Clients. *)
LEMMA StaffSame ==
    /\ \A op, flags, q, i, v : Staff!Write(op, flags, q, i, v) = Write(op, flags, q, i, v)
    /\ \A op, flags, q : Staff!Read(op, flags, q) = Read(op, flags, q)
    /\ \A s, calls : Staff!Do(s, calls) <=> Do(s, calls)
    /\ \A i, s, calls : Staff!Answer(i, s, calls) <=> Answer(i, s, calls)
    /\ \A v : Staff!OtherUser(v) <=> OtherUser(v)
    /\ \A t : Staff!Type(t) <=> Type(t)
    /\ Staff!Settle <=> Settle
    /\ \A f : Staff!Filter(f) <=> Filter(f)
    /\ \A p : Staff!Turn(p) <=> Turn(p)
    /\ \A k, i : Staff!Dialog(k, i) <=> Dialog(k, i)
    /\ Staff!Close <=> Close
    /\ \A p, s, rows : Staff!Mount(p, s, rows) <=> Mount(p, s, rows)
    /\ \A f : Staff!ListPage(f) = ListPage(f)
    /\ \A i, op : Staff!Ok(i, op) <=> Ok(i, op)
    /\ \A i, op : Staff!Failed(i, op) <=> Failed(i, op)
    /\ \A f : Staff!Idle(f) <=> Idle(f)
    /\ \A k : Staff!DialogIs(k) <=> DialogIs(k)
    /\ \A s, i : Staff!Show(s, i) = Show(s, i)
  BY DEF Staff!Write, Write, Staff!Read, Read, Staff!Do, Do, Staff!Send, Send,
         Staff!Sent, Sent, Staff!Flags, Flags, Staff!Range, Range,
         Staff!Answer, Answer, Staff!Others, Others, Staff!OtherUser,
         OtherUser, Staff!Type, Type, Staff!Settle, Settle, Staff!Effect,
         Effect, Staff!Fetch, Fetch, Staff!Filter, Filter, Staff!Turn, Turn,
         Staff!Dialog, Dialog, Staff!Close, Close, Staff!Mount, Mount,
         Staff!ListPage, ListPage, Staff!With, With, Staff!Blank, Blank,
         Staff!Ok, Ok, Staff!Failed, Failed, Staff!Idle, Idle, Staff!DialogIs,
         DialogIs, Staff!Show, Show

(* The staff's page when it appears. *)
LEMMA StaffInit == ASSUME Staff!Init PROVE Inv
<1> DEFINE rows(i) == [j \in Item |-> IF j = i THEN "technician" ELSE "admin"]
<1>1. PICK i \in Item : Mount("staff", ListPage("all"), rows(i))
  BY StaffSame DEF Staff!Init
<1> DEFINE s == ListPage("all")
           r == rows(i)
<1>2. s = ListPage("all") /\ Mount("staff", s, r)
  BY <1>1
<1>3. r \in Records("staff") /\ "staff" \in Components
  BY DEF Records, ValuesOf, Staff!Values, Staff!Roles, Components
<1> HIDE DEF s, r, rows
<1>4. /\ IsState(s) /\ s.acts = 0 /\ s.busy = {} /\ s.list = [q |-> None, rows |-> None]
      /\ Searches(s)
  BY <1>2, ListPages
<1>5. Starts("staff", s, r)
  BY <1>3, <1>4 DEF Starts
<1>6. QED
  BY <1>2, <1>5, MountRule

(* The staff's page: so does the second list, of technicians, that is put   *)
(* behind the first.                                                        *)
LEMMA StaffStep == ASSUME Inv, page = "staff", Staff!Next PROVE Inv'
<1>0. Shape /\ Quiet(st) /\ Keeps(st) /\ IsFcn(st)
  BY StIsQuiet DEF Inv, Quiet, Keeps
<1>1. ASSUME NEW t, Staff!TypeSearch(t) PROVE Inv'
  BY <1>1, StaffSame, TypeRule DEF Staff!TypeSearch
<1>2. CASE Staff!Debounce
  BY <1>2, StaffSame, SettleRule DEF Staff!Debounce
<1>3. CASE Staff!CloseDialog
  BY <1>3, StaffSame, CloseRule DEF Staff!CloseDialog
<1>4. ASSUME NEW f, Staff!setRoleFilter(f) PROVE Inv'
  BY <1>4, StaffSame, FilterRule DEF Staff!setRoleFilter
<1>5. ASSUME NEW p, Staff!Paginate(p) PROVE Inv'
  BY <1>5, StaffSame, TurnRule DEF Staff!Paginate
<1>6. CASE Staff!openAdd
  BY <1>6, StaffSame, DialogRule DEF Staff!openAdd
<1>7. ASSUME NEW i, Staff!openEdit(i) \/ Staff!setDeleteConfirm(i) PROVE Inv'
  BY <1>7, StaffSame, DialogRule DEF Staff!openEdit, Staff!setDeleteConfirm
<1>8. ASSUME NEW role \in Staff!Roles, Staff!handleSubmit(role) PROVE Inv'
  <2> DEFINE d == st.dlg.item
             v == IF st.dlg.item = None THEN None ELSE role
             c == Write("save", {"submitting"}, st.q, d, v)
  <2>1. Do(st, <<c>>) /\ "submitting" \notin st.busy
    BY <1>8, StaffSame DEF Staff!handleSubmit, Idle
  <2>2. c = Write("save", {"submitting"}, st.q, d, v) /\ Carries(page, c)
    BY WriteFields DEF Carries
  <2>3. /\ "save" \notin Reads \cup Payloads /\ {"submitting"} \cap Common = {}
        /\ {"submitting"} \cap st.busy = {} /\ page \notin Silent /\ v \in ValuesOf(page) \cup {None}
    BY <2>1 DEF Reads, Lists, Payloads, Common, Silent, Mobile!Screens, ValuesOf, Staff!Values
  <2> HIDE DEF c, v, d
  <2>4. QED
    BY <1>0, <2>1, <2>2, <2>3, WriteStep
<1>9. CASE Staff!handleDelete
  <2> DEFINE d == st.dlg.item
             v == "gone"
             flags == {}
             c == Write("delete", flags, st.q, d, v)
  <2>1. Do(st, <<c>>) /\ flags \cap Common = {} /\ flags \cap st.busy = {}
    BY <1>9, StaffSame DEF Staff!handleDelete, Idle, Common
  <2>2. c = Write("delete", flags, st.q, d, v) /\ Carries(page, c)
    BY WriteFields DEF Carries
  <2>3. "delete" \notin Reads \cup Payloads /\ page \notin Silent /\ v \in ValuesOf(page) \cup {None}
    BY DEF Reads, Lists, Payloads, Silent, Mobile!Screens, ValuesOf, Staff!Values
  <2> HIDE DEF c, v, d, flags
  <2>4. QED
    BY <1>0, <2>1, <2>2, <2>3, WriteStep
<1>10. ASSUME NEW i \in Calls, Staff!Written(i) PROVE Inv'
  <2>1. CASE (Failed(i, "save") \/ Failed(i, "delete")) /\ Answer(i, st, <<>>)
    BY <1>0, <2>1, FailedRule DEF Failed
  <2> DEFINE closes == IF net[i].op = "save" THEN "form" ELSE "delete"
             s == IF DialogIs(closes) THEN [st EXCEPT !.dlg = None] ELSE st
             flags == {"loading"} \cup net[i].flags
             c == Read("list", flags, net[i].q)
  <2>2. CASE (Ok(i, "save") \/ Ok(i, "delete")) /\ Answer(i, s, <<c>>)
    <3>1. Reading(c, "list", flags, net[i].q) /\ flags \ Common \subseteq net[i].flags
      BY Readings DEF Common
    <3>2. Quiet(s)
      BY <1>0, ClosedQuiet
    <3> HIDE DEF s, c, flags
    <3>3. QED
      BY <2>2, <3>1, <3>2, ThenRule DEF Ok
  <2>3. QED
    BY <1>10, <2>1, <2>2, StaffSame DEF Staff!Written
<1>11. ASSUME NEW i \in Calls, Staff!fetchUsers(i) PROVE Inv'
  <2>1. CASE (Failed(i, "list") \/ Failed(i, "techs")) /\ Answer(i, st, <<>>)
    BY <1>0, <2>1, FailedRule DEF Failed
  <2>2. CASE Ok(i, "list") /\ Answer(i, Show(st, i), <<>>)
    <3> DEFINE s == Show(st, i)
    <3>1. s = Show(st, i)
      OBVIOUS
    <3> HIDE DEF s
    <3>2. Keeps(s) /\ s.q = st.q /\ s.list = [q |-> net[i].q, rows |-> net[i].rows]
      BY <3>1, ShowKeeps
    <3>3. QED
      BY <2>2, <3>1, <3>2, ShownRule
  <2> DEFINE c == [Read("techs", net[i].flags, net[i].q) EXCEPT !.item = net[i].rows]
  <2>3. CASE Ok(i, "list") /\ Answer(i, st, <<c>>)
    <3>1. c = ReadOf("techs", net[i].flags, net[i].q, net[i].rows)
      BY DEF ReadOf
    <3> HIDE DEF c
    <3>2. /\ IsFcn(c) /\ DOMAIN c = CallFields
          /\ c.op = "techs" /\ c.flags = net[i].flags /\ c.q = net[i].q /\ c.item = net[i].rows
          /\ c.to = None /\ c.status = "sent"
      BY <3>1, ReadOfFields
    <3>3. net[i].op = "list" /\ net[i].status = "ok" /\ net[i].rows \in Records(page)
      BY <1>0, <2>3 DEF Ok, Shape, IsCall, Lists
    <3>4. IsCall(page, c) /\ ~Changes(c)
      BY <3>2, <3>3 DEF IsCall, Carries, Changes, Reads, Lists, Payloads
    <3>5. Continues(i, st, c)
      BY <1>0, <3>2, <3>3, <3>4 DEF Continues, Quiet, Own
    <3>6. QED
      BY <2>3, <3>3, <3>5, ContinuesRule
  <2> DEFINE s == [st EXCEPT !.list = [q |-> net[i].q, rows |-> Staff!Combined(net[i].item, net[i].rows)]]
  <2>4. CASE Ok(i, "techs") /\ Answer(i, s, <<>>)
    <3> DEFINE rows == Staff!Combined(net[i].item, net[i].rows)
    <3>1. rows \in Records(page)
      BY DEF Staff!Combined, Records, ValuesOf, Staff!Values, Staff!Roles
    <3> HIDE DEF rows
    <3>2. /\ IsFcn(s) /\ DOMAIN s = DOMAIN st /\ s.list = [q |-> net[i].q, rows |-> rows]
          /\ \A f \in DOMAIN st \ {"list"} : s[f] = st[f]
      BY <1>0 DEF rows, Shape, IsState, Fields, IsFcn
    <3> HIDE DEF s
    <3>3. Fields \subseteq DOMAIN st
      BY <1>0 DEF Shape, IsState
    <3>4. s.acts = st.acts /\ s.stale = st.stale /\ s.busy = st.busy /\ s.q = st.q
      BY <3>2, <3>3 DEF Fields
    <3>5. Searches(s)
      BY <3>2, <3>3 DEF Inv, Search, Searching, Searches, Fields
    <3>6. Keeps(s)
      BY <1>0, <3>2, <3>4, <3>5 DEF Keeps, Shape
    <3>7. net[i].op = "techs" /\ net[i].status = "ok"
      BY <2>4 DEF Ok
    <3>8. Ends(i, s)
      BY <3>1, <3>2, <3>4, <3>6, <3>7 DEF Ends, rows
    <3>9. QED
      BY <2>4, <3>7, <3>8, EndsRule
  <2>5. QED
    BY <1>11, <2>1, <2>2, <2>3, <2>4, StaffSame DEF Staff!fetchUsers
<1>12. CASE Staff!OtherUser(Staff!Roles)
  <2>1. OtherUser(Staff!Roles) /\ Staff!Roles \subseteq ValuesOf(page)
    BY <1>12, StaffSame DEF ValuesOf, Staff!Values
  <2>2. QED
    BY <2>1, OtherRule
<1>13. QED
  BY <1>1, <1>2, <1>3, <1>4, <1>5, <1>6, <1>7, <1>8, <1>9, <1>10, <1>11, <1>12
  DEF Staff!Next, Staff!Calls, Calls

-----------------------------------------------------------------------------
(* The router *)

(* The operators of the router's page are those of Clients. *)
LEMMA MikroTikSame ==
    /\ \A op, flags, q, i, v : MikroTik!Write(op, flags, q, i, v) = Write(op, flags, q, i, v)
    /\ \A op, flags, q : MikroTik!Read(op, flags, q) = Read(op, flags, q)
    /\ \A s, calls : MikroTik!Send(s, calls) <=> Send(s, calls)
    /\ \A s, calls : MikroTik!Do(s, calls) <=> Do(s, calls)
    /\ \A i, s, calls : MikroTik!Answer(i, s, calls) <=> Answer(i, s, calls)
    /\ \A v : MikroTik!OtherUser(v) <=> OtherUser(v)
    /\ \A k, i : MikroTik!Dialog(k, i) <=> Dialog(k, i)
    /\ MikroTik!Close <=> Close
    /\ \A s, own : MikroTik!With(s, own) = With(s, own)
    /\ \A q : MikroTik!Blank(q) = Blank(q)
    /\ \A i, op : MikroTik!Ok(i, op) <=> Ok(i, op)
    /\ \A i, op : MikroTik!Failed(i, op) <=> Failed(i, op)
    /\ \A f : MikroTik!Idle(f) <=> Idle(f)
    /\ \A k : MikroTik!DialogIs(k) <=> DialogIs(k)
    /\ \A s, i : MikroTik!Show(s, i) = Show(s, i)
  BY DEF MikroTik!Write, Write, MikroTik!Read, Read, MikroTik!Send, Send,
         MikroTik!Sent, Sent, MikroTik!Flags, Flags, MikroTik!Range, Range,
         MikroTik!Do, Do, MikroTik!Answer, Answer, MikroTik!Others, Others,
         MikroTik!OtherUser, OtherUser, MikroTik!Dialog, Dialog,
         MikroTik!Close, Close, MikroTik!With, With, MikroTik!Blank, Blank,
         MikroTik!Ok, Ok, MikroTik!Failed, Failed, MikroTik!Idle, Idle,
         MikroTik!DialogIs, DialogIs, MikroTik!Show, Show

(* The router's page when it appears. *)
LEMMA MikroTikInit == ASSUME MikroTik!Init PROVE Inv /\ page = "mikrotik" /\ OwnDialogs
<1> DEFINE own == [busy |-> {"loading"}, stale |-> TRUE, status |-> None]
           q == [all |-> TRUE]
           c == Read("status", {"loading"}, q)
<1>1. PICK i \in Item :
        /\ page = "mikrotik" /\ st = With(Blank(q), own) /\ net = <<c>>
        /\ db = [j \in Item |-> IF j = i THEN "gone" ELSE "there"]
  BY MikroTikSame DEF MikroTik!Init
<1>2. DOMAIN own = {"busy", "stale", "status"} /\ own.busy = {"loading"} /\ own.stale = TRUE
  OBVIOUS
<1> HIDE DEF own, q
<1>3. IsWith(st, q, own)
  BY <1>1, Withs
<1>4. IsState(st) /\ st.busy = {"loading"} /\ st.acts = 0
  BY <1>2, <1>3 DEF IsWith, IsState
<1>5. st.list.rows = None
  BY <1>2, <1>3 DEF IsWith
<1>6. st.stale = TRUE
  BY <1>2, <1>3 DEF IsWith
<1>7. page \in Components \ Searching /\ db \in Records(page)
  BY <1>1 DEF Components, Searching, Records, ValuesOf, MikroTik!Values
<1>8. Opened
  BY <1>4, <1>5, <1>6, <1>7 DEF Opened
<1>9. Reading(c, "status", {"loading"}, q) /\ c.op = "status" /\ "status" \in Plain /\ net = <<c>>
  <2>1. Reading(c, "status", {"loading"}, q)
    BY Readings
  <2>2. net = <<c>> /\ "status" \in Plain
    BY <1>1 DEF Plain, Reads, Lists
  <2> HIDE DEF c
  <2>3. QED
    BY <2>1, <2>2 DEF Reading
<1> HIDE DEF c
<1>10. Inv
  BY <1>4, <1>8, <1>9, OpenedCalling
<1>11. \A k \in Calls : net[k].op = "status"
  BY <1>9 DEF Calls
<1>12. QED
  BY <1>1, <1>10, <1>11 DEF OwnDialogs, Confirms

(* MikroTik.tsx: the deletion of a secret leaves its dialog open until its  *)
(* answer.                                                                  *)
LEMMA MikroTikStep ==
    ASSUME Inv, page = "mikrotik", OwnDialogs, MikroTik!Next
    PROVE  Inv' /\ OwnDialogs'
<1>0. Shape /\ Quiet(st) /\ Keeps(st) /\ IsFcn(st)
  BY StIsQuiet DEF Inv, Quiet, Keeps
<1> DEFINE Goal == Inv' /\ OwnDialogs'
<1>a. {"list", "status"} \cap Confirmed = {}
  BY DEF Confirmed
<1>b. ASSUME st'.dlg = st.dlg, Gains({"list", "status"}) PROVE OwnDialogs'
  BY <1>a, <1>b, DialogsKept
<1>d. ASSUME NEW flags, flags \subseteq Common, NEW c, Reading(c, "status", flags, st.q),
             Send(st, <<c>>) \/ Do(st, <<c>>)
      PROVE  Goal
  <2>1. "status" \in Plain
    BY DEF Plain, Reads, Lists
  <2>2. Inv'
    BY <1>0, <1>d, <2>1, ReadRule DEF Quiet
  <2>3. st'.dlg = st.dlg
    BY <1>0, <1>d, DialogAfter
  <2>4. Gains({"list", "status"})
    <3>1. page' = page /\ \A k \in Calls' : net'[k] = c \/ \E j \in Calls : net'[k] = net[j]
      BY <1>0, <1>d, GainedOne
    <3>2. QED
      BY <1>d, <3>1 DEF Gains, Reading
  <2>5. QED
    BY <1>b, <2>2, <2>3, <2>4
<1>1. CASE MikroTik!AutoRefresh \/ MikroTik!handleManualRefresh
  <2> DEFINE c == Read("status", {}, st.q)
             d == Read("status", {"loading"}, st.q)
  <2>1. Send(st, <<c>>) \/ Do(st, <<d>>)
    BY <1>1, MikroTikSame DEF MikroTik!AutoRefresh, MikroTik!handleManualRefresh, MikroTik!fetchData
  <2>2. Reading(c, "status", {}, st.q) /\ Reading(d, "status", {"loading"}, st.q)
    BY Readings
  <2>3. {} \subseteq Common /\ {"loading"} \subseteq Common
    BY DEF Common
  <2> HIDE DEF c, d
  <2>4. QED
    BY <1>d, <2>1, <2>2, <2>3
<1>2. ASSUME NEW i \in Calls, MikroTik!StatusRead(i) PROVE Goal
  <2>1. net[i].op = "status" /\ net[i].status # "sent"
    BY <1>2, MikroTikSame DEF MikroTik!StatusRead, Ok, Failed
  <2>2. ~Listing(net[i]) /\ ~Changes(net[i])
    BY <1>0, <2>1 DEF Shape, IsCall, Listing, Changes, Reads, Payloads
  <2>3. ASSUME NEW u, Quiet(u), u.dlg = st.dlg,
               NEW s, s = [u EXCEPT !.busy = u.busy \ {"loading"}], Answer(i, s, <<>>)
        PROVE  Goal
    <3>1. Keeps(u)
      BY <2>3 DEF Quiet
    <3>2. Keeps(s) /\ DOMAIN s = DOMAIN u /\ \A g \in DOMAIN u : g # "busy" => s[g] = u[g]
      BY <2>3, <3>1, KeepsBut DEF Common
    <3>3. Quiet(s) /\ s.dlg = st.dlg
      BY <1>0, <2>3, <3>2 DEF Quiet, Keeps, Shape, IsState, Fields
    <3>4. Inv' /\ st'.dlg = st.dlg /\ Leaves(i, {"list", "status"})
      BY <1>0, <2>1, <2>2, <2>3, <3>2, <3>3, AsideRule, DialogAfter, LeftNone
    <3>5. QED
      BY <1>b, <3>4, LeavesGains
  <2> DEFINE up == [st EXCEPT !.status = "up"]
             down == [st EXCEPT !.status = "down"]
  <2>4. Quiet(up) /\ up.dlg = st.dlg /\ Quiet(down) /\ down.dlg = st.dlg
    <3>1. up = [st EXCEPT !.status = "up"] /\ down = [st EXCEPT !.status = "down"]
      OBVIOUS
    <3> HIDE DEF up, down
    <3>2. "status" \notin (Fields \ {"dlg"}) \cup {"typed"} /\ "dlg" \in DOMAIN st
      BY <1>0 DEF Fields, Shape, IsState
    <3>3. QED
      BY <3>1, <3>2, SetsField
  <2> DEFINE s(u) == [u EXCEPT !.busy = u.busy \ {"loading"}]
             c == Read("list", net[i].flags, st.q)
  <2>5. CASE Answer(i, s(down), <<>>) \/ Answer(i, s(st), <<>>)
    <3> DEFINE v == s(down)
               w == s(st)
    <3>1. v = [down EXCEPT !.busy = down.busy \ {"loading"}] /\ w = [st EXCEPT !.busy = st.busy \ {"loading"}]
      OBVIOUS
    <3>2. Answer(i, v, <<>>) \/ Answer(i, w, <<>>)
      BY <2>5
    <3> HIDE DEF v, w, down
    <3>3. QED
      BY <1>0, <2>3, <2>4, <3>1, <3>2
  <2>6. CASE Ok(i, "status") /\ Answer(i, up, <<c>>)
    <3>1. Reading(c, "list", net[i].flags, st.q)
      BY Readings
    <3> HIDE DEF up, c
    <3>2. Inv' /\ st'.dlg = st.dlg /\ Leaves(i, {"list"})
      BY <2>4, <2>6, <3>1, ThenStep DEF Ok
    <3>3. Gains({"list", "status"})
      BY <3>2 DEF Leaves, Gains
    <3>4. QED
      BY <1>b, <3>2, <3>3
  <2>7. \/ Answer(i, s(down), <<>>) \/ Answer(i, s(st), <<>>)
        \/ Ok(i, "status") /\ Answer(i, up, <<c>>)
    BY <1>2, MikroTikSame DEF MikroTik!StatusRead, MikroTik!Ended, MikroTik!loadPPPoESecrets
  <2>8. QED
    BY <2>5, <2>6, <2>7
<1>3. ASSUME NEW i \in Calls, MikroTik!SecretsRead(i) PROVE Goal
  <2> DEFINE w == [st EXCEPT !.busy = st.busy \ {"loading"}]
             u == IF net[i].flags \cap {"addingSecret", "deletingSecret"} = {} THEN w ELSE st
             s == Show(u, i)
  <2>1. (Ok(i, "list") /\ Answer(i, s, <<>>)) \/ (Failed(i, "list") /\ Answer(i, u, <<>>))
    BY <1>3, MikroTikSame DEF MikroTik!SecretsRead, MikroTik!Ended
  <2>2. w = [st EXCEPT !.busy = st.busy \ {"loading"}] /\ (u = st \/ u = w) /\ s = Show(u, i)
    OBVIOUS
  <2> HIDE DEF w, u, s
  <2>3. Keeps(w) /\ DOMAIN w = DOMAIN st /\ \A g \in DOMAIN st : g # "busy" => w[g] = st[g]
    BY <1>0, <2>2, KeepsBut DEF Common
  <2>4. Quiet(w) /\ w.dlg = st.dlg
    BY <1>0, <2>3 DEF Quiet, Shape, IsState, Fields
  <2>5. Quiet(u) /\ u.dlg = st.dlg
    BY <1>0, <2>2, <2>4
  <2>6. Keeps(s) /\ s.q = st.q /\ s.list = [q |-> net[i].q, rows |-> net[i].rows] /\ s.dlg = st.dlg
    BY <2>2, <2>5, ShowsQuiet
  <2>7. Inv' /\ st'.dlg = st.dlg /\ Leaves(i, {"list", "status"})
    <3>1. CASE Ok(i, "list") /\ Answer(i, s, <<>>)
      BY <2>6, <3>1, ShownStep
    <3>2. CASE Failed(i, "list") /\ Answer(i, u, <<>>)
      BY <2>5, <3>2, FailedStep DEF Failed
    <3>3. QED
      BY <2>1, <3>1, <3>2
  <2>8. QED
    BY <1>b, <2>7, LeavesGains
<1>4. ASSUME NEW op, op \in {"test", "config", "add", "delete", "reminders"},
             NEW flag,
             flag \in {"testingConn", "savingConfig", "addingSecret", "deletingSecret", "sendingReminders"},
             flag \notin st.busy, NEW v, v \in {None, "gone"}, NEW d,
             op \in {"test", "config", "reminders"} => v = None,
             op = "delete" => flag = "deletingSecret",
             op = "delete" => st.dlg # None /\ st.dlg.kind = "delete" /\ st.dlg.item = d,
             Do(st, <<Write(op, {flag}, st.q, d, v)>>)
      PROVE  Goal
  <2> DEFINE c == Write(op, {flag}, st.q, d, v)
  <2>1. c = Write(op, {flag}, st.q, d, v) /\ Do(st, <<c>>)
    BY <1>4
  <2>2. {flag} \cap Common = {} /\ {flag} \cap st.busy = {}
    BY <1>4 DEF Common
  <2>3. op \notin Reads \cup Payloads /\ v \in ValuesOf(page) \cup {None} /\ page \notin Silent
    BY <1>4 DEF Reads, Lists, Payloads, ValuesOf, MikroTik!Values, Silent, Mobile!Screens
  <2> HIDE DEF c
  <2>4. /\ IsFcn(c) /\ DOMAIN c = CallFields /\ c.status = "sent"
        /\ c.op = op /\ c.flags = {flag} /\ c.item = d /\ c.to = v
    BY <2>1, WriteFields
  <2>5. Carries(page, c)
    BY <1>4, <2>4 DEF Carries
  <2>6. Confirms(c) => DialogOf(c)
    BY <1>4, <2>4 DEF Confirms, DialogOf
  <2>7. Writes(c)
    BY <2>2, <2>3, <2>4, <2>5 DEF Writes
  <2>8. Sends(st, c)
    BY <1>0, <2>3, <2>7, WritesSends
  <2>9. /\ Inv' /\ st'.dlg = st.dlg /\ After(st)
        /\ \A k \in Calls' : net'[k] = c \/ \E j \in Calls : net'[k] = net[j]
    BY <2>1, <2>8, SendsStep
  <2>10. QED
    BY <2>6, <2>9, DialogsSent DEF After
<1>5. CASE MikroTik!handleSendReminders
  <2>1. "sendingReminders" \notin st.busy
        /\ Do(st, <<Write("reminders", {"sendingReminders"}, st.q, None, None)>>)
    BY <1>5, MikroTikSame DEF MikroTik!handleSendReminders, Idle
  <2>2. QED
    BY <1>4, <2>1
<1>6. ASSUME NEW kind, NEW flag, NEW v, MikroTik!Submit(kind, flag, v)
      PROVE  /\ flag \notin st.busy /\ st.dlg # None /\ st.dlg.kind = kind
             /\ Do(st, <<Write(kind, {flag}, st.q, st.dlg.item, v)>>)
  BY <1>6, MikroTikSame DEF MikroTik!Submit, Idle, DialogIs
<1>7. CASE MikroTik!handleTestConnection
  <2>1. /\ "testingConn" \notin st.busy /\ st.dlg # None /\ st.dlg.kind = "test"
        /\ Do(st, <<Write("test", {"testingConn"}, st.q, st.dlg.item, None)>>)
    BY <1>6, <1>7 DEF MikroTik!handleTestConnection
  <2>2. QED
    BY <1>4, <2>1
<1>8. CASE MikroTik!handleSaveConfig
  <2>1. /\ "savingConfig" \notin st.busy /\ st.dlg # None /\ st.dlg.kind = "config"
        /\ Do(st, <<Write("config", {"savingConfig"}, st.q, st.dlg.item, None)>>)
    BY <1>6, <1>8 DEF MikroTik!handleSaveConfig
  <2>2. QED
    BY <1>4, <2>1
<1>9. CASE MikroTik!handleAddSecret
  <2>1. /\ "addingSecret" \notin st.busy /\ st.dlg # None /\ st.dlg.kind = "add"
        /\ Do(st, <<Write("add", {"addingSecret"}, st.q, st.dlg.item, None)>>)
    BY <1>6, <1>9 DEF MikroTik!handleAddSecret
  <2>2. QED
    BY <1>4, <2>1
<1>10. CASE MikroTik!handleDeleteSecret
  <2>1. /\ "deletingSecret" \notin st.busy /\ st.dlg # None /\ st.dlg.kind = "delete"
        /\ Do(st, <<Write("delete", {"deletingSecret"}, st.q, st.dlg.item, "gone")>>)
    BY <1>6, <1>10 DEF MikroTik!handleDeleteSecret
  <2>2. QED
    BY <1>4, <2>1
<1>11. ASSUME NEW kind, NEW i, st.dlg = None, Dialog(kind, i) PROVE Goal
  <2>1. \A j \in Calls : ~Confirms(net[j])
    BY <1>11 DEF OwnDialogs, DialogOf
  <2>2. Inv' /\ Gains({"list", "status"})
    BY <1>11, DialogRule, SameGains
  <2>3. QED
    BY <1>a, <2>1, <2>2, DialogsFree
<1>12. ASSUME NEW kind, MikroTik!setShowModal(kind) PROVE Goal
  BY <1>11, <1>12, MikroTikSame DEF MikroTik!setShowModal, MikroTik!Uncovered
<1>13. ASSUME NEW i, MikroTik!setDeleteTarget(i) PROVE Goal
  BY <1>11, <1>13, MikroTikSame DEF MikroTik!setDeleteTarget, MikroTik!Uncovered
<1>14. CASE MikroTik!CloseModal
  <2>1. Close /\ (st.dlg # None /\ st.dlg.kind = "delete" => "deletingSecret" \notin st.busy)
    BY <1>14, MikroTikSame DEF MikroTik!CloseModal, Idle, DialogIs
  <2>2. ASSUME NEW j \in Calls, Confirms(net[j]) PROVE FALSE
    <3>1. Carries(page, net[j])
      BY <1>0 DEF Shape, IsCall
    <3>2. "deletingSecret" \in net[j].flags /\ DialogOf(net[j]) /\ net[j].op = "delete"
      BY <2>2, <3>1 DEF Confirms, Carries, OwnDialogs
    <3>3. "deletingSecret" \in st.busy
      BY <3>2, BusyWith DEF Common
    <3>4. QED
      BY <2>1, <3>2, <3>3 DEF DialogOf
  <2>3. Inv' /\ Gains({"list", "status"})
    BY <2>1, CloseRule, SameGains
  <2>4. QED
    BY <1>a, <2>2, <2>3, DialogsFree
<1>15. ASSUME NEW i \in Calls, MikroTik!Submitted(i) PROVE Goal
  <2>1. Carries(page, net[i]) /\ IsCall(page, net[i])
    BY <1>0 DEF Shape, IsCall
  <2>2. ASSUME NEW op \in {"config", "add", "delete"}, Ok(i, op) PROVE op = "delete" <=> Confirms(net[i])
    BY <2>2 DEF Ok, Confirms
  <2>3. ASSUME NEW s, s.dlg = None \/ s.dlg = st.dlg, NEW ops, ops \cap Confirmed = {},
               st'.dlg = s.dlg, Leaves(i, ops), Inv',
               s.dlg = None => st.dlg = None \/ st.dlg.kind \in {"config", "add"} \/ net[i].op = "delete"
        PROVE  Goal
    <3>1. CASE Confirms(net[i])
      BY <2>3, <3>1, DialogsAnswered
    <3>2. CASE ~Confirms(net[i])
      <4>1. CASE st'.dlg = st.dlg
        BY <2>3, <4>1, LeavesGains, DialogsKept
      <4>2. CASE st'.dlg # st.dlg
        <5>1. st.dlg # None /\ st.dlg.kind \in {"config", "add"}
          BY <2>3, <3>2, <4>2 DEF Confirms
        <5>2. \A j \in Calls : ~Confirms(net[j])
          BY <5>1 DEF OwnDialogs, DialogOf, Confirms
        <5>3. QED
          BY <2>3, <5>2, LeavesGains, DialogsFree
      <4>3. QED
        BY <4>1, <4>2
    <3>3. QED
      BY <2>3, <3>1, <3>2
  <2> DEFINE s(k) == IF DialogIs(k) THEN [st EXCEPT !.dlg = None] ELSE st
  <2>4. ASSUME NEW k PROVE /\ Quiet(s(k)) /\ (s(k).dlg = None \/ s(k).dlg = st.dlg)
                           /\ s(k).dlg = None => st.dlg = None \/ st.dlg.kind = k
    <3>1. Quiet(s(k))
      BY ClosedQuiet
    <3>2. s(k).dlg = IF DialogIs(k) THEN None ELSE st.dlg
      BY <1>0 DEF Shape, IsState, Fields
    <3>3. QED
      BY <3>1, <3>2 DEF DialogIs
  <2> HIDE DEF s
  <2> DEFINE list == Read("list", net[i].flags, st.q)
             status == Read("status", net[i].flags, st.q)
  <2>5. Reading(list, "list", net[i].flags, st.q) /\ Reading(status, "status", net[i].flags, st.q)
        /\ "status" \in Plain
    BY Readings DEF Plain, Reads, Lists
  <2>6. \/ Ok(i, "config") /\ Answer(i, s("config"), <<status>>)
        \/ Ok(i, "add") /\ Answer(i, s("add"), <<list>>)
        \/ Ok(i, "delete") /\ Answer(i, s("delete"), <<list>>)
        \/ /\ (net[i].op \in {"test", "reminders"} /\ net[i].status # "sent") \/ net[i].status = "failed"
           /\ Answer(i, st, <<>>)
    BY <1>15, MikroTikSame
    DEF MikroTik!Submitted, MikroTik!Closed, MikroTik!fetchData, MikroTik!loadPPPoESecrets,
        MikroTik!Answered, Ok, Failed, s
  <2> HIDE DEF list, status
  <2>7. ASSUME NEW k \in {"add", "delete"}, Ok(i, k), Answer(i, s(k), <<list>>) PROVE Goal
    <3>1. Quiet(s(k)) /\ (s(k).dlg = None \/ s(k).dlg = st.dlg)
          /\ (s(k).dlg = None => st.dlg = None \/ st.dlg.kind = k)
      BY <2>4
    <3>2. Inv' /\ st'.dlg = s(k).dlg /\ Leaves(i, {"list"})
      BY <2>5, <2>7, <3>1, ThenStep DEF Ok
    <3>3. {"list"} \cap Confirmed = {}
      BY DEF Confirmed
    <3>4. s(k).dlg = None => st.dlg = None \/ st.dlg.kind \in {"config", "add"} \/ net[i].op = "delete"
      BY <2>7, <3>1 DEF Ok
    <3>5. QED
      BY <2>3, <3>1, <3>2, <3>3, <3>4
  <2>8. CASE Ok(i, "config") /\ Answer(i, s("config"), <<status>>)
    <3> DEFINE u == s("config")
    <3>1. Quiet(u) /\ (u.dlg = None \/ u.dlg = st.dlg) /\ Answer(i, u, <<status>>)
          /\ (u.dlg = None => st.dlg = None \/ st.dlg.kind \in {"config", "add"} \/ net[i].op = "delete")
      BY <2>4, <2>8
    <3> HIDE DEF u
    <3>2. ~Listing(net[i]) /\ ~Changes(net[i]) /\ net[i].status # "sent"
      BY <2>1, <2>8 DEF Ok, Carries, Listing, Changes, Payloads
    <3>3. "status" \in Plain \ {"list"} /\ net[i].flags \ Common \subseteq net[i].flags
      BY <2>5
    <3>4. Inv'
      BY <2>5, <3>1, <3>2, <3>3, NextRule
    <3>5. Keeps(u)
      BY <3>1 DEF Quiet
    <3>6. st'.dlg = u.dlg
      BY <1>0, <3>1, <3>5, DialogAfter
    <3>7. Leaves(i, {"status"})
      BY <1>0, <2>5, <3>1, LeftOne DEF Leaves, Reading
    <3>8. {"status"} \cap Confirmed = {}
      BY DEF Confirmed
    <3>9. QED
      BY <2>3, <3>1, <3>4, <3>6, <3>7, <3>8
  <2>9. CASE /\ (net[i].op \in {"test", "reminders"} /\ net[i].status # "sent") \/ net[i].status = "failed"
             /\ Answer(i, st, <<>>)
    <3>1. Inv'
      <4>1. CASE net[i].status = "failed"
        BY <1>0, <2>9, <4>1, FailedRule
      <4>2. CASE net[i].op \in {"test", "reminders"} /\ net[i].status # "sent"
        <5>1. ~Listing(net[i]) /\ ~Changes(net[i])
          BY <2>1, <4>2 DEF Carries, Listing, Changes, Payloads
        <5>2. QED
          BY <1>0, <2>9, <4>2, <5>1, AsideRule
      <4>3. QED
        BY <2>9, <4>1, <4>2
    <3>2. st'.dlg = st.dlg /\ Leaves(i, {"list", "status"})
      BY <1>0, <2>9, DialogAfter, LeftNone
    <3>3. QED
      BY <1>b, <3>1, <3>2, LeavesGains
  <2>10. QED
    BY <2>6, <2>7, <2>8, <2>9
<1>16. CASE MikroTik!OtherUser(MikroTik!Values)
  <2>1. OtherUser(MikroTik!Values) /\ MikroTik!Values \subseteq ValuesOf(page)
    BY <1>16, MikroTikSame DEF ValuesOf
  <2>2. Inv' /\ st'.dlg = st.dlg /\ Gains({"list", "status"})
    BY <1>0, <2>1, OtherStep, SameGains DEF After
  <2>3. QED
    BY <1>b, <2>2
<1>17. QED
  BY <1>1, <1>2, <1>3, <1>5, <1>7, <1>8, <1>9, <1>10, <1>12, <1>13, <1>14, <1>15, <1>16
  DEF MikroTik!Next, MikroTik!Calls, Calls

-----------------------------------------------------------------------------
(* The activity log *)

(* What the box's timer holds is what was typed last, unless Clear was      *)
(* pressed while it ran.                                                    *)
Boxed(s) ==
    /\ {"typed", "held", "search", "cleared"} \subseteq DOMAIN s
    /\ s.timer \in BOOLEAN /\ s.cleared \in BOOLEAN
    /\ s.cleared \/ IF s.timer THEN s.held = s.typed ELSE s.search = s.typed

(* The operators of the activity log are those of Clients. *)
LEMMA LogsSame ==
    /\ \A s, calls : Logs!Send(s, calls) <=> Send(s, calls)
    /\ \A s, calls : Logs!Do(s, calls) <=> Do(s, calls)
    /\ \A i, s, calls : Logs!Answer(i, s, calls) <=> Answer(i, s, calls)
    /\ \A v : Logs!OtherUser(v) <=> OtherUser(v)
    /\ \A p : Logs!Turn(p) <=> Turn(p)
    /\ \A i : Logs!Fetched(i) <=> Fetched(i)
    /\ \A p, s, rows : Logs!Mount(p, s, rows) <=> Mount(p, s, rows)
    /\ \A s, own : Logs!With(s, own) = With(s, own)
    /\ \A q : Logs!Blank(q) = Blank(q)
  BY DEF Logs!Send, Send, Logs!Sent, Sent, Logs!Flags, Flags, Logs!Range,
         Range, Logs!Do, Do, Logs!Answer, Answer, Logs!Others, Others,
         Logs!OtherUser, OtherUser, Logs!Turn, Turn, Logs!Effect, Effect,
         Logs!Fetch, Fetch, Logs!Read, Read, Logs!Fetched, Fetched, Logs!Ok,
         Ok, Logs!Failed, Failed, Logs!Show, Show, Logs!Mount, Mount,
         Logs!With, With, Logs!Blank, Blank

(* The activity log when it appears. *)
LEMMA LogsInit == ASSUME Logs!Init PROVE Inv /\ page = "logs" /\ Boxed(st)
<1> DEFINE own == [typed |-> "", held |-> "", search |-> "", cleared |-> FALSE]
           q == [page |-> 1]
           s == With(Blank(q), own)
           rows == [i \in Item |-> "old"]
<1>1. Mount("logs", s, rows)
  BY LogsSame DEF Logs!Init
<1>2. /\ DOMAIN own = {"typed", "held", "search", "cleared"}
      /\ own.typed = "" /\ own.held = "" /\ own.search = "" /\ own.cleared = FALSE
  OBVIOUS
<1>3. s = With(Blank(q), own)
  OBVIOUS
<1>4. rows \in Records("logs") /\ "logs" \in Components /\ "logs" \notin Searching
  BY DEF Records, ValuesOf, Logs!Values, Components, Searching
<1> HIDE DEF own, q, s, rows
<1>5. IsWith(s, q, own)
  BY <1>3, Withs
<1>6. /\ IsState(s) /\ s.acts = 0 /\ s.busy = {} /\ s.list = [q |-> None, rows |-> None]
      /\ s.timer = FALSE
  BY <1>2, <1>5 DEF IsWith, IsState
<1>7. Starts("logs", s, rows)
  BY <1>4, <1>6 DEF Starts
<1>8. Inv /\ page = "logs"
  BY <1>1, <1>7, MountRule DEF Mount
<1>9. Boxed(s)
  BY <1>2, <1>5, <1>6 DEF IsWith, Boxed, Fields
<1>10. /\ DOMAIN st = DOMAIN s /\ st.timer = s.timer
       /\ \A f \in DOMAIN own : st[f] = s[f]
  <2>1. DOMAIN st = DOMAIN s /\ \A f \in DOMAIN s \ History : st[f] = s[f]
    BY <1>1, <1>6, Mounted
  <2>2. DOMAIN own \cup {"timer"} \subseteq DOMAIN s \ History
    BY <1>2, <1>5 DEF IsWith, Fields, History
  <2>3. QED
    BY <2>1, <2>2
<1>11. Boxed(st)
  BY <1>2, <1>9, <1>10 DEF Boxed
<1>12. QED
  BY <1>8, <1>11

(* The box is as the handler or the answer left it. *)
LEMMA BoxKept ==
    ASSUME NEW s, Boxed(s), "timer" \in DOMAIN s, After(s)
    PROVE  Boxed(st)'
<1>1. \A f \in {"typed", "held", "search", "cleared", "timer"} : st'[f] = s[f]
  BY DEF Boxed, After, History
<1>2. QED
  BY <1>1 DEF Boxed, After

(* ActivityLogs.tsx: the box and its timer, with Clear and Refresh. *)
LEMMA LogsStep ==
    ASSUME Inv, page = "logs", Boxed(st), Logs!Next
    PROVE  Inv' /\ Boxed(st)'
<1>0. Shape /\ Quiet(st) /\ Keeps(st) /\ IsFcn(st) /\ "timer" \in DOMAIN st
  BY StIsQuiet DEF Inv, Quiet, Keeps, Shape, IsState, Fields
<1> DEFINE Goal == Inv' /\ Boxed(st)'
<1>a. ASSUME NEW s, Quiet(s), Boxed(s), Send(s, <<>>) \/ Do(s, <<>>) PROVE Goal
  <2>1. IsFcn(s) /\ DOMAIN s = DOMAIN st
    BY <1>a DEF Quiet, Keeps
  <2>2. Inv'
    BY <1>a, QuietRule
  <2>3. After(s)
    BY <1>a, <2>1, Afterwards
  <2>4. QED
    BY <1>0, <1>a, <2>1, <2>2, <2>3, BoxKept
<1>b. ASSUME NEW s, IsFcn(s), DOMAIN s = DOMAIN st,
             \A f \in Fields \ {"timer"} : s[f] = st[f]
      PROVE  Quiet(s)
  BY <1>b, QuietDo DEF Searching
<1>1. ASSUME NEW t, Logs!handleSearch(t) PROVE Goal
  <2> DEFINE s == [st EXCEPT !.typed = t, !.held = t, !.timer = TRUE]
  <2>1. Do(s, <<>>)
    BY <1>1, LogsSame DEF Logs!handleSearch
  <2>2. /\ IsFcn(s) /\ DOMAIN s = DOMAIN st
        /\ \A f \in DOMAIN st \ {"typed", "held", "timer"} : s[f] = st[f]
    BY <1>0 DEF IsFcn
  <2>3. s.typed = t /\ s.held = t
    BY <1>0 DEF Boxed
  <2>4. s.timer = TRUE
    BY <1>0
  <2> HIDE DEF s
  <2>5. (\A f \in Fields \ {"timer"} : s[f] = st[f]) /\ s.cleared = st.cleared
    BY <1>0, <2>2 DEF Fields, Boxed, Shape, IsState
  <2>6. Boxed(s)
    BY <1>0, <2>2, <2>3, <2>4, <2>5 DEF Boxed
  <2>7. QED
    BY <1>a, <1>b, <2>1, <2>2, <2>5, <2>6
<1>2. CASE Logs!Debounced
  <2> DEFINE s == [st EXCEPT !.timer = FALSE, !.search = st.held]
  <2>1. Send(s, <<>>) /\ st.timer
    BY <1>2, LogsSame DEF Logs!Debounced
  <2>2. /\ IsFcn(s) /\ DOMAIN s = DOMAIN st
        /\ \A f \in DOMAIN st \ {"timer", "search"} : s[f] = st[f]
    BY <1>0 DEF IsFcn
  <2>3. s.search = st.held
    BY <1>0 DEF Boxed
  <2>4. s.timer = FALSE
    BY <1>0
  <2> HIDE DEF s
  <2>5. (\A f \in Fields \ {"timer"} : s[f] = st[f]) /\ s.cleared = st.cleared /\ s.typed = st.typed
    BY <1>0, <2>2 DEF Fields, Boxed, Shape, IsState
  <2>6. Boxed(s)
    BY <1>0, <2>1, <2>2, <2>3, <2>4, <2>5 DEF Boxed
  <2>7. QED
    BY <1>a, <1>b, <2>1, <2>2, <2>5, <2>6
<1>3. CASE Logs!Clear
  <2> DEFINE s == [st EXCEPT !.typed = "", !.search = "", !.cleared = st.cleared \/ st.timer]
  <2>1. Do(s, <<>>)
    BY <1>3, LogsSame DEF Logs!Clear
  <2>2. /\ IsFcn(s) /\ DOMAIN s = DOMAIN st
        /\ \A f \in DOMAIN st \ {"typed", "search", "cleared"} : s[f] = st[f]
    BY <1>0 DEF IsFcn
  <2>3. s.typed = "" /\ s.search = ""
    BY <1>0 DEF Boxed
  <2>4. s.cleared \in BOOLEAN /\ (st.timer => s.cleared)
    BY <1>0 DEF Boxed
  <2> HIDE DEF s
  <2>5. (\A f \in Fields \ {"timer"} : s[f] = st[f]) /\ s.timer = st.timer
    BY <1>0, <2>2 DEF Fields, Boxed, Shape, IsState
  <2>6. Boxed(s)
    BY <1>0, <2>2, <2>3, <2>4, <2>5 DEF Boxed
  <2>7. QED
    BY <1>a, <1>b, <2>1, <2>2, <2>5, <2>6
<1>4. ASSUME NEW p, Logs!setPage(p) PROVE Goal
  <2>1. Turn(p)
    BY <1>4, LogsSame DEF Logs!setPage
  <2> DEFINE s == [st EXCEPT !.q.page = p]
  <2>2. Do(s, Effect(s))
    BY <2>1 DEF Turn
  <2>3. IsFcn(s) /\ DOMAIN s = DOMAIN st /\ \A f \in DOMAIN st \ {"q"} : s[f] = st[f]
    BY <1>0 DEF IsFcn
  <2> HIDE DEF s
  <2>4. After(s)
    BY <2>2, <2>3, Afterwards
  <2>5. Boxed(s)
    BY <1>0, <2>3 DEF Boxed
  <2>6. QED
    BY <1>0, <2>1, <2>3, <2>4, <2>5, BoxKept, TurnRule
<1>5. ASSUME NEW i \in Calls, Logs!fetchLogs(i) PROVE Goal
  <2>1. Fetched(i)
    BY <1>5, LogsSame DEF Logs!fetchLogs
  <2> DEFINE s == Show(st, i)
  <2>2. Answer(i, s, <<>>) \/ Answer(i, st, <<>>)
    BY <2>1 DEF Fetched
  <2>3. IsFcn(s) /\ DOMAIN s = DOMAIN st /\ \A f \in DOMAIN st \ {"list"} : s[f] = st[f]
    BY <1>0 DEF IsFcn, Show
  <2> HIDE DEF s
  <2>4. After(s) \/ After(st)
    BY <1>0, <2>2, <2>3, Afterwards
  <2>5. Boxed(s)
    BY <1>0, <2>3 DEF Boxed
  <2>6. QED
    BY <1>0, <2>1, <2>3, <2>4, <2>5, BoxKept, FetchedRule
<1>6. CASE Logs!OtherUser(Logs!Values)
  <2>1. OtherUser(Logs!Values) /\ Logs!Values \subseteq ValuesOf(page)
    BY <1>6, LogsSame DEF ValuesOf
  <2>2. QED
    BY <1>0, <2>1, OtherStep, BoxKept
<1>7. QED
  BY <1>1, <1>2, <1>3, <1>4, <1>5, <1>6 DEF Logs!Next, Logs!Calls, Calls

-----------------------------------------------------------------------------
(* The dashboard *)

(* The operators of the dashboard are those of Clients. *)
LEMMA DashboardSame ==
    /\ \A op, flags, q, i, v : Dashboard!Write(op, flags, q, i, v) = Write(op, flags, q, i, v)
    /\ \A op, flags, q : Dashboard!Read(op, flags, q) = Read(op, flags, q)
    /\ \A s, calls : Dashboard!Send(s, calls) <=> Send(s, calls)
    /\ \A s, calls : Dashboard!Do(s, calls) <=> Do(s, calls)
    /\ \A i, s, calls : Dashboard!Answer(i, s, calls) <=> Answer(i, s, calls)
    /\ \A v : Dashboard!OtherUser(v) <=> OtherUser(v)
    /\ \A p, s, rows : Dashboard!Mount(p, s, rows) <=> Mount(p, s, rows)
    /\ \A s, own : Dashboard!With(s, own) = With(s, own)
    /\ \A q : Dashboard!Blank(q) = Blank(q)
    /\ \A i, op : Dashboard!Ok(i, op) <=> Ok(i, op)
    /\ \A i, op : Dashboard!Failed(i, op) <=> Failed(i, op)
    /\ \A f : Dashboard!Idle(f) <=> Idle(f)
    /\ \A s, i : Dashboard!Show(s, i) = Show(s, i)
  BY DEF Dashboard!Write, Write, Dashboard!Read, Read, Dashboard!Send, Send,
         Dashboard!Sent, Sent, Dashboard!Flags, Flags, Dashboard!Range, Range,
         Dashboard!Do, Do, Dashboard!Answer, Answer, Dashboard!Others, Others,
         Dashboard!OtherUser, OtherUser, Dashboard!Mount, Mount,
         Dashboard!Fetch, Fetch, Dashboard!With, With, Dashboard!Blank, Blank,
         Dashboard!Ok, Ok, Dashboard!Failed, Failed, Dashboard!Idle, Idle,
         Dashboard!Show, Show

(* The dashboard when it appears. *)
LEMMA DashboardInit == ASSUME Dashboard!Init PROVE Inv /\ page = "dashboard"
<1> DEFINE own == [error |-> FALSE, sending |-> FALSE]
           q == [all |-> TRUE]
           s == With(Blank(q), own)
           rows(i) == [j \in Item |-> IF j = i THEN "pending" ELSE "decided"]
<1>1. PICK i \in Item : Mount("dashboard", s, rows(i))
  BY DashboardSame DEF Dashboard!Init
<1> DEFINE r == rows(i)
<1>2. DOMAIN own = {"error", "sending"} /\ s = With(Blank(q), own) /\ Mount("dashboard", s, r)
  BY <1>1
<1>3. r \in Records("dashboard") /\ "dashboard" \in Components /\ "dashboard" \notin Searching
  BY DEF Records, ValuesOf, Dashboard!Values, Components, Searching
<1> HIDE DEF own, q, s, r, rows
<1>4. IsWith(s, q, own)
  BY <1>2, Withs
<1>5. IsState(s) /\ s.acts = 0 /\ s.busy = {} /\ s.list = [q |-> None, rows |-> None]
  BY <1>2, <1>4 DEF IsWith, IsState
<1>6. Starts("dashboard", s, r)
  BY <1>3, <1>5 DEF Starts
<1>7. QED
  BY <1>2, <1>6, MountRule DEF Mount

(* The dashboard's spinner stops with the last of its requests. *)
LEMMA EndedKeeps ==
    ASSUME NEW u, Keeps(u), IsState(u), NEW s, s = Dashboard!Ended(u)
    PROVE  Keeps(s) /\ s.q = u.q /\ s.list = u.list /\ s.stale = u.stale
<1>1. IsFcn(u) /\ Fields \subseteq DOMAIN u
  BY DEF IsState
<1>2. IsFcn(s) /\ DOMAIN s = DOMAIN u /\ \A f \in DOMAIN u \ {"busy", "sending"} : s[f] = u[f]
  BY <1>1 DEF Dashboard!Ended, IsFcn
<1>3. s.busy = u.busy \ {"loading", "refreshing"}
  BY <1>1 DEF Dashboard!Ended, Fields
<1>4. u.busy \ Common \subseteq s.busy /\ s.busy \subseteq u.busy
  BY <1>3 DEF Common
<1>5. s.stale = u.stale /\ s.list = u.list
  BY <1>1, <1>2 DEF Fields
<1>6. u.stale \in BOOLEAN
  BY DEF Keeps
<1>7. s.stale \in BOOLEAN /\ (u.stale => s.stale)
  BY <1>5, <1>6
<1>8. \A f \in DOMAIN u \cap {"q", "acts", "timer", "typed"} : s[f] = u[f]
  BY <1>2
<1>9. Keeps(s) /\ s.q = u.q
  BY <1>2, <1>4, <1>7, <1>8, KeepsLike
<1>10. QED
  BY <1>5, <1>9

(* Dashboard.tsx: the refreshes by the button and by the interval. *)
LEMMA DashboardStep == ASSUME Inv, page = "dashboard", Dashboard!Next PROVE Inv'
<1>0. Shape /\ Quiet(st) /\ Keeps(st) /\ IsState(st)
  BY StIsQuiet DEF Inv, Quiet, Keeps, Shape
<1>a. ASSUME NEW s, Quiet(s), NEW flags, flags \subseteq Common, NEW c, Reading(c, "list", flags, st.q),
             Send(s, <<c>>) \/ Do(s, <<c>>)
      PROVE  Inv'
  <2>1. "list" \in Plain
    BY DEF Plain, Reads, Lists
  <2>2. QED
    BY <1>a, <2>1, ReadRule DEF Quiet
<1>b. ASSUME NEW f \in {"error", "sending"}, NEW x, NEW s, s = [st EXCEPT ![f] = x]
      PROVE  Quiet(s)
  BY <1>b, SetsField DEF Fields
<1> DEFINE c(flag) == Read("list", {flag}, st.q)
           calm == [st EXCEPT !.error = FALSE]
<1>c. ASSUME NEW flag PROVE Reading(c(flag), "list", {flag}, st.q)
  BY Readings
<1>d. Quiet(calm)
  BY <1>b
<1> HIDE DEF c, calm
<1>1. CASE Dashboard!AutoRefresh
  <2>1. Send(calm, <<c("refreshing")>>) /\ {"refreshing"} \subseteq Common
    BY <1>1, DashboardSame DEF Dashboard!AutoRefresh, Dashboard!fetchData, calm, c, Common
  <2>2. QED
    BY <1>a, <1>c, <1>d, <2>1
<1>2. CASE Dashboard!handleRefresh
  <2>1. Do(st, <<c("refreshing")>>) /\ {"refreshing"} \subseteq Common
    BY <1>2, DashboardSame DEF Dashboard!handleRefresh, Dashboard!fetchData, c, Common
  <2>2. QED
    BY <1>0, <1>a, <1>c, <2>1
<1>3. CASE Dashboard!Retry
  <2>1. Do(calm, <<c("loading")>>) /\ {"loading"} \subseteq Common
    BY <1>3, DashboardSame DEF Dashboard!Retry, Dashboard!fetchData, calm, c, Common
  <2>2. QED
    BY <1>a, <1>c, <1>d, <2>1
<1>4. CASE Dashboard!sendReminders
  <2> DEFINE s == [st EXCEPT !.sending = TRUE]
             d == Write("reminders", {}, st.q, None, None)
  <2>1. Do(s, <<d>>) /\ Quiet(s) /\ d = Write("reminders", {}, st.q, None, None)
    BY <1>4, <1>b, DashboardSame DEF Dashboard!sendReminders
  <2> HIDE DEF s, d
  <2>2. /\ IsFcn(d) /\ DOMAIN d = CallFields /\ d.status = "sent"
        /\ d.op = "reminders" /\ d.flags = {} /\ d.to = None
    BY <2>1, WriteFields
  <2>3. Carries(page, d)
    BY <2>2 DEF Carries
  <2>4. "reminders" \notin Reads \cup Payloads /\ page \notin Silent
    BY DEF Reads, Lists, Payloads, Silent, Mobile!Screens
  <2>5. Writes(d)
    BY <2>2, <2>3, <2>4 DEF Writes
  <2>6. Sends(s, d)
    BY <2>1, <2>4, <2>5, WritesSends
  <2>7. QED
    BY <2>1, <2>6, SendsStep
<1>5. ASSUME NEW i \in Calls, Dashboard!RemindersSent(i) PROVE Inv'
  <2>1. PICK x : Answer(i, [st EXCEPT !.sending = x], <<>>)
    BY <1>5, DashboardSame DEF Dashboard!RemindersSent
  <2>2. net[i].op = "reminders" /\ net[i].status # "sent"
    BY <1>5, DashboardSame DEF Dashboard!RemindersSent, Dashboard!Answered, Ok, Failed
  <2>3. ~Listing(net[i]) /\ ~Changes(net[i])
    BY <1>0, <2>2 DEF Shape, IsCall, Carries, Listing, Changes, Payloads
  <2> DEFINE s == [st EXCEPT !.sending = x]
  <2>4. Quiet(s) /\ Answer(i, s, <<>>)
    BY <1>b, <2>1
  <2> HIDE DEF s
  <2>5. QED
    BY <2>2, <2>3, <2>4, AsideRule
<1>6. ASSUME NEW i \in Calls, Dashboard!DataFetched(i) PROVE Inv'
  <2> DEFINE u == Show(st, i)
             e == [st EXCEPT !.list = [q |-> net[i].q, rows |-> Dashboard!Empty], !.stale = TRUE]
             f == [st EXCEPT !.error = TRUE]
             End(s) == Dashboard!Ended(s)
  <2>1. \/ Ok(i, "list") /\ (Answer(i, End(u), <<>>) \/ Answer(i, End(e), <<>>))
        \/ Failed(i, "list") /\ Answer(i, End(f), <<>>)
    BY <1>6, DashboardSame DEF Dashboard!DataFetched
  <2>2. Keeps(u) /\ u.q = st.q /\ u.list = [q |-> net[i].q, rows |-> net[i].rows] /\ IsState(u)
    <3>1. u = Show(st, i)
      OBVIOUS
    <3> HIDE DEF u
    <3>2. /\ Keeps(u) /\ u.q = st.q /\ u.list = [q |-> net[i].q, rows |-> net[i].rows]
          /\ DOMAIN u = DOMAIN st
      BY <1>0, <3>1, ShowsQuiet
    <3>3. QED
      BY <1>0, <3>2 DEF Keeps, IsState
  <2>3. Keeps(e) /\ e.q = st.q /\ e.list = [q |-> net[i].q, rows |-> Dashboard!Empty] /\ e.stale /\ IsState(e)
    <3>1. /\ IsFcn(e) /\ DOMAIN e = DOMAIN st /\ \A g \in DOMAIN st \ {"list", "stale"} : e[g] = st[g]
          /\ e.list = [q |-> net[i].q, rows |-> Dashboard!Empty]
      BY <1>0 DEF IsState, IsFcn, Fields
    <3>2. e.stale = TRUE
      BY <1>0 DEF IsState, Fields
    <3> HIDE DEF e
    <3>3. e.busy = st.busy /\ IsState(e)
      BY <1>0, <3>1 DEF IsState, Fields
    <3>4. e.stale \in BOOLEAN /\ (st.stale => e.stale)
      BY <3>2
    <3>5. Keeps(e) /\ e.q = st.q
      BY <1>0, <3>1, <3>3, <3>4, KeepsLike
    <3>6. QED
      BY <3>1, <3>2, <3>3, <3>5
  <2>4. Quiet(f) /\ IsState(f)
    <3>1. Quiet(f)
      BY <1>b
    <3> HIDE DEF f
    <3>2. QED
      BY <1>0, <3>1 DEF Quiet, Keeps, IsState
  <2> HIDE DEF u, e, f
  <2> DEFINE v == End(u)
             w == End(e)
             x == End(f)
  <2>5. v = Dashboard!Ended(u) /\ w = Dashboard!Ended(e) /\ x = Dashboard!Ended(f)
    OBVIOUS
  <2>6. \/ Ok(i, "list") /\ (Answer(i, v, <<>>) \/ Answer(i, w, <<>>))
        \/ Failed(i, "list") /\ Answer(i, x, <<>>)
    BY <2>1
  <2> HIDE DEF v, w, x, End
  <2>7. Keeps(v) /\ v.q = st.q /\ v.list = [q |-> net[i].q, rows |-> net[i].rows]
    BY <2>2, <2>5, EndedKeeps
  <2>8. Keeps(w) /\ w.q = st.q /\ w.list = [q |-> net[i].q, rows |-> Dashboard!Empty] /\ w.stale
    BY <2>3, <2>5, EndedKeeps
  <2>9. Quiet(x)
    BY <2>4, <2>5, EndedKeeps DEF Quiet
  <2>10. CASE Ok(i, "list") /\ Answer(i, v, <<>>)
    BY <2>7, <2>10, ShownStep
  <2>11. CASE Ok(i, "list") /\ Answer(i, w, <<>>)
    <3>1. Dashboard!Empty \in Records(page)
      BY DEF Dashboard!Empty, Records, ValuesOf, Dashboard!Values
    <3>2. w.list.rows \in Records(page)
      BY <2>8, <3>1
    <3>3. Ends(i, w) /\ net[i].status # "sent"
      BY <2>8, <2>11, <3>2 DEF Ends, Ok
    <3>4. QED
      BY <2>11, <3>3, EndsRule
  <2>12. CASE Failed(i, "list") /\ Answer(i, x, <<>>)
    BY <2>9, <2>12, FailedRule DEF Failed
  <2>13. QED
    BY <2>6, <2>10, <2>11, <2>12
<1>7. CASE Dashboard!OtherUser(Dashboard!Values)
  <2>1. OtherUser(Dashboard!Values) /\ Dashboard!Values \subseteq ValuesOf(page)
    BY <1>7, DashboardSame DEF ValuesOf
  <2>2. QED
    BY <2>1, OtherStep
<1>8. QED
  BY <1>1, <1>2, <1>3, <1>4, <1>5, <1>6, <1>7 DEF Dashboard!Next, Dashboard!Calls, Calls

=============================================================================
