---------------------------- MODULE PagesProofs ----------------------------
(***************************************************************************)
(* The components of Clients whose own state says something of their calls *)
(* and of what is stored: the frame with its bells, the messages, the      *)
(* screens of the mobile application, the customer's form, the plans and   *)
(* the settings. For each there is an invariant of its own beside Inv, the *)
(* lemma that it holds when the component appears (Init), and that the     *)
(* component's steps (Step) and the back end's (Serve) keep it. The end of *)
(* the module puts all components together and derives the properties of   *)
(* Clients.                                                                *)
(***************************************************************************)
EXTENDS ClientsProofs, FiniteSetTheorems

-----------------------------------------------------------------------------
(* The frame *)

(* What a list shows as read is read in the storage, and what a call under  *)
(* way will show as read is.                                                *)
Remembers(s) ==
    /\ {"readIds", "shown"} \subseteq DOMAIN s
    /\ IsFcn(s.shown) /\ DOMAIN s.shown = Layout!Centers
    /\ \A c \in Layout!Centers, i \in Item : s.shown[c][i] = "read" => i \in s.readIds
Polls(s, c) == c.op = "notifications" => c.q \subseteq s.readIds
Bells == Remembers(st) /\ \A i \in Calls : Polls(st, net[i])

(* The operators of the frame are those of Clients. *)
LEMMA LayoutSame ==
    /\ \A op, flags, q : Layout!Read(op, flags, q) = Read(op, flags, q)
    /\ \A s, calls : Layout!Send(s, calls) <=> Send(s, calls)
    /\ \A s, calls : Layout!Do(s, calls) <=> Do(s, calls)
    /\ \A i, s, calls : Layout!Answer(i, s, calls) <=> Answer(i, s, calls)
    /\ \A v : Layout!OtherUser(v) <=> OtherUser(v)
    /\ \A s, own : Layout!With(s, own) = With(s, own)
    /\ \A q : Layout!Blank(q) = Blank(q)
    /\ \A i, op : Layout!Ok(i, op) <=> Ok(i, op)
    /\ \A i, op : Layout!Failed(i, op) <=> Failed(i, op)
  BY DEF Layout!Read, Read, Layout!Send, Send, Layout!Sent, Sent,
         Layout!Flags, Flags, Layout!Range, Range, Layout!Do, Do,
         Layout!Answer, Answer, Layout!Others, Others, Layout!OtherUser,
         OtherUser, Layout!With, With, Layout!Blank, Blank, Layout!Ok, Ok,
         Layout!Failed, Failed

(* The frame when it appears. *)
LEMMA LayoutInit == ASSUME Layout!Init PROVE Inv /\ page = "layout" /\ Bells
<1> DEFINE none == [c \in Layout!Centers |-> [i \in Item |-> "none"]]
           own == [stale |-> TRUE, readIds |-> {}, badge |-> 0, shown |-> none]
<1>1. page = "layout" /\ st = With(Blank(None), own) /\ net = <<>> /\ db = [i \in Item |-> "pending"]
  BY LayoutSame DEF Layout!Init
<1>2. /\ DOMAIN own = {"stale", "readIds", "badge", "shown"}
      /\ own.stale = TRUE /\ own.shown = none
  OBVIOUS
<1>3. IsFcn(none) /\ DOMAIN none = Layout!Centers
      /\ \A c \in Layout!Centers, i \in Item : none[c][i] = "none"
  BY DEF IsFcn
<1> HIDE DEF own, none
<1>4. IsWith(st, None, own)
  BY <1>1, Withs
<1>5. IsState(st) /\ st.busy = {} /\ st.acts = 0 /\ st.list.rows = None
  BY <1>2, <1>4 DEF IsWith, IsState
<1>6. st.stale = TRUE
  BY <1>2, <1>4 DEF IsWith
<1>7. page \in Components \ Searching /\ db \in Records(page)
  BY <1>1 DEF Components, Searching, Records, ValuesOf, Layout!Values
<1>8. Opened
  BY <1>5, <1>6, <1>7 DEF Opened
<1>9. Inv
  BY <1>1, <1>5, <1>8, OpenedSilent
<1>10. st.shown = none /\ {"readIds", "shown"} \subseteq DOMAIN st
  BY <1>2, <1>4 DEF IsWith
<1>11. Remembers(st)
  BY <1>3, <1>10 DEF Remembers
<1>12. Calls = {}
  BY <1>1 DEF Calls
<1>13. QED
  BY <1>1, <1>9, <1>11, <1>12 DEF Bells

(* The bells agree after a step that only adds to what is read. *)
LEMMA BellsKept ==
    ASSUME NEW s, Remembers(s), After(s), st.readIds \subseteq s.readIds,
           \A i \in Calls : Polls(st, net[i]),
           NEW c, Polls(s, c),
           \A k \in Calls' : net'[k] = c \/ \E j \in Calls : net'[k] = net[j]
    PROVE  Bells'
<1>1. \A f \in {"readIds", "shown"} : st'[f] = s[f]
  BY DEF Remembers, After, History
<1>2. st'.readIds = s.readIds /\ st'.shown = s.shown /\ DOMAIN st' = DOMAIN s
  BY <1>1 DEF After
<1>3. Remembers(st)'
  BY <1>2 DEF Remembers
<1>4. ASSUME NEW k \in Calls' PROVE Polls(st', net'[k])
  <2>1. CASE net'[k] = c
    BY <1>2, <2>1 DEF Polls
  <2>2. ASSUME NEW j \in Calls, net'[k] = net[j] PROVE Polls(st', net'[k])
    BY <1>2, <2>2 DEF Polls
  <2>3. QED
    BY <2>1, <2>2
<1>5. QED
  BY <1>3, <1>4 DEF Bells

(* The two bells: what is read on one of them is stored before it is shown  *)
(* as read.                                                                 *)
LEMMA LayoutStep == ASSUME Inv, page = "layout", Bells, Layout!Next PROVE Inv' /\ Bells'
<1>0. Shape /\ Quiet(st) /\ Keeps(st) /\ IsFcn(st) /\ Remembers(st)
      /\ \A i \in Calls : Polls(st, net[i])
  BY StIsQuiet DEF Inv, Quiet, Keeps, Bells
<1> DEFINE Goal == Inv' /\ Bells'
           other == Read("pending", {}, None)
<1>a. other.op = "pending"
  BY ReadFields
<1> HIDE DEF other
(* What changes what is shown or stored, and sends nothing. *)
<1>b. ASSUME NEW s, Quiet(s), Remembers(s), st.readIds \subseteq s.readIds,
             Inv', Do(s, <<>>) \/ \E i \in Calls : Answer(i, s, <<>>)
      PROVE  Goal
  <2>1. Keeps(s) /\ IsFcn(s)
    BY <1>b DEF Quiet, Keeps
  <2>3. After(s)
    BY <1>b, <2>1, Afterwards
  <2>4. Gains({"pending"})
    BY <1>0, <1>b, <2>1, GainedNone
  <2>5. \A k \in Calls' : net'[k].op = "pending" \/ \E j \in Calls : net'[k] = net[j]
    BY <2>4 DEF Gains
  <2>6. \A f \in {"readIds", "shown"} : st'[f] = s[f]
    BY <1>b, <2>3 DEF Remembers, After, History
  <2>7. st'.readIds = s.readIds /\ st'.shown = s.shown /\ DOMAIN st' = DOMAIN s
    BY <2>3, <2>6 DEF After
  <2>8. Remembers(st)'
    BY <1>b, <2>7 DEF Remembers
  <2>9. \A k \in Calls' : Polls(st', net'[k])
    BY <1>0, <1>b, <2>5, <2>7 DEF Polls
  <2>10. QED
    BY <1>b, <2>8, <2>9 DEF Bells
<1>1. ASSUME NEW c \in Layout!Centers, Layout!Poll(c) PROVE Goal
  <2> DEFINE d == ReadOf("notifications", {}, st.readIds, c)
  <2>1. d = ReadOf("notifications", {}, st.readIds, c) /\ Send(st, <<d>>)
    BY <1>1, LayoutSame DEF Layout!Poll, Layout!fetchNotifications, Layout!getReadIds, ReadOf
  <2> HIDE DEF d
  <2>2. /\ IsFcn(d) /\ DOMAIN d = CallFields
        /\ d.op = "notifications" /\ d.flags = {} /\ d.q = st.readIds /\ d.item = c /\ d.to = None
        /\ d.status = "sent"
    BY <2>1, ReadOfFields
  <2>3. Carries(page, d)
    BY <2>2 DEF Carries, Reads, Lists
  <2>4. "notifications" \in Reads /\ "notifications" \notin Payloads \cup {"list", "techs"}
    BY DEF Reads, Lists, Payloads
  <2>5. IsCall(page, d)
    BY <2>2, <2>3, <2>4 DEF IsCall
  <2>6. Sends(st, d)
    BY <1>0, <2>2, <2>4, <2>5 DEF Sends, Own, Changes, Quiet
  <2>7. /\ Inv' /\ After(st)
        /\ \A k \in Calls' : net'[k] = d \/ \E j \in Calls : net'[k] = net[j]
    BY <2>1, <2>6, SendsStep
  <2>8. Polls(st, d)
    BY <2>2 DEF Polls
  <2>9. QED
    BY <1>0, <2>7, <2>8, BellsKept
<1>2. ASSUME NEW c \in Layout!Centers, NEW items, items \subseteq Item, Layout!MarkRead(c, items) PROVE Goal
  <2> DEFINE x == [i \in Item |-> IF i \in items THEN "read" ELSE st.shown[c][i]]
             r == st.readIds \cup items
             s == [st EXCEPT !.readIds = r, !.shown[c] = x]
  <2>1. Do(s, <<>>)
    BY <1>2, LayoutSame DEF Layout!MarkRead, Layout!getReadIds
  <2>2. \A i \in Item : x[i] = "read" => i \in items \/ st.shown[c][i] = "read"
    OBVIOUS
  <2> HIDE DEF x, r
  <2>3. /\ IsFcn(s) /\ DOMAIN s = DOMAIN st /\ s.readIds = r /\ s.shown = [st.shown EXCEPT ![c] = x]
        /\ \A f \in DOMAIN st \ {"readIds", "shown"} : s[f] = st[f]
    BY <1>0 DEF IsFcn, Remembers
  <2> HIDE DEF s
  <2>4. Quiet(s)
    BY <1>0, <2>3, QuietDo DEF Fields, Shape, IsState, Searching
  <2>5. IsFcn(s.shown) /\ DOMAIN s.shown = Layout!Centers
    BY <1>0, <2>3 DEF IsFcn, Remembers
  <2>6. ASSUME NEW e \in Layout!Centers, NEW i \in Item, s.shown[e][i] = "read" PROVE i \in s.readIds
    <3>1. CASE e = c
      <4>1. x[i] = "read"
        BY <1>0, <2>3, <2>6, <3>1 DEF Remembers
      <4>2. QED
        BY <1>0, <2>2, <2>3, <4>1 DEF Remembers, r
    <3>2. CASE e # c
      <4>1. st.shown[e][i] = "read"
        BY <1>0, <2>3, <2>6, <3>2 DEF Remembers
      <4>2. QED
        BY <1>0, <2>3, <4>1 DEF Remembers, r
    <3>3. QED
      BY <3>1, <3>2
  <2>7. Remembers(s)
    BY <1>0, <2>3, <2>5, <2>6 DEF Remembers
  <2>8. st.readIds \subseteq s.readIds
    BY <2>3 DEF r
  <2>9. QED
    BY <1>b, <2>1, <2>4, <2>7, <2>8, QuietRule
<1>3. ASSUME NEW c \in Layout!Centers, Layout!markAllRead(c) PROVE Goal
  <2>1. Layout!MarkRead(c, Layout!ShownIn(c)) /\ Layout!ShownIn(c) \subseteq Item
    BY <1>3 DEF Layout!markAllRead, Layout!ShownIn
  <2>2. QED
    BY <1>2, <2>1
<1>4. ASSUME NEW c \in Layout!Centers, NEW i \in Item, Layout!handleItemClick(c, i) PROVE Goal
  <2>1. Layout!MarkRead(c, {i}) /\ {i} \subseteq Item
    BY <1>4 DEF Layout!handleItemClick
  <2>2. QED
    BY <1>2, <2>1
<1>5. CASE Layout!fetchPending
  <2>1. Send(st, <<other>>) /\ Reading(other, "pending", {}, None)
    BY <1>5, LayoutSame, Readings DEF Layout!fetchPending, other
  <2>2. "pending" \in Plain /\ {} \subseteq Common
    BY DEF Plain, Reads, Lists
  <2>3. Inv'
    BY <1>0, <2>1, <2>2, ReadRule DEF Quiet
  <2>4. \A k \in Calls' : net'[k] = other \/ \E j \in Calls : net'[k] = net[j]
    BY <1>0, <2>1, GainedOne
  <2>5. Polls(st, other)
    BY <1>a DEF Polls
  <2>6. After(st)
    BY <1>0, <2>1, Afterwards
  <2>7. QED
    BY <1>0, <2>3, <2>4, <2>5, <2>6, BellsKept
<1>c. ASSUME NEW i \in Calls, net[i].op \in {"notifications", "pending"}, net[i].status # "sent",
             NEW s, Quiet(s), Remembers(s), s.readIds = st.readIds, Answer(i, s, <<>>)
      PROVE  Goal
  <2>1. ~Listing(net[i]) /\ ~Changes(net[i])
    BY <1>0, <1>c DEF Shape, IsCall, Listing, Changes, Reads, Lists, Payloads
  <2>2. Inv'
    BY <1>c, <2>1, AsideRule
  <2>3. QED
    BY <1>b, <1>c, <2>2
<1>6. ASSUME NEW i \in Calls, Layout!Polled(i) PROVE Goal
  <2> DEFINE c == net[i].item
             x == Layout!buildNotifications(net[i].rows, net[i].q)
             y == [st.shown EXCEPT ![c] = x]
             s == [st EXCEPT !.shown[c] = x]
  <2>1. \/ Ok(i, "notifications") /\ Answer(i, s, <<>>)
        \/ Failed(i, "notifications") /\ Answer(i, st, <<>>)
    BY <1>6, LayoutSame DEF Layout!Polled
  <2>2. \A j \in Item : x[j] = "read" => j \in net[i].q
    BY DEF Layout!buildNotifications
  <2> HIDE DEF x
  <2>3. s = [st EXCEPT !.shown = y]
    BY <1>0 DEF Remembers, IsFcn
  <2>4. IsFcn(y) /\ DOMAIN y = Layout!Centers
    BY <1>0 DEF IsFcn, Remembers
  <2> HIDE DEF s
  <2>5. Quiet(s) /\ DOMAIN s = DOMAIN st /\ s.shown = y /\ s.readIds = st.readIds
    <3> HIDE DEF y
    <3>1. "shown" \notin (Fields \ {"dlg"}) \cup {"typed"} /\ {"shown", "readIds"} \subseteq DOMAIN st
      BY <1>0 DEF Fields, Remembers
    <3>2. QED
      BY <2>3, <3>1, SetsField
  <2>6. CASE Ok(i, "notifications") /\ Answer(i, s, <<>>)
    <3>1. net[i].q \subseteq st.readIds
      BY <1>0, <2>6 DEF Ok, Polls
    <3>2. ASSUME NEW e \in Layout!Centers, NEW j \in Item, y[e][j] = "read" PROVE j \in st.readIds
      <4>1. CASE e = c
        BY <1>0, <2>2, <3>1, <3>2, <4>1 DEF Remembers
      <4>2. CASE e # c
        BY <1>0, <3>2, <4>2 DEF Remembers
      <4>3. QED
        BY <4>1, <4>2
    <3>3. Remembers(s)
      <4> HIDE DEF y
      <4>1. QED
        BY <1>0, <2>4, <2>5, <3>2 DEF Remembers
    <3>4. QED
      BY <1>c, <2>5, <2>6, <3>3 DEF Ok
  <2>7. CASE Failed(i, "notifications") /\ Answer(i, st, <<>>)
    BY <1>0, <1>c, <2>7 DEF Failed
  <2>8. QED
    BY <2>1, <2>6, <2>7
<1>7. ASSUME NEW i \in Calls, Layout!PendingFetched(i) PROVE Goal
  <2>0. PICK x : \/ Ok(i, "pending") /\ Answer(i, [st EXCEPT !.badge = x], <<>>)
                 \/ Failed(i, "pending") /\ Answer(i, st, <<>>)
    BY <1>7, LayoutSame DEF Layout!PendingFetched
  <2> DEFINE s == [st EXCEPT !.badge = x]
  <2>1. \/ Ok(i, "pending") /\ Answer(i, s, <<>>)
        \/ Failed(i, "pending") /\ Answer(i, st, <<>>)
    BY <2>0
  <2>2. s = [st EXCEPT !.badge = x]
    OBVIOUS
  <2> HIDE DEF s
  <2>3. /\ Quiet(s) /\ DOMAIN s = DOMAIN st
        /\ \A g \in DOMAIN st : g # "badge" => s[g] = st[g]
    BY <2>2, SetsField DEF Fields
  <2>4. Remembers(s) /\ s.readIds = st.readIds
    BY <1>0, <2>3 DEF Remembers
  <2>5. QED
    BY <1>0, <1>c, <2>1, <2>3, <2>4 DEF Ok, Failed
<1>8. CASE Layout!OtherUser(Layout!Values)
  <2>1. OtherUser(Layout!Values) /\ Layout!Values \subseteq ValuesOf(page)
    BY <1>8, LayoutSame DEF ValuesOf
  <2>2. Inv' /\ net' = net /\ After(st)
    BY <2>1, OtherStep
  <2>3. Polls(st, other)
    BY <1>a DEF Polls
  <2>4. \A k \in Calls' : net'[k] = other \/ \E j \in Calls : net'[k] = net[j]
    BY <2>2 DEF Calls
  <2>5. QED
    BY <1>0, <2>2, <2>3, <2>4, BellsKept
<1>9. QED
  BY <1>1, <1>3, <1>4, <1>5, <1>6, <1>7, <1>8 DEF Layout!Next, Layout!Calls, Calls

-----------------------------------------------------------------------------
(* Messages *)

(* An open modal d is that of the send c that is under way, or a template's. *)
ModalIs(d, c) == c.op \in {"group", "template"} /\ d # None => d.kind \in {c.op, "edit"}
Modals == \A i \in Calls : ModalIs(st.dlg, net[i])

(* The operators of the messages' page are those of Clients. *)
LEMMA MessagesSame ==
    /\ \A op, flags, q, i, v : Messages!Write(op, flags, q, i, v) = Write(op, flags, q, i, v)
    /\ \A op, flags, q : Messages!Read(op, flags, q) = Read(op, flags, q)
    /\ \A s, calls : Messages!Do(s, calls) <=> Do(s, calls)
    /\ \A i, s, calls : Messages!Answer(i, s, calls) <=> Answer(i, s, calls)
    /\ \A v : Messages!OtherUser(v) <=> OtherUser(v)
    /\ \A k, i : Messages!Dialog(k, i) <=> Dialog(k, i)
    /\ Messages!Close <=> Close
    /\ \A i : Messages!Fetched(i) <=> Fetched(i)
    /\ \A s, own : Messages!With(s, own) = With(s, own)
    /\ \A q : Messages!Blank(q) = Blank(q)
    /\ \A i, op : Messages!Ok(i, op) <=> Ok(i, op)
    /\ \A i, op : Messages!Failed(i, op) <=> Failed(i, op)
    /\ \A f : Messages!Idle(f) <=> Idle(f)
    /\ \A k : Messages!DialogIs(k) <=> DialogIs(k)
  BY DEF Messages!Write, Write, Messages!Read, Read, Messages!Do, Do,
         Messages!Send, Send, Messages!Sent, Sent, Messages!Flags, Flags,
         Messages!Range, Range, Messages!Answer, Answer, Messages!Others,
         Others, Messages!OtherUser, OtherUser, Messages!Dialog, Dialog,
         Messages!Close, Close, Messages!Fetched, Fetched, Messages!Ok, Ok,
         Messages!Failed, Failed, Messages!Show, Show, Messages!With, With,
         Messages!Blank, Blank, Messages!Idle, Idle, Messages!DialogIs,
         DialogIs

(* The messages' page when it appears. *)
LEMMA MessagesInit == ASSUME Messages!Init PROVE Inv /\ page = "messages" /\ Modals
<1> DEFINE own == [stale |-> TRUE, busy |-> {"loading"}, tab |-> "send", mode |-> "individual",
                   recipient |-> None, message |-> "", quickLoading |-> None, dropdown |-> FALSE]
           q == [page |-> 1]
           c == Read("customers", {"loading"}, q)
<1>1. page = "messages" /\ st = With(Blank(q), own) /\ net = <<c>> /\ db = [i \in Item |-> "none"]
  BY MessagesSame DEF Messages!Init
<1>2. /\ DOMAIN own = {"stale", "busy", "tab", "mode", "recipient", "message", "quickLoading", "dropdown"}
      /\ own.busy = {"loading"}
  OBVIOUS
<1>3. own.stale = TRUE
  OBVIOUS
<1> HIDE DEF own, q
<1>4. IsWith(st, q, own)
  BY <1>1, Withs
<1>5. IsState(st) /\ st.busy = {"loading"} /\ st.acts = 0 /\ st.list.rows = None
  BY <1>2, <1>4 DEF IsWith, IsState
<1>6. st.stale = TRUE
  BY <1>2, <1>3, <1>4 DEF IsWith
<1>7. page \in Components \ Searching /\ db \in Records(page)
  BY <1>1 DEF Components, Searching, Records, ValuesOf, Messages!Values
<1>8. Opened
  BY <1>5, <1>6, <1>7 DEF Opened
<1>9. Reading(c, "customers", {"loading"}, q) /\ "customers" \in Plain
  BY Readings DEF Plain, Reads, Lists
<1>10. net = <<c>>
  BY <1>1
<1> HIDE DEF c
<1>11. Inv
  BY <1>5, <1>8, <1>9, <1>10, OpenedCalling
<1>12. \A k \in Calls : net[k].op = "customers"
  BY <1>9, <1>10 DEF Calls, Reading
<1>13. QED
  BY <1>1, <1>11, <1>12 DEF Modals, ModalIs

(* Messages.tsx: the modal of a send is that of the send under way. *)
LEMMA MessagesStep == ASSUME Inv, page = "messages", Modals, Messages!Next PROVE Inv' /\ Modals'
<1>0. Shape /\ Quiet(st) /\ Keeps(st) /\ IsState(st) /\ IsFcn(st)
  BY StIsQuiet DEF Inv, Quiet, Keeps, Shape
<1> DEFINE Goal == Inv' /\ Modals'
           Harmless == {"list", "templates", "send", "save", "send-reminders", "send-welcome"}
<1>a. ASSUME st'.dlg \in {None, st.dlg} \/ st'.dlg.kind = "edit", Gains(Harmless) PROVE Modals'
  BY <1>a DEF Modals, ModalIs, Gains
<1>b. ASSUME NEW s, Quiet(s), s.dlg = st.dlg, Do(s, <<>>) PROVE Goal
  <2>1. Inv' /\ st'.dlg = st.dlg /\ net' = net /\ page' = page
    BY <1>b, StateRule
  <2>2. Gains(Harmless)
    BY <2>1, SameGains
  <2>3. QED
    BY <1>a, <2>1, <2>2
<1>c. ASSUME NEW s, IsFcn(s), DOMAIN s = DOMAIN st, \A f \in Fields \ {"stale"} : s[f] = st[f],
             s.stale = st.stale \/ s.stale = TRUE
      PROVE  Quiet(s) /\ s.dlg = st.dlg /\ IsFcn(s)
  <2>1. s.stale \in BOOLEAN /\ (st.stale => s.stale)
    BY <1>0, <1>c DEF Shape
  <2>2. \A f \in {"q", "acts", "busy", "list", "dlg"} : s[f] = st[f]
    BY <1>c DEF Fields
  <2>3. QED
    BY <1>0, <1>c, <2>1, <2>2 DEF Quiet, Keeps, Searching
(* The history is asked for. *)
<1>d. ASSUME NEW s, Keeps(s), s.list = st.list, s.dlg = st.dlg, NEW p, Do(s, Messages!fetchHistory(p))
      PROVE  Goal
  <2> DEFINE q == [page |-> p]
             c == Read("list", {"historyLoading"}, q)
  <2>1. Reading(c, "list", {"historyLoading"}, q) /\ Do(s, <<c>>)
    BY <1>d, MessagesSame, Readings DEF Messages!fetchHistory
  <2> HIDE DEF q, c
  <2>2. "list" \in Plain /\ {"historyLoading"} \subseteq Common
    BY DEF Plain, Reads, Lists, Common
  <2>3. Inv'
    BY <1>d, <2>1, <2>2, ReadRule
  <2>4. st'.dlg = st.dlg
    BY <1>0, <1>d, <2>1, DialogAfter
  <2>5. page' = page /\ \A k \in Calls' : net'[k] = c \/ \E j \in Calls : net'[k] = net[j]
    BY <1>0, <2>1, GainedOne
  <2>6. Gains(Harmless)
    BY <2>1, <2>5 DEF Gains, Reading
  <2>7. QED
    BY <1>a, <2>3, <2>4, <2>6
(* Something is sent that changes a row, or nothing. *)
<1>e. ASSUME NEW s, Quiet(s), s.dlg = st.dlg, NEW c, Writes(c), Changes(c) => s.stale, Do(s, <<c>>),
             \/ c.op \in Harmless
             \/ "sending" \notin st.busy /\ ModalIs(st.dlg, c)
      PROVE  Goal
  <2>1. Sends(s, c)
    BY <1>e, WritesSends
  <2>2. /\ Inv' /\ st'.dlg = st.dlg /\ page' = page
        /\ \A k \in Calls' : net'[k] = c \/ \E j \in Calls : net'[k] = net[j]
    BY <1>e, <2>1, SendsStep DEF After
  <2>3. CASE c.op \in Harmless
    <3>1. Gains(Harmless)
      BY <2>2, <2>3 DEF Gains
    <3>2. QED
      BY <1>a, <2>2, <3>1
  <2>4. CASE ModalIs(st.dlg, c)
    BY <2>2, <2>4 DEF Modals, ModalIs
  <2>5. QED
    BY <1>e, <2>3, <2>4
(* An answer that is no list. *)
<1>f. ASSUME NEW i \in Calls, net[i].status # "sent", ~Listing(net[i]),
             NEW s, Quiet(s), s.dlg \in {None, st.dlg} \/ s.dlg.kind = "edit", Answer(i, s, <<>>)
      PROVE  Goal
  <2>1. page \in Silent
    BY DEF Silent
  <2>2. Inv'
    BY <1>f, <2>1, AsideRule
  <2>3. st'.dlg = s.dlg /\ Gains(Harmless)
    BY <1>0, <1>f, DialogAfter, GainedNone DEF Quiet
  <2>4. QED
    BY <1>a, <1>f, <2>2, <2>3
<1>g. ASSUME NEW f \in {"tab", "mode", "message", "recipient", "quickLoading", "dropdown"}, NEW x,
             NEW s, s = [st EXCEPT ![f] = x]
      PROVE  Quiet(s) /\ s.dlg = st.dlg
  BY <1>0, <1>g, SetsField DEF Fields, IsState
<1>1. ASSUME NEW t, Messages!setTab(t) PROVE Goal
  <2> DEFINE u == [st EXCEPT !.tab = t]
             s == [st EXCEPT !.tab = t, !.q.page = 1]
  <2>1. Do(s, Messages!fetchHistory(1)) \/ Do(u, <<>>)
    BY <1>1, MessagesSame DEF Messages!setTab
  <2>2. Quiet(u) /\ u.dlg = st.dlg
    BY <1>g
  <2>3. IsFcn(s) /\ DOMAIN s = DOMAIN st /\ \A f \in DOMAIN st \ {"tab", "q"} : s[f] = st[f]
    BY <1>0 DEF IsFcn
  <2> HIDE DEF s, u
  <2>4. Keeps(s) /\ s.list = st.list /\ s.dlg = st.dlg
    BY <1>0, <2>3 DEF Keeps, Fields, IsState, Searching
  <2>5. QED
    BY <1>b, <1>d, <2>1, <2>2, <2>4
<1>2. ASSUME NEW p, Messages!Paginate(p) PROVE Goal
  <2> DEFINE s == [st EXCEPT !.q.page = p]
  <2>1. Do(s, Messages!fetchHistory(p))
    BY <1>2, MessagesSame DEF Messages!Paginate
  <2>2. IsFcn(s) /\ DOMAIN s = DOMAIN st /\ \A f \in DOMAIN st \ {"q"} : s[f] = st[f]
    BY <1>0 DEF IsFcn
  <2> HIDE DEF s
  <2>3. Keeps(s) /\ s.list = st.list /\ s.dlg = st.dlg
    BY <1>0, <2>2 DEF Keeps, Fields, IsState, Searching
  <2>4. QED
    BY <1>d, <2>1, <2>3
<1>3. ASSUME NEW m, Messages!setSendMode(m) PROVE Goal
  <2> DEFINE s == [st EXCEPT !.mode = m, !.message = ""]
  <2>1. Do(s, <<>>)
    BY <1>3, MessagesSame DEF Messages!setSendMode
  <2>2. IsFcn(s) /\ DOMAIN s = DOMAIN st /\ \A f \in DOMAIN st \ {"mode", "message"} : s[f] = st[f]
    BY <1>0 DEF IsFcn
  <2> HIDE DEF s
  <2>3. QED
    BY <1>0, <1>b, <1>c, <2>1, <2>2 DEF Fields, IsState
<1>4. ASSUME NEW t, Messages!setMessage(t) PROVE Goal
  BY <1>4, <1>b, <1>g, MessagesSame DEF Messages!setMessage
<1>5. ASSUME NEW i, Messages!setSelectedRecipient(i) PROVE Goal
  BY <1>5, <1>b, <1>g, MessagesSame DEF Messages!setSelectedRecipient
<1> DEFINE stale == [st EXCEPT !.stale = TRUE]
<1>h. Quiet(stale) /\ stale.dlg = st.dlg /\ stale.stale = TRUE
  <2>1. IsFcn(stale) /\ DOMAIN stale = DOMAIN st /\ \A f \in DOMAIN st \ {"stale"} : stale[f] = st[f]
    BY <1>0 DEF IsFcn
  <2>2. stale.stale = TRUE
    BY <1>0 DEF IsState, Fields
  <2> HIDE DEF stale
  <2>3. QED
    BY <1>0, <1>c, <2>1, <2>2 DEF IsState, Fields
<1> HIDE DEF stale
<1>i. ASSUME NEW flag, flag \in {"sending", "saving"}, flag \notin st.busy, NEW op,
             op \notin Reads \cup Payloads, op = "save" \/ flag = "sending",
             NEW i, NEW v, v \in {None, "sent"}, op \in {"save", "reminders"} => v = None, NEW c,
             op \notin {"test", "config"}, c = Write(op, {flag}, st.q, i, v)
      PROVE  Writes(c) /\ c.op = op
  <2>1. {flag} \cap Common = {} /\ {flag} \cap st.busy = {} /\ v \in ValuesOf(page) \cup {None}
    BY <1>i DEF Common, ValuesOf, Messages!Values
  <2>2. c.op = op /\ c.flags = {flag} /\ c.to = v
    BY <1>i, WriteFields
  <2>3. Carries(page, c)
    BY <1>i, <2>2 DEF Carries
  <2>4. op \notin Reads \cup Payloads /\ c = Write(op, {flag}, st.q, i, v)
    BY <1>i
  <2>5. QED
    BY <2>1, <2>3, <2>4, WriteIs
<1>6. CASE Messages!handleSendIndividual
  <2> DEFINE c == Write("send", {"sending"}, st.q, st.recipient, "sent")
  <2>1. Do(stale, <<c>>) /\ "sending" \notin st.busy
    BY <1>6, MessagesSame DEF Messages!handleSendIndividual, Messages!CanSend, Idle, stale
  <2>2. "send" \notin Reads \cup Payloads
    BY DEF Reads, Lists, Payloads
  <2>3. Writes(c) /\ c.op = "send"
    BY <1>i, <2>1, <2>2
  <2> HIDE DEF c
  <2>4. QED
    BY <1>e, <1>h, <2>1, <2>3
<1>7. ASSUME NEW m, Messages!setConfirmModal(m) PROVE Goal
  <2> DEFINE d == [kind |-> m, item |-> None]
             s == [st EXCEPT !.dlg = d]
  <2>1. Do(s, <<>>) /\ "sending" \notin st.busy /\ s = [st EXCEPT !.dlg = d]
    BY <1>7, MessagesSame DEF Messages!setConfirmModal, Messages!CanSend, Idle
  <2> HIDE DEF s, d
  <2>2. Quiet(s)
    BY <2>1, SetsDialog
  <2>3. Inv' /\ net' = net
    BY <2>1, <2>2, StateRule
  <2>4. ASSUME NEW i \in Calls, net[i].op \in {"group", "template"} PROVE FALSE
    <3>1. "sending" \in net[i].flags
      BY <1>0, <2>4 DEF Shape, IsCall, Carries
    <3>2. QED
      BY <2>1, <3>1, BusyWith DEF Common
  <2>5. QED
    BY <2>3, <2>4 DEF Modals, ModalIs, Calls
<1>8. CASE Messages!handleConfirm
  <2> DEFINE op == st.dlg.kind
             c == Write(op, {"sending"}, st.q, None, "sent")
  <2>1. Do(stale, <<c>>) /\ "sending" \notin st.busy /\ st.dlg # None /\ op \in {"group", "template"}
    BY <1>8, MessagesSame DEF Messages!handleConfirm, Idle, DialogIs, stale
  <2>2. op \notin Reads \cup Payloads /\ op \notin {"test", "config", "save", "reminders"}
    BY <2>1 DEF Reads, Lists, Payloads
  <2> HIDE DEF op
  <2>3. Writes(c) /\ c.op = op
    BY <1>i, <2>1, <2>2
  <2> HIDE DEF c
  <2>4. ModalIs(st.dlg, c)
    BY <2>3 DEF ModalIs, op
  <2>5. QED
    BY <1>e, <1>h, <2>1, <2>3, <2>4
<1>9. CASE Messages!CloseModal
  <2>1. Close
    BY <1>9, MessagesSame DEF Messages!CloseModal
  <2>2. Inv' /\ st'.dlg = None /\ Gains(Harmless)
    BY <2>1, CloseRule, SameGains
  <2>3. QED
    BY <1>a, <2>2
<1>10. CASE Messages!handleSave
  <2> DEFINE c == Write("save", {"saving"}, st.q, st.dlg.item, None)
  <2>1. Do(st, <<c>>) /\ "saving" \notin st.busy
    BY <1>10, MessagesSame DEF Messages!handleSave, Idle
  <2>2. "save" \notin Reads \cup Payloads
    BY DEF Reads, Lists, Payloads
  <2>3. Writes(c) /\ c.op = "save"
    BY <1>i, <2>1, <2>2
  <2>4. ~Changes(c)
    BY <2>3, WriteFields DEF Changes, Payloads
  <2> HIDE DEF c
  <2>5. QED
    BY <1>0, <1>e, <2>1, <2>3, <2>4
<1>11. CASE Messages!setShowWelcomeDropdown
  <2>1. PICK x : Do([st EXCEPT !.dropdown = x], <<>>)
    BY <1>11, MessagesSame DEF Messages!setShowWelcomeDropdown
  <2>2. QED
    BY <1>b, <1>g, <2>1
<1>12. ASSUME NEW a \in {"send-reminders", "send-welcome"}, NEW i, Messages!handleQuickAction(a, i) PROVE Goal
  <2> DEFINE v == IF a = "send-welcome" THEN "sent" ELSE None
             j == IF a = "send-welcome" THEN i ELSE None
             flags == {}
             c == Write(a, flags, st.q, j, v)
  <2>1. PICK x : Do([st EXCEPT !.quickLoading = a, !.stale = TRUE, !.dropdown = x], <<c>>)
    BY <1>12, MessagesSame DEF Messages!handleQuickAction
  <2> DEFINE s == [st EXCEPT !.quickLoading = a, !.stale = TRUE, !.dropdown = x]
  <2>2. Do(s, <<c>>)
    BY <2>1
  <2>3. /\ IsFcn(s) /\ DOMAIN s = DOMAIN st
        /\ \A f \in DOMAIN st \ {"stale", "quickLoading", "dropdown"} : s[f] = st[f]
    BY <1>0 DEF IsFcn
  <2>4. s.stale = TRUE
    BY <1>0 DEF IsState, Fields
  <2>5. /\ v \in ValuesOf(page) \cup {None} /\ flags \cap Common = {} /\ flags \cap st.busy = {}
        /\ a \notin Reads \cup Payloads /\ c = Write(a, flags, st.q, j, v)
    BY DEF ValuesOf, Messages!Values, Reads, Lists, Payloads
  <2> HIDE DEF s, c, v, j, flags
  <2>6. Quiet(s) /\ s.dlg = st.dlg
    BY <1>0, <1>c, <2>3, <2>4 DEF IsState, Fields
  <2>7. c.op = a
    BY <2>5, WriteFields
  <2>8. Carries(page, c)
    BY <2>7 DEF Carries
  <2>9. Writes(c)
    BY <2>5, <2>8, WriteIs
  <2>10. QED
    BY <1>e, <2>2, <2>4, <2>6, <2>7, <2>9
<1>13. ASSUME NEW i, Messages!setEditingTemplate(i) PROVE Goal
  <2>1. Dialog("edit", i)
    BY <1>13, MessagesSame DEF Messages!setEditingTemplate
  <2>2. Inv' /\ st'.dlg = [kind |-> "edit", item |-> i] /\ Gains(Harmless)
    BY <2>1, DialogRule, SameGains
  <2>3. st'.dlg.kind = "edit"
    BY <2>2
  <2>4. QED
    BY <1>a, <2>2, <2>3
<1>14. ASSUME NEW i \in Calls, Messages!MessageSent(i) PROVE Goal
  <2> DEFINE sent == [st EXCEPT !.message = "", !.recipient = None]
             blank == [st EXCEPT !.message = ""]
             Closed(u) == Messages!Unconfirmed(u)
  <2>1. ASSUME NEW u, Quiet(u), u.dlg = st.dlg PROVE Quiet(Closed(u)) /\ (Closed(u).dlg \in {None, st.dlg})
    <3> DEFINE x == IF DialogIs("edit") THEN u.dlg ELSE None
               w == [u EXCEPT !.dlg = x]
    <3>1. Closed(u) = w
      BY MessagesSame DEF Messages!Unconfirmed
    <3>2. w = [u EXCEPT !.dlg = x] /\ x \in {None, st.dlg}
      BY <2>1
    <3> HIDE DEF w, x
    <3>3. IsFcn(u) /\ DOMAIN u = DOMAIN st /\ u.q = st.q /\ u.list = st.list
      BY <2>1 DEF Quiet, Keeps
    <3>4. IsFcn(w) /\ DOMAIN w = DOMAIN u /\ (\A f \in DOMAIN u \ {"dlg"} : w[f] = u[f]) /\ w.dlg = x
      BY <1>0, <3>2, <3>3 DEF IsFcn, IsState, Fields
    <3>5. Quiet(w)
      BY <1>0, <2>1, <3>3, <3>4 DEF Quiet, Keeps, IsState, Fields, Searching
    <3>6. QED
      BY <3>1, <3>2, <3>4, <3>5
  <2>2. Quiet(sent) /\ sent.dlg = st.dlg
    <3>1. IsFcn(sent) /\ DOMAIN sent = DOMAIN st
          /\ \A f \in DOMAIN st \ {"message", "recipient"} : sent[f] = st[f]
      BY <1>0 DEF IsFcn
    <3> HIDE DEF sent
    <3>2. QED
      BY <1>0, <1>c, <3>1 DEF Fields, IsState
  <2>3. Quiet(blank) /\ blank.dlg = st.dlg
    BY <1>g
  <2>4. PICK s \in {sent, st, Closed(blank), Closed(st)} :
          Answer(i, s, <<>>) /\ net[i].status # "sent"
          /\ net[i].op \in {"send", "group", "template"}
    BY <1>14, MessagesSame DEF Messages!MessageSent, Messages!Answered, Ok, Failed
  <2> HIDE DEF sent, blank, Closed
  <2>5. Quiet(s) /\ s.dlg \in {None, st.dlg}
    BY <1>0, <2>1, <2>2, <2>3, <2>4
  <2>6. ~Listing(net[i])
    BY <2>4 DEF Listing
  <2>7. QED
    BY <1>f, <2>4, <2>5, <2>6
<1>15. ASSUME NEW i \in Calls, Messages!QuickDone(i) PROVE Goal
  <2> DEFINE s == [st EXCEPT !.quickLoading = None]
  <2>1. Answer(i, s, <<>>) /\ net[i].status # "sent" /\ ~Listing(net[i])
    BY <1>15, MessagesSame DEF Messages!QuickDone, Messages!Answered, Ok, Failed, Listing
  <2>2. Quiet(s) /\ s.dlg = st.dlg
    BY <1>g
  <2> HIDE DEF s
  <2>3. QED
    BY <1>f, <2>1, <2>2
<1>16. ASSUME NEW i \in Calls, Messages!Saved(i) PROVE Goal
  <2> DEFINE s == IF DialogIs("edit") THEN [st EXCEPT !.dlg = None] ELSE st
             c == Read("templates", {}, st.q)
  <2>1. (Ok(i, "save") /\ Answer(i, s, <<c>>)) \/ (Failed(i, "save") /\ Answer(i, st, <<>>))
    BY <1>16, MessagesSame DEF Messages!Saved
  <2>2. Quiet(s)
    BY ClosedQuiet
  <2>3. s.dlg \in {None, st.dlg}
    BY <1>0 DEF IsState, Fields
  <2>4. Reading(c, "templates", {}, st.q) /\ "templates" \in Plain \ {"list"}
    BY Readings DEF Plain, Reads, Lists
  <2> HIDE DEF s, c
  <2>5. CASE Ok(i, "save") /\ Answer(i, s, <<c>>)
    <3>1. ~Listing(net[i]) /\ ~Changes(net[i]) /\ net[i].status # "sent"
      BY <1>0, <2>5 DEF Shape, IsCall, Carries, Ok, Listing, Changes, Payloads
    <3>2. {} \ Common \subseteq net[i].flags
      OBVIOUS
    <3>3. Inv'
      BY <2>2, <2>4, <2>5, <3>1, <3>2, NextRule
    <3>4. st'.dlg = s.dlg
      BY <1>0, <2>2, <2>5, DialogAfter DEF Quiet
    <3>5. page' = page /\ \A k \in Calls' : net'[k] = c \/ \E j \in Calls : net'[k] = net[j]
      BY <1>0, <2>5, GainedOne
    <3>6. Gains(Harmless)
      BY <2>4, <3>5 DEF Gains, Reading
    <3>7. QED
      BY <1>a, <2>3, <3>3, <3>4, <3>6
  <2>6. CASE Failed(i, "save") /\ Answer(i, st, <<>>)
    <3>1. ~Listing(net[i]) /\ net[i].status # "sent"
      BY <2>6 DEF Failed, Listing
    <3>2. QED
      BY <1>0, <1>f, <2>6, <3>1
  <2>7. QED
    BY <2>1, <2>5, <2>6
<1>17. ASSUME NEW i \in Calls, Messages!Loaded(i) PROVE Goal
  <2>1. Answer(i, st, <<>>) /\ net[i].status # "sent" /\ ~Listing(net[i])
    BY <1>17, MessagesSame DEF Messages!Loaded, Messages!Answered, Ok, Failed, Listing
  <2>2. QED
    BY <1>0, <1>f, <2>1
<1>18. ASSUME NEW i \in Calls, Messages!Fetched(i) PROVE Goal
  <2>1. Inv' /\ st'.dlg = st.dlg /\ Gains({"list"})
    BY <1>18, MessagesSame, FetchedRule
  <2>2. Gains(Harmless)
    BY <2>1 DEF Gains
  <2>3. QED
    BY <1>a, <2>1, <2>2
<1>19. CASE Messages!OtherUser({"sent"})
  <2>1. OtherUser({"sent"}) /\ {"sent"} \subseteq ValuesOf(page)
    BY <1>19, MessagesSame DEF ValuesOf, Messages!Values
  <2>2. Inv' /\ st'.dlg = st.dlg /\ net' = net /\ page' = page
    BY <2>1, OtherStep DEF After
  <2>3. Gains(Harmless)
    BY <2>2, SameGains
  <2>4. QED
    BY <1>a, <2>2, <2>3
<1>20. QED
  BY <1>1, <1>2, <1>3, <1>4, <1>5, <1>6, <1>7, <1>8, <1>9, <1>10, <1>11, <1>12, <1>13, <1>14, <1>15,
     <1>16, <1>17, <1>18, <1>19
  DEF Messages!Next, Messages!Calls, Calls

-----------------------------------------------------------------------------
(* The screens of the mobile application *)

Asks == {"disconnect", "reconnect", "approve", "reject"}

(* While an alert asks, the write it asks about is not under way. *)
Calm == st.dlg # None /\ st.dlg.kind \in Asks => "processing" \notin st.busy

(* What the components' types say of a screen. *)
LEMMA MobilePage ==
    ASSUME NEW p \in Mobile!Screens
    PROVE  /\ ValuesOf(p) = Mobile!Clients \cup Mobile!Payments
           /\ p \in Silent /\ p \in Components /\ p \notin Searching /\ p \notin {"submit", "messages"}
<1>1. p \notin {"payments", "subscriptions", "customers", "plans", "staff", "messages", "mikrotik",
               "settings", "dashboard", "logs", "layout", "submit"}
  BY DEF Mobile!Screens
<1>2. ValuesOf(p) = Mobile!Clients \cup Mobile!Payments
  BY <1>1 DEF ValuesOf
<1>3. QED
  BY <1>1, <1>2 DEF Silent, Components, Searching

(* The operators of the mobile screens are those of Clients. *)
LEMMA MobileSame ==
    /\ \A op, flags, q, i, v : Mobile!Write(op, flags, q, i, v) = Write(op, flags, q, i, v)
    /\ \A op, flags, q : Mobile!Read(op, flags, q) = Read(op, flags, q)
    /\ \A s, calls : Mobile!Do(s, calls) <=> Do(s, calls)
    /\ \A i, s, calls : Mobile!Answer(i, s, calls) <=> Answer(i, s, calls)
    /\ \A v : Mobile!OtherUser(v) <=> OtherUser(v)
    /\ \A k, i : Mobile!Dialog(k, i) <=> Dialog(k, i)
    /\ Mobile!Close <=> Close
    /\ \A q : Mobile!Fetch(q) = Fetch(q)
    /\ \A i : Mobile!Fetched(i) <=> Fetched(i)
    /\ \A p, s, rows : Mobile!Mount(p, s, rows) <=> Mount(p, s, rows)
    /\ \A s, own : Mobile!With(s, own) = With(s, own)
    /\ \A q : Mobile!Blank(q) = Blank(q)
    /\ \A i, op : Mobile!Ok(i, op) <=> Ok(i, op)
    /\ \A i, op : Mobile!Failed(i, op) <=> Failed(i, op)
    /\ \A f : Mobile!Idle(f) <=> Idle(f)
    /\ \A k : Mobile!DialogIs(k) <=> DialogIs(k)
    /\ \A s, i : Mobile!Show(s, i) = Show(s, i)
  BY DEF Mobile!Write, Write, Mobile!Read, Read, Mobile!Do, Do, Mobile!Send,
         Send, Mobile!Sent, Sent, Mobile!Flags, Flags, Mobile!Range, Range,
         Mobile!Answer, Answer, Mobile!Others, Others, Mobile!OtherUser,
         OtherUser, Mobile!Dialog, Dialog, Mobile!Close, Close, Mobile!Fetch,
         Fetch, Mobile!Fetched, Fetched, Mobile!Ok, Ok, Mobile!Failed, Failed,
         Mobile!Show, Show, Mobile!Mount, Mount, Mobile!With, With,
         Mobile!Blank, Blank, Mobile!Idle, Idle, Mobile!DialogIs, DialogIs

(* Each screen keeps the invariant when it appears. *)
LEMMA ScreenInit ==
    ASSUME NEW p \in Mobile!Screens, NEW i \in Item, NEW v \in Mobile!Clients \cup Mobile!Payments,
           Mobile!Screen(p, i, v)
    PROVE  Inv /\ page = p /\ Calm
<1> DEFINE own == [subject |-> i, notes |-> FALSE]
           q == [all |-> TRUE]
           s == With(Blank(q), own)
           rows == [j \in Item |-> v]
<1>1. Mount(p, s, rows) /\ s = With(Blank(q), own) /\ DOMAIN own = {"subject", "notes"}
  BY MobileSame DEF Mobile!Screen
<1>2. rows \in Records(p)
  BY MobilePage DEF Records
<1> HIDE DEF own, q, s, rows
<1>3. IsWith(s, q, own)
  BY <1>1, Withs
<1>4. /\ IsState(s) /\ s.acts = 0 /\ s.busy = {} /\ s.list = [q |-> None, rows |-> None]
      /\ s.dlg = None
  BY <1>1, <1>3 DEF IsWith, IsState
<1>5. Starts(p, s, rows)
  BY <1>2, <1>4, MobilePage DEF Starts
<1>6. Inv /\ page = p
  BY <1>1, <1>5, MountRule DEF Mount
<1>7. st.dlg = None
  BY <1>1, <1>4, Mounted DEF IsState, Fields, History
<1>8. QED
  BY <1>6, <1>7 DEF Calm

(* The mobile screens when they appear. *)
LEMMA MobileInit == ASSUME Mobile!Init PROVE Inv /\ page \in Mobile!Screens /\ Calm
<1>1. PICK p \in Mobile!Screens, i \in Item, v \in Mobile!Clients \cup Mobile!Payments : Mobile!Screen(p, i, v)
  BY DEF Mobile!Init, Mobile!Screens, Mobile!Payments
<1>2. QED
  BY <1>1, ScreenInit

(* The screens: while an alert asks, what it asks about is not under way. *)
LEMMA MobileStep ==
    ASSUME Inv, page \in Mobile!Screens, Calm, Mobile!Next
    PROVE  Inv' /\ Calm'
<1>0. Shape /\ Quiet(st) /\ Keeps(st) /\ IsState(st) /\ IsFcn(st)
  BY StIsQuiet DEF Inv, Quiet, Keeps, Shape
<1> DEFINE Goal == Inv' /\ Calm'
           Asking(d) == d # None /\ d.kind \in Asks
<1>a. page \in Silent /\ ValuesOf(page) = Mobile!Clients \cup Mobile!Payments /\ page \notin Searching
      /\ page \notin {"submit", "messages"}
  BY MobilePage
<1>b. "processing" \notin Common
  BY DEF Common
<1>c. ASSUME st'.dlg = st.dlg \/ ~Asking(st'.dlg) \/ "processing" \notin st.busy, Inv',
             \A k \in Calls' : "processing" \notin net'[k].flags \/ \E j \in Calls : net'[k].flags = net[j].flags
      PROVE  Goal
  <2>1. CASE Asking(st'.dlg)
    <3>1. "processing" \notin st.busy
      BY <1>c, <2>1 DEF Calm
    <3>2. "processing" \notin st'.busy
      BY <1>b, <1>c, <3>1, BusyFrom
    <3>3. QED
      BY <1>c, <3>2 DEF Calm
  <2>2. CASE ~Asking(st'.dlg)
    BY <1>c, <2>2 DEF Calm
  <2>3. QED
    BY <2>1, <2>2
(* A handler that sends nothing. *)
<1>d. ASSUME NEW s, Quiet(s), s.dlg = st.dlg \/ ~Asking(s.dlg) \/ "processing" \notin st.busy, Do(s, <<>>)
      PROVE  Goal
  <2>1. Inv' /\ st'.dlg = s.dlg /\ net' = net
    BY <1>d, StateRule
  <2>2. QED
    BY <1>c, <1>d, <2>1 DEF Calls
(* An answer after which nothing is sent. *)
<1>e. ASSUME NEW i \in Calls, NEW s, Keeps(s), s.dlg = st.dlg \/ ~Asking(s.dlg), Inv', Answer(i, s, <<>>)
      PROVE  Goal
  <2>1. st'.dlg = s.dlg /\ Gains({})
    BY <1>0, <1>e, DialogAfter, GainedNone
  <2>2. \A k \in Calls' : \E j \in Calls : net'[k] = net[j]
    BY <2>1 DEF Gains
  <2>3. QED
    BY <1>c, <1>e, <2>1, <2>2
(* The answer of a write. *)
<1>f. ASSUME NEW i \in Calls, net[i].op \notin Reads, net[i].status # "sent", NEW s, Quiet(s),
             s.dlg = st.dlg \/ ~Asking(s.dlg), Answer(i, s, <<>>)
      PROVE  Goal
  <2>1. ~Listing(net[i])
    BY <1>f DEF Listing, Reads, Lists
  <2>2. Inv'
    BY <1>a, <1>f, <2>1, AsideRule
  <2>3. QED
    BY <1>e, <1>f, <2>2 DEF Quiet
(* A write. *)
<1>g. ASSUME NEW s, Quiet(s), s.stale = TRUE, ~Asking(s.dlg), NEW c, Writes(c), Do(s, <<c>>)
      PROVE  Goal
  <2>1. Sends(s, c)
    BY <1>g, WritesSends
  <2>2. Inv' /\ st'.dlg = s.dlg
    BY <1>g, <2>1, SendsStep
  <2>3. QED
    BY <1>g, <2>2 DEF Calm
<1>h. ASSUME NEW op, op \in Asks \cup {"submit", "profile", "password", "location"},
             NEW flag, flag \in {"processing", "profile", "password", "location"}, flag \notin st.busy,
             page \in {"client", "payment"} => flag = "processing",
             NEW i, NEW v, v \in Mobile!Clients \cup Mobile!Payments \cup {None},
             NEW c, c = Write(op, {flag}, st.q, i, v)
      PROVE  Writes(c)
  <2>1. /\ op \notin Reads \cup Payloads /\ op \notin {"test", "config", "reminders", "save"}
        /\ op \notin {"decide", "check", "delete", "group", "template", "notifications"}
    BY <1>h DEF Reads, Lists, Payloads, Asks
  <2>2. {flag} \cap Common = {} /\ {flag} \cap st.busy = {} /\ v \in ValuesOf(page) \cup {None}
    BY <1>a, <1>h DEF Common
  <2>3. c.op = op /\ c.flags = {flag}
    BY <1>h, WriteFields
  <2>4. page \notin {"payments", "subscriptions", "plans", "mikrotik", "messages", "layout", "submit"}
    BY DEF Mobile!Screens
  <2>5. Carries(page, c)
    BY <1>h, <2>1, <2>3, <2>4 DEF Carries
  <2>6. c = Write(op, {flag}, st.q, i, v) /\ op \notin Reads \cup Payloads
    BY <1>h, <2>1
  <2>7. QED
    BY <2>2, <2>5, <2>6, WriteIs
<1>i. ASSUME NEW d, NEW s, s = [st EXCEPT !.dlg = d, !.stale = TRUE]
      PROVE  Quiet(s) /\ s.dlg = d /\ s.stale = TRUE
  <2>1. IsFcn(s) /\ DOMAIN s = DOMAIN st /\ (\A f \in DOMAIN st \ {"dlg", "stale"} : s[f] = st[f]) /\ s.dlg = d
    BY <1>0, <1>i DEF IsState, IsFcn, Fields
  <2>2. s.stale = TRUE
    BY <1>0, <1>i DEF IsState, Fields
  <2>3. Quiet(s)
    BY <1>0, <1>a, <2>1, <2>2 DEF Quiet, Keeps, IsState, Fields
  <2>4. QED
    BY <2>1, <2>2, <2>3
(* What is shown is asked for again. *)
<1>j. ASSUME NEW s, Quiet(s), s.dlg = st.dlg \/ ~Asking(s.dlg), Do(s, Fetch(st.q))
      PROVE  Goal
  <2> DEFINE c == Read("list", {"loading"}, st.q)
  <2>1. Do(s, <<c>>) /\ Reading(c, "list", {"loading"}, st.q)
    BY <1>j, Readings DEF Fetch
  <2> HIDE DEF c
  <2>2. "list" \in Plain /\ {"loading"} \subseteq Common
    BY DEF Plain, Reads, Lists, Common
  <2>3. Inv'
    BY <1>j, <2>1, <2>2, ReadRule DEF Quiet
  <2>4. st'.dlg = s.dlg
    BY <1>0, <1>j, <2>1, DialogAfter DEF Quiet
  <2>5. \A k \in Calls' : net'[k] = c \/ \E j \in Calls : net'[k] = net[j]
    BY <1>0, <2>1, GainedOne
  <2>6. \A k \in Calls' : "processing" \notin net'[k].flags \/ \E j \in Calls : net'[k].flags = net[j].flags
    BY <2>1, <2>5 DEF Reading
  <2>7. QED
    BY <1>c, <1>j, <2>3, <2>4, <2>6
<1>k. ASSUME NEW d, NEW s, s = [st EXCEPT !.dlg = d] PROVE Quiet(s) /\ s.dlg = d
  BY <1>k, SetsDialog
<1>l. ASSUME Close PROVE Goal
  <2> DEFINE s == [st EXCEPT !.dlg = None]
  <2>1. Do(s, <<>>) /\ Quiet(s) /\ s.dlg = None
    BY <1>k, <1>l DEF Close
  <2> HIDE DEF s
  <2>2. QED
    BY <1>d, <2>1
<1>m. ASSUME NEW kind, NEW i, Dialog(kind, i), kind \notin Asks \/ "processing" \notin st.busy PROVE Goal
  <2> DEFINE d == [kind |-> kind, item |-> i]
             s == [st EXCEPT !.dlg = d]
  <2>1. Do(s, <<>>) /\ Quiet(s) /\ s.dlg = d /\ d.kind = kind
    BY <1>k, <1>m DEF Dialog
  <2> HIDE DEF s, d
  <2>2. QED
    BY <1>d, <1>m, <2>1
<1>1. CASE Mobile!onRefresh
  BY <1>0, <1>1, <1>j, MobileSame DEF Mobile!onRefresh, Mobile!refetch
<1>2. CASE Mobile!handleDisconnect \/ Mobile!handleReconnect \/ Mobile!handleApprove \/ Mobile!handleReject
  <2>1. "processing" \notin st.busy
        /\ \E kind \in Asks : Dialog(kind, st.subject)
    BY <1>2, MobileSame
    DEF Mobile!handleDisconnect, Mobile!handleReconnect, Mobile!handleApprove, Mobile!handleReject,
        Mobile!CanAct, Mobile!Ask, Idle, Asks
  <2>2. QED
    BY <1>m, <2>1
<1>n. ASSUME NEW kind \in Asks, NEW v \in Mobile!Clients \cup Mobile!Payments,
             Mobile!Confirm(kind, "processing", v)
      PROVE  Goal
  <2> DEFINE s == [st EXCEPT !.dlg = None, !.stale = TRUE]
             c == Write(kind, {"processing"}, st.q, st.subject, v)
  <2>1. DialogIs(kind) /\ Do(s, <<c>>)
    BY <1>n, MobileSame DEF Mobile!Confirm
  <2>2. "processing" \notin st.busy
    BY <2>1 DEF DialogIs, Calm
  <2>3. Quiet(s) /\ s.dlg = None /\ s.stale = TRUE
    BY <1>i
  <2>4. Writes(c)
    BY <1>h, <2>2
  <2> HIDE DEF s, c
  <2>5. QED
    BY <1>g, <2>1, <2>3, <2>4
<1>3. CASE Mobile!doDisconnect \/ Mobile!doReconnect \/ Mobile!doApprove \/ Mobile!doReject
  <2>1. \E kind \in Asks, v \in Mobile!Clients \cup Mobile!Payments : Mobile!Confirm(kind, "processing", v)
    <3>1. /\ {"disconnect", "reconnect", "approve", "reject"} \subseteq Asks
          /\ {"suspended", "active", "approved", "rejected"} \subseteq Mobile!Clients \cup Mobile!Payments
      BY DEF Asks, Mobile!Clients, Mobile!Payments
    <3>2. QED
      BY <1>3, <3>1 DEF Mobile!doDisconnect, Mobile!doReconnect, Mobile!doApprove, Mobile!doReject
  <2>2. QED
    BY <1>n, <2>1
<1>4. CASE Mobile!dismissClient
  <2> DEFINE s == [st EXCEPT !.dlg = None]
  <2>1. Do(s, Fetch(st.q)) \/ Close
    BY <1>4, MobileSame DEF Mobile!dismissClient, Mobile!Cancel, Mobile!refetch
  <2>2. Quiet(s) /\ s.dlg = None
    BY <1>k
  <2> HIDE DEF s
  <2>3. QED
    BY <1>j, <1>l, <2>1, <2>2
<1>5. CASE Mobile!dismissPayment \/ Mobile!dismissSubmit \/ Mobile!closeModal
  BY <1>5, <1>l, MobileSame DEF Mobile!dismissPayment, Mobile!dismissSubmit, Mobile!closeModal, Mobile!Cancel
<1>6. CASE Mobile!setNotes \/ Mobile!setMethod
  <2>1. PICK x : Do([st EXCEPT !.notes = x], <<>>)
    BY <1>6, MobileSame DEF Mobile!setNotes, Mobile!setMethod
  <2> DEFINE s == [st EXCEPT !.notes = x]
  <2>2. Do(s, <<>>) /\ s = [st EXCEPT !.notes = x]
    BY <2>1
  <2> HIDE DEF s
  <2>3. Quiet(s) /\ s.dlg = st.dlg
    BY <1>0, <2>2, SetsField DEF Fields, IsState
  <2>4. QED
    BY <1>d, <2>2, <2>3
<1> DEFINE stale == [st EXCEPT !.stale = TRUE]
<1>o. Quiet(stale) /\ stale.dlg = st.dlg /\ stale.stale = TRUE
  <2>1. stale = [st EXCEPT !.stale = TRUE]
    OBVIOUS
  <2> HIDE DEF stale
  <2>2. Keeps(stale) /\ \A g \in DOMAIN st : g # "stale" => stale[g] = st[g]
    BY <1>0, <2>1, KeepsStale
  <2>3. stale.stale = TRUE
    BY <1>0, <2>1 DEF IsState, Fields
  <2>4. QED
    BY <1>0, <2>2, <2>3 DEF Quiet, IsState, Fields
<1> HIDE DEF stale
<1>7. CASE Mobile!handleSubmit
  <2> DEFINE c == Write("submit", {"processing"}, st.q, st.subject, "pending")
  <2>1. Do(stale, <<c>>) /\ "processing" \notin st.busy /\ st.dlg = None
    BY <1>7, MobileSame DEF Mobile!handleSubmit, Mobile!Alerted, Idle, stale
  <2>2. "pending" \in Mobile!Clients \cup Mobile!Payments \cup {None}
    BY DEF Mobile!Payments
  <2>3. Writes(c)
    BY <1>h, <2>1, <2>2
  <2> HIDE DEF c
  <2>4. QED
    BY <1>g, <1>o, <2>1, <2>3
<1>8. ASSUME NEW k \in {"profile", "password"}, Mobile!open(k) PROVE Goal
  <2>1. Dialog(k, None) /\ k \notin Asks
    BY <1>8, MobileSame DEF Mobile!open, Asks
  <2>2. QED
    BY <1>m, <2>1
<1>p. ASSUME NEW k, k \in {"profile", "password", "location"}, page = "profile", k \notin st.busy,
             ~Asking(st.dlg), Do(stale, <<Write(k, {k}, st.q, st.subject, None)>>)
      PROVE  Goal
  <2> DEFINE c == Write(k, {k}, st.q, st.subject, None)
  <2>1. Writes(c)
    BY <1>h, <1>p
  <2>2. Do(stale, <<c>>)
    BY <1>p
  <2> HIDE DEF c
  <2>3. QED
    BY <1>g, <1>o, <1>p, <2>1, <2>2
<1>9. ASSUME NEW k \in {"profile", "password"}, Mobile!save(k) PROVE Goal
  <2>1. /\ page = "profile" /\ k \notin st.busy /\ st.dlg.kind = k /\ k \notin Asks
        /\ Do(stale, <<Write(k, {k}, st.q, st.subject, None)>>)
    BY <1>9, MobileSame DEF Mobile!save, Mobile!OnProfile, Idle, DialogIs, Asks, stale
  <2>2. QED
    BY <1>p, <2>1
<1>10. CASE Mobile!handleUpdateLocation
  <2>1. /\ page = "profile" /\ "location" \notin st.busy /\ st.dlg = None
        /\ Do(stale, <<Write("location", {"location"}, st.q, st.subject, None)>>)
    BY <1>10, MobileSame DEF Mobile!handleUpdateLocation, Mobile!OnProfile, Mobile!Alerted, Idle, stale
  <2>2. QED
    BY <1>p, <2>1
<1>11. ASSUME NEW i \in Calls, Mobile!Reported(i) PROVE Goal
  <2> DEFINE kind == IF net[i].status = "ok" THEN "done" ELSE "error"
             d == [kind |-> kind, item |-> st.subject]
             s == [st EXCEPT !.dlg = d]
  <2>1. net[i].op \notin Reads /\ net[i].status # "sent" /\ Answer(i, s, <<>>)
    BY <1>11, MobileSame DEF Mobile!Reported, Mobile!Report, Mobile!Reads, Reads, Mobile!Lists, Lists
  <2>2. Quiet(s) /\ s.dlg = d /\ d.kind \notin Asks
    BY <1>k DEF Asks
  <2> HIDE DEF s, d
  <2>3. QED
    BY <1>f, <2>1, <2>2
<1>12. ASSUME NEW i \in Calls, Mobile!ProfileSaved(i) PROVE Goal
  <2> DEFINE s == IF DialogIs("password") THEN [st EXCEPT !.dlg = None] ELSE st
             c == ReadOf("list", net[i].flags, st.q, net[i].op)
  <2>1. \/ net[i].status = "ok" /\ Answer(i, st, <<c>>)
        \/ net[i].status = "ok" /\ Answer(i, s, <<>>)
        \/ net[i].status = "failed" /\ Answer(i, st, <<>>)
    BY <1>12, MobileSame DEF Mobile!ProfileSaved, Mobile!ClosedAs, ReadOf, Ok
  <2>2. net[i].op \notin Reads
    BY <1>12 DEF Mobile!ProfileSaved, Mobile!Reads, Reads, Mobile!Lists, Lists
  <2>3. Quiet(s)
    BY ClosedQuiet
  <2>4. s.dlg = None \/ s.dlg = st.dlg
    BY <1>0 DEF IsState, Fields
  <2>5. Reading(c, "list", net[i].flags, st.q)
    BY Readings DEF ReadOf
  <2> HIDE DEF s, c
  <2>6. CASE net[i].status = "ok" /\ Answer(i, st, <<c>>)
    <3>1. net[i].flags \ Common \subseteq net[i].flags
      OBVIOUS
    <3>2. Inv' /\ st'.dlg = st.dlg
      BY <1>0, <2>5, <2>6, <3>1, ThenStep
    <3>3. \A k \in Calls' : net'[k] = c \/ \E j \in Calls : net'[k] = net[j]
      BY <1>0, <2>6, GainedOne
    <3>4. \A k \in Calls' : \E j \in Calls : net'[k].flags = net[j].flags
      BY <2>5, <3>3 DEF Reading
    <3>5. QED
      BY <1>c, <3>2, <3>4
  <2>7. CASE net[i].status # "sent" /\ (Answer(i, s, <<>>) \/ Answer(i, st, <<>>))
    BY <1>0, <1>f, <2>2, <2>3, <2>4, <2>7
  <2>8. QED
    BY <2>1, <2>6, <2>7
<1>13. ASSUME NEW i \in Calls, Mobile!refreshUser(i) PROVE Goal
  <2> DEFINE u == Show(st, i)
             k == net[i].item
             s == IF DialogIs(k) THEN [u EXCEPT !.dlg = None] ELSE u
             w == IF DialogIs(k) THEN [st EXCEPT !.dlg = None] ELSE st
  <2>1. (Ok(i, "list") /\ Answer(i, s, <<>>)) \/ (Failed(i, "list") /\ Answer(i, w, <<>>))
    BY <1>13, MobileSame DEF Mobile!refreshUser, Mobile!ClosedAs
  <2>2. Quiet(w)
    BY ClosedQuiet
  <2>3. w.dlg = None \/ w.dlg = st.dlg
    BY <1>0 DEF IsState, Fields
  <2>4. /\ Keeps(s) /\ s.q = st.q /\ s.list = [q |-> net[i].q, rows |-> net[i].rows]
        /\ (s.dlg = None \/ s.dlg = st.dlg)
    <3> DEFINE v == [u EXCEPT !.dlg = None]
    <3>1. u = Show(st, i) /\ v = [u EXCEPT !.dlg = None] /\ (s = u \/ s = v)
      OBVIOUS
    <3> HIDE DEF u, v, s
    <3>2. /\ Keeps(u) /\ u.q = st.q /\ u.list = [q |-> net[i].q, rows |-> net[i].rows]
          /\ u.dlg = st.dlg /\ DOMAIN u = DOMAIN st
      BY <1>0, <3>1, ShowsQuiet
    <3>3. Keeps(v) /\ (\A g \in DOMAIN u : g # "dlg" => v[g] = u[g]) /\ ("dlg" \in DOMAIN u => v["dlg"] = None)
      BY <3>1, <3>2, KeepsBut
    <3>4. v.q = u.q /\ v.list = u.list /\ v.dlg = None
      BY <1>0, <3>2, <3>3 DEF IsState, Fields
    <3>5. QED
      BY <3>1, <3>2, <3>3, <3>4
  <2> HIDE DEF u, k, s, w
  <2>5. CASE Ok(i, "list") /\ Answer(i, s, <<>>)
    <3>1. Inv'
      BY <2>4, <2>5, ShownRule
    <3>2. QED
      BY <1>e, <2>4, <2>5, <3>1
  <2>6. CASE Failed(i, "list") /\ Answer(i, w, <<>>)
    <3>1. Inv' /\ Keeps(w)
      BY <2>2, <2>6, FailedRule DEF Failed, Quiet
    <3>2. QED
      BY <1>e, <2>3, <2>6, <3>1
  <2>7. QED
    BY <2>1, <2>5, <2>6
<1>14. ASSUME NEW i \in Calls, Mobile!useApi(i) PROVE Goal
  <2>1. Fetched(i)
    BY <1>14, MobileSame DEF Mobile!useApi
  <2> DEFINE s == Show(st, i)
  <2>2. Inv' /\ (Answer(i, s, <<>>) \/ Answer(i, st, <<>>)) /\ s = Show(st, i)
    BY <2>1, FetchedRule DEF Fetched
  <2> HIDE DEF s
  <2>3. Keeps(s) /\ s.dlg = st.dlg
    BY <2>2, ShowKeeps
  <2>4. QED
    BY <1>0, <1>e, <2>2, <2>3
<1>15. CASE Mobile!OtherUser(IF page \in {"client", "profile"} THEN Mobile!Clients ELSE Mobile!Payments)
  <2> DEFINE values == IF page \in {"client", "profile"} THEN Mobile!Clients ELSE Mobile!Payments
  <2>1. OtherUser(values) /\ values \subseteq ValuesOf(page)
    BY <1>15, <1>a, MobileSame
  <2> HIDE DEF values
  <2>2. Inv' /\ st'.dlg = st.dlg /\ net' = net
    BY <2>1, OtherStep
  <2>3. QED
    BY <1>c, <2>2 DEF Calls
<1>16. QED
  BY <1>1, <1>2, <1>3, <1>4, <1>5, <1>6, <1>7, <1>8, <1>9, <1>10, <1>11, <1>12, <1>13, <1>14, <1>15
  DEF Mobile!Next, Mobile!Calls, Calls

-----------------------------------------------------------------------------
(* The customer's form *)

(* The amount is that of the subscription that is chosen, or was typed.     *)
Form(s) ==
    /\ {"mine", "subscription", "amount", "success", "failures"} \subseteq DOMAIN s
    /\ s.mine \subseteq Item
    /\ s.subscription \in Item \cup {None} /\ s.amount \in {s.subscription, "", None}

(* Every payment stands for an act of the customer. *)
Paid ==
    /\ Form(st)
    /\ \A i \in Item : db[i] <= st.acts
    /\ \A i \in Calls : net[i].to = None \/ net[i].to <= st.acts

(* The operators of the customer's form are those of Clients. *)
LEMMA SubmitPaymentSame ==
    /\ \A op, flags, q, i, v : SubmitPayment!Write(op, flags, q, i, v) = Write(op, flags, q, i, v)
    /\ \A op, flags, q : SubmitPayment!Read(op, flags, q) = Read(op, flags, q)
    /\ \A s, calls : SubmitPayment!Do(s, calls) <=> Do(s, calls)
    /\ \A i, s, calls : SubmitPayment!Answer(i, s, calls) <=> Answer(i, s, calls)
    /\ \A p, s, rows : SubmitPayment!Mount(p, s, rows) <=> Mount(p, s, rows)
    /\ \A s, own : SubmitPayment!With(s, own) = With(s, own)
    /\ \A q : SubmitPayment!Blank(q) = Blank(q)
    /\ \A i, op : SubmitPayment!Ok(i, op) <=> Ok(i, op)
    /\ \A i, op : SubmitPayment!Failed(i, op) <=> Failed(i, op)
    /\ \A f : SubmitPayment!Idle(f) <=> Idle(f)
    /\ \A s, i : SubmitPayment!Show(s, i) = Show(s, i)
  BY DEF SubmitPayment!Write, Write, SubmitPayment!Read, Read,
         SubmitPayment!Do, Do, SubmitPayment!Send, Send, SubmitPayment!Sent,
         Sent, SubmitPayment!Flags, Flags, SubmitPayment!Range, Range,
         SubmitPayment!Answer, Answer, SubmitPayment!Others, Others,
         SubmitPayment!Mount, Mount, SubmitPayment!Fetch, Fetch,
         SubmitPayment!With, With, SubmitPayment!Blank, Blank,
         SubmitPayment!Ok, Ok, SubmitPayment!Failed, Failed,
         SubmitPayment!Idle, Idle, SubmitPayment!Show, Show

(* The customer's form when it appears. *)
LEMMA SubmitPaymentInit == ASSUME SubmitPayment!Init PROVE Inv /\ page = "submit" /\ Paid
<1> DEFINE own(m) == [mine |-> m, subscription |-> None, amount |-> None, success |-> FALSE, failures |-> 0]
           q == [all |-> TRUE]
           t(m) == With(Blank(q), own(m))
           r == [j \in Item |-> 0]
<1>1. PICK m \in SUBSET Item : Mount("submit", t(m), r)
  BY SubmitPaymentSame DEF SubmitPayment!Init
<1> DEFINE o == own(m)
           s == t(m)
<1>2. /\ DOMAIN o = {"mine", "subscription", "amount", "success", "failures"}
      /\ o.mine = m /\ o.subscription = None /\ o.amount = None
      /\ s = With(Blank(q), o) /\ Mount("submit", s, r)
  BY <1>1
<1>3. r \in Records("submit") /\ "submit" \in Components /\ "submit" \notin Searching
  <2>1. MaxActs["submit"] \in Nat
    BY PageAssumption, ClientsAssumption DEF Components
  <2>2. 0 \in 0..MaxActs["submit"]
    BY <2>1
  <2>3. ValuesOf("submit") = 0..MaxActs["submit"]
    BY DEF ValuesOf
  <2>4. QED
    BY <2>2, <2>3 DEF Records, Components, Searching
<1>4. \A j \in Item : r[j] = 0
  OBVIOUS
<1> HIDE DEF o, own, q, s, t, r
<1>5. IsWith(s, q, o)
  BY <1>2, Withs
<1>6. IsState(s) /\ s.acts = 0 /\ s.busy = {} /\ s.list = [q |-> None, rows |-> None]
  BY <1>2, <1>5 DEF IsWith, IsState
<1>7. Starts("submit", s, r)
  BY <1>3, <1>6 DEF Starts
<1>8. Inv /\ page = "submit" /\ db = r /\ net = Fetch(s.q)
  BY <1>2, <1>7, MountRule DEF Mount
<1>9. Form(s)
  BY <1>2, <1>5 DEF IsWith, Form
<1>10. st.mine = s.mine /\ st.subscription = s.subscription /\ st.amount = s.amount /\ DOMAIN st = DOMAIN s
  BY <1>2, <1>6, <1>9, Mounted DEF Form, History
<1>11. Form(st)
  BY <1>9, <1>10 DEF Form
<1>12. \A i \in Calls : net[i].to = None
  <2>1. Read("list", {"loading"}, s.q).to = None
    BY ReadFields
  <2>2. QED
    BY <1>8, <2>1 DEF Calls, Fetch
<1>13. st.acts \in Nat
  <2>1. MaxActs["submit"] \in Nat
    BY PageAssumption, ClientsAssumption DEF Components
  <2>2. QED
    BY <1>8, <2>1 DEF Inv, Shape
<1>14. \A i \in Item : db[i] <= st.acts
  BY <1>4, <1>8, <1>13
<1>15. QED
  BY <1>8, <1>11, <1>12, <1>14 DEF Paid

(* The payments are bounded by the acts after a step that adds an act at    *)
(* most.                                                                    *)
LEMMA PaidKept ==
    ASSUME Paid, NEW s, Form(s), After(s), db' = db, st.acts <= st'.acts,
           db \in [Item -> Nat], \A i \in Calls : net[i].to \in Nat \cup {None},
           st.acts \in Nat, st'.acts \in Nat,
           NEW c, c.to = None \/ c.to <= st'.acts,
           \A k \in Calls' : net'[k] = c \/ \E j \in Calls : net'[k] = net[j]
    PROVE  Paid'
<1>1. DOMAIN st' = DOMAIN s /\ st'.mine = s.mine /\ st'.subscription = s.subscription /\ st'.amount = s.amount
  BY DEF After, Form, History
<1>2. Form(st')
  BY <1>1 DEF Form
<1>3. ASSUME NEW i \in Item PROVE db[i] <= st'.acts
  <2>1. db[i] \in Nat /\ db[i] <= st.acts
    BY DEF Paid
  <2>2. QED
    BY <2>1
<1>4. ASSUME NEW j \in Calls PROVE net[j].to = None \/ net[j].to <= st'.acts
  <2>1. net[j].to \in Nat \cup {None} /\ (net[j].to = None \/ net[j].to <= st.acts)
    BY DEF Paid
  <2>2. QED
    BY <2>1
<1>5. ASSUME NEW k \in Calls' PROVE net'[k].to = None \/ net'[k].to <= st'.acts
  BY <1>4
<1>6. QED
  BY <1>2, <1>3, <1>5 DEF Paid

(* The types of the form's rows and calls. *)
LEMMA PaidTypes ==
    ASSUME Inv, page = "submit"
    PROVE  /\ ValuesOf(page) = 0..MaxActs[page] /\ MaxActs[page] \in Nat /\ st.acts \in Nat
           /\ db \in [Item -> Nat] /\ \A i \in Calls : net[i].to \in Nat \cup {None}
           /\ st.acts <= MaxActs[page]
<1>1. MaxActs["submit"] \in Nat
  BY PageAssumption, ClientsAssumption DEF Components
<1>2. ValuesOf(page) = 0..MaxActs[page] /\ MaxActs[page] \in Nat
  BY <1>1 DEF ValuesOf
<1>3. st.acts \in 0..MaxActs[page] /\ db \in [Item -> ValuesOf(page)]
      /\ \A i \in Calls : net[i].to \in ValuesOf(page) \cup {None}
  BY DEF Inv, Shape, Records, IsCall
<1>4. QED
  BY <1>2, <1>3

(* The back end makes no payment that was not sent. *)
LEMMA PaidServe == ASSUME Inv, page = "submit", Paid, NEW i \in Calls, Serve(i) PROVE Paid'
<1>1. /\ st' = st /\ Calls' = Calls /\ \A j \in Calls : j # i => net'[j] = net[j]
      /\ net'[i].to = net[i].to /\ (db' = db \/ db' = Applied(net[i]))
  BY Served DEF Inv
<1>2. \A j \in Calls : net'[j].to = net[j].to
  BY <1>1
<1>3. net[i].op \notin Payloads
  BY DEF Inv, Shape, IsCall
<1>4. ASSUME NEW k \in Item PROVE Applied(net[i])[k] <= st.acts
  <2>1. Applied(net[i])[k] = db[k] \/ (net[i].to # None /\ Applied(net[i])[k] = net[i].to)
    BY <1>3 DEF Applied
  <2>2. QED
    BY <2>1 DEF Paid
<1>5. \A k \in Item : db'[k] <= st'.acts
  BY <1>1, <1>4 DEF Paid
<1>6. QED
  BY <1>1, <1>2, <1>5 DEF Paid

(* SubmitPayment.tsx: every handler and answer keeps the form's types. *)
LEMMA SubmitPaymentStep ==
    ASSUME Inv, page = "submit", Paid, SubmitPayment!Next
    PROVE  Inv' /\ Paid'
<1>0. Shape /\ Quiet(st) /\ Keeps(st) /\ IsState(st) /\ IsFcn(st) /\ Form(st)
  BY StIsQuiet DEF Inv, Quiet, Keeps, Shape, Paid
<1>a. /\ ValuesOf(page) = 0..MaxActs[page] /\ MaxActs[page] \in Nat /\ st.acts \in Nat
      /\ db \in [Item -> Nat] /\ (\A i \in Calls : net[i].to \in Nat \cup {None})
      /\ st.acts <= MaxActs[page]
  BY PaidTypes
<1> DEFINE Goal == Inv' /\ Paid'
(* What sends nothing. *)
<1>b. ASSUME NEW s, Keeps(s), Form(s), Inv', Do(s, <<>>) \/ \E i \in Calls : Answer(i, s, <<>>)
      PROVE  Goal
  <2> DEFINE c == Read("list", {}, None)
  <2>1. c.to = None
    BY ReadFields
  <2> HIDE DEF c
  <2>2. IsFcn(s)
    BY <1>b DEF Keeps
  <2>3. After(s)
    BY <1>b, <2>2, Afterwards
  <2>4. db' = db /\ (st'.acts = st.acts \/ st'.acts = st.acts + 1)
    BY <1>0, <1>b, ActsAfter
  <2>5. st'.acts \in Nat /\ st.acts <= st'.acts
    BY <1>a, <2>4
  <2>6. Gains({})
    BY <1>0, <1>b, GainedNone
  <2>7. \A k \in Calls' : \E j \in Calls : net'[k] = net[j]
    BY <2>6 DEF Gains
  <2>8. Paid'
    BY <1>a, <1>b, <2>1, <2>3, <2>4, <2>5, <2>7, PaidKept
  <2>9. QED
    BY <1>b, <2>8
<1>c. ASSUME NEW f, f \in {"success", "failures", "amount", "subscription"}, NEW x, NEW s, s = [st EXCEPT ![f] = x],
             f = "amount" => x = "", f # "subscription"
      PROVE  Quiet(s) /\ Form(s)
  <2>1. Quiet(s) /\ DOMAIN s = DOMAIN st /\ (f \in DOMAIN st => s[f] = x) /\ \A g \in DOMAIN st : g # f => s[g] = st[g]
    <3>1. f \notin (Fields \ {"dlg"}) \cup {"typed"}
      BY <1>c DEF Fields
    <3>2. QED
      BY <1>c, <3>1, SetsField
  <2>2. s.mine = st.mine /\ s.subscription = st.subscription /\ (s.amount = st.amount \/ s.amount = "")
    BY <1>0, <1>c, <2>1 DEF Form
  <2>3. QED
    BY <1>0, <2>1, <2>2 DEF Form
<1>d. ASSUME NEW i \in Item, NEW s, s = SubmitPayment!Chosen(i)
      PROVE  Quiet(s) /\ Form(s)
  <2>1. /\ IsFcn(s) /\ DOMAIN s = DOMAIN st /\ s.subscription = i /\ s.amount = i
        /\ \A g \in DOMAIN st : g \notin {"subscription", "amount"} => s[g] = st[g]
    BY <1>0, <1>d DEF SubmitPayment!Chosen, Form, IsFcn
  <2>2. \A g \in Fields \ {"dlg", "timer"} : s[g] = st[g]
    BY <1>0, <2>1 DEF Fields, IsState
  <2>3. page \notin Searching
    BY DEF Searching
  <2>4. Quiet(s)
    BY <2>1, <2>2, <2>3, QuietDo
  <2>5. s.mine = st.mine
    BY <1>0, <2>1 DEF Form
  <2>6. QED
    BY <1>0, <2>1, <2>4, <2>5 DEF Form
(* The answer of the list, with what was chosen. *)
<1>e. ASSUME NEW i \in Calls, Ok(i, "list"), NEW u, Quiet(u), Form(u), Answer(i, Show(u, i), <<>>)
      PROVE  Goal
  <2> DEFINE s == Show(u, i)
  <2>1. s = Show(u, i) /\ Answer(i, s, <<>>)
    BY <1>e
  <2> HIDE DEF s
  <2>2. /\ Keeps(s) /\ s.q = st.q /\ s.list = [q |-> net[i].q, rows |-> net[i].rows]
        /\ DOMAIN s = DOMAIN u /\ \A g \in DOMAIN u \ {"list"} : s[g] = u[g]
    BY <1>e, <2>1, ShowsQuiet
  <2>3. Form(s)
    BY <1>e, <2>2 DEF Form
  <2>4. Inv'
    BY <1>e, <2>1, <2>2, ShownRule
  <2>5. QED
    BY <1>b, <2>1, <2>2, <2>3, <2>4
<1>1. ASSUME NEW i \in Item, SubmitPayment!handleSubscriptionChange(i) PROVE Goal
  <2> DEFINE s == SubmitPayment!Chosen(i)
  <2>1. Do(s, <<>>) /\ s = SubmitPayment!Chosen(i)
    BY <1>1, SubmitPaymentSame DEF SubmitPayment!handleSubscriptionChange
  <2> HIDE DEF s
  <2>2. Quiet(s) /\ Form(s)
    BY <1>d, <2>1
  <2>3. QED
    BY <1>b, <2>1, <2>2, QuietRule DEF Quiet
<1>2. CASE SubmitPayment!setAmount
  <2> DEFINE s == [st EXCEPT !.amount = ""]
  <2>1. Do(s, <<>>) /\ s = [st EXCEPT !.amount = ""]
    BY <1>2, SubmitPaymentSame DEF SubmitPayment!setAmount
  <2> HIDE DEF s
  <2>2. Quiet(s) /\ Form(s)
    BY <1>c, <2>1
  <2>3. QED
    BY <1>b, <2>1, <2>2, QuietRule DEF Quiet
<1>3. CASE SubmitPayment!handleSubmit
  <2> DEFINE i == st.subscription
             v == db[i] + 1
             s == [st EXCEPT !.stale = TRUE]
             c == WriteOf("submit", {"submitting"}, st.q, i, v, st.amount)
  <2>1. Do(s, <<c>>) /\ "submitting" \notin st.busy /\ i # None /\ st.amount # None
    BY <1>3, SubmitPaymentSame DEF SubmitPayment!handleSubmit, SubmitPayment!validate, Idle, WriteOf
  <2>2. /\ s = [st EXCEPT !.stale = TRUE]
        /\ c = WriteOf("submit", {"submitting"}, st.q, i, v, st.amount)
    OBVIOUS
  <2>3. i \in Item /\ st.amount \in {i, ""}
    BY <1>0, <2>1 DEF Form
  <2>4. v \in Nat /\ v <= st.acts + 1
    <3>1. db[i] \in Nat /\ db[i] <= st.acts
      BY <1>a, <2>3 DEF Paid
    <3> HIDE DEF i
    <3>2. QED
      BY <1>a, <3>1
  <2> HIDE DEF s, c, i, v
  <2>5. Keeps(s) /\ s.stale /\ DOMAIN s = DOMAIN st /\ \A g \in DOMAIN st : g # "stale" => s[g] = st[g]
    BY <1>0, <2>2, KeepsStale
  <2>6. Quiet(s)
    BY <1>0, <2>5 DEF Quiet, IsState, Fields
  <2>7. Form(s)
    BY <1>0, <2>5 DEF Form
  <2>8. /\ IsFcn(c) /\ DOMAIN c = CallFields
        /\ c.op = "submit" /\ c.flags = {"submitting"} /\ c.q = st.q /\ c.item = i /\ c.to = v
        /\ c.status = "sent" /\ c.rows = st.amount
    BY <2>2, WriteWith
  <2>9. st'.acts = st.acts + 1 /\ db' = db /\ st.acts < MaxActs[page]
    BY <1>0, <2>1, <2>5, ActsAfter
  <2>10. v \in ValuesOf(page) /\ st'.acts \in Nat /\ st.acts <= st'.acts /\ v <= st'.acts
    BY <1>a, <2>4, <2>9
  <2>11. Carries(page, c)
    BY <2>3, <2>8 DEF Carries
  <2>12. "submit" \notin Reads \cup Payloads /\ {"submitting"} \cap Common = {} /\ {"submitting"} \cap st.busy = {}
    BY <2>1 DEF Reads, Lists, Payloads, Common
  <2>13. Writes(c)
    BY <2>8, <2>10, <2>11, <2>12 DEF Writes
  <2>14. Sends(s, c)
    BY <2>5, <2>6, <2>13, WritesSends
  <2>15. /\ Inv' /\ After(s)
         /\ \A k \in Calls' : net'[k] = c \/ \E j \in Calls : net'[k] = net[j]
    BY <2>1, <2>14, SendsStep
  <2>16. c.to <= st'.acts
    BY <2>8, <2>10
  <2>17. Paid'
    BY <1>a, <2>7, <2>9, <2>10, <2>15, <2>16, PaidKept
  <2>18. QED
    BY <2>15, <2>17
<1>4. ASSUME NEW i \in Calls, SubmitPayment!fetchMine(i) PROVE Goal
  <2>1. CASE Ok(i, "list") /\ Answer(i, Show(st, i), <<>>)
    BY <1>0, <1>e, <2>1
  <2>2. ASSUME NEW k \in Item, Ok(i, "list") /\ Answer(i, Show(SubmitPayment!Chosen(k), i), <<>>) PROVE Goal
    <3> DEFINE u == SubmitPayment!Chosen(k)
    <3>1. Answer(i, Show(u, i), <<>>) /\ u = SubmitPayment!Chosen(k)
      BY <2>2
    <3> HIDE DEF u
    <3>2. Quiet(u) /\ Form(u)
      BY <1>d, <3>1
    <3>3. QED
      BY <1>e, <2>2, <3>1, <3>2
  <2>3. CASE Failed(i, "list") /\ Answer(i, st, <<>>)
    <3>1. Inv'
      BY <1>0, <2>3, FailedRule DEF Failed
    <3>2. QED
      BY <1>0, <1>b, <2>3, <3>1
  <2>4. QED
    BY <1>4, <2>1, <2>2, <2>3, SubmitPaymentSame DEF SubmitPayment!fetchMine
<1>5. ASSUME NEW i \in Calls, SubmitPayment!Submitted(i) PROVE Goal
  <2>1. PICK f, x : /\ f \in {"success", "failures"} /\ Answer(i, [st EXCEPT ![f] = x], <<>>)
                   /\ net[i].status # "sent" /\ net[i].op = "submit"
    BY <1>5, SubmitPaymentSame DEF SubmitPayment!Submitted, Ok, Failed
  <2> DEFINE s == [st EXCEPT ![f] = x]
  <2>2. s = [st EXCEPT ![f] = x] /\ Answer(i, s, <<>>)
    BY <2>1
  <2> HIDE DEF s
  <2>3. Quiet(s) /\ Form(s)
    BY <1>c, <2>1, <2>2
  <2>4. page \in Silent /\ ~Listing(net[i])
    BY <2>1 DEF Silent, Listing
  <2>5. Inv'
    BY <2>1, <2>2, <2>3, <2>4, AsideRule
  <2>6. QED
    BY <1>b, <2>2, <2>3, <2>5 DEF Quiet
<1>6. QED
  BY <1>1, <1>2, <1>3, <1>4, <1>5 DEF SubmitPayment!Next, SubmitPayment!Calls, Calls

(* One form, one payment: while a payment is submitted it is the only one,  *)
(* and it is not counted yet; the form is gone when it was confirmed.       *)
Made == SubmitPayment!Made
Submits(c) == c.op = "submit"
Unserved == \A i \in Calls : Submits(net[i]) => net[i].status = "sent"
Single ==
    /\ st.failures \in Nat
    /\ IsFiniteSet(Made) /\ Cardinality(Made) <= st.failures + 1
    /\ ~st.success /\ Unserved => Cardinality(Made) <= st.failures
    /\ \A i \in Calls : ~Submits(net[i]) => net[i].to = None
    /\ \A i \in Calls : Submits(net[i]) =>
         /\ ~st.success /\ "submitting" \in net[i].flags /\ net[i].item \in Item
         /\ net[i].status = "sent" => net[i].to = db[net[i].item] + 1

(* A payment is not nothing. *)
LEMMA NoneIsNoNumber == None \notin Nat
BY ClientsAssumption

(* One payment is under way at a time: its button is disabled. *)
LEMMA OneSubmit ==
    ASSUME Inv, Single, NEW i \in Calls, NEW j \in Calls, Submits(net[i]), Submits(net[j])
    PROVE  i = j
<1>1. "submitting" \in net[i].flags /\ "submitting" \in net[j].flags
  BY DEF Single
<1>2. "submitting" \notin Common
  BY DEF Common
<1>3. QED
  BY <1>1, <1>2, OneHolder

(* One more payment of subscription k is one more payment. *)
LEMMA OneMore ==
    ASSUME db \in [Item -> Nat], IsFiniteSet(Made), NEW k \in Item,
           db' = [db EXCEPT ![k] = db[k] + 1]
    PROVE  IsFiniteSet(Made') /\ Cardinality(Made') <= Cardinality(Made) + 1
<1>1. Made' = Made \cup {<<k, db[k] + 1>>}
  <2>1. ASSUME NEW x PROVE x \in Made <=> \E i \in Item : \E n \in 1..db[i] : x = <<i, n>>
    BY DEF Made, SubmitPayment!Made
  <2>2. ASSUME NEW x PROVE x \in Made' <=> \E i \in Item : \E n \in 1..db'[i] : x = <<i, n>>
    BY DEF Made, SubmitPayment!Made
  <2>3. 1..(db[k] + 1) = 1..db[k] \cup {db[k] + 1}
    <3>1. db[k] \in Nat
      OBVIOUS
    <3>2. QED
      BY <3>1
  <2>4. db'[k] = db[k] + 1 /\ \A i \in Item : i # k => db'[i] = db[i]
    OBVIOUS
  <2>5. ASSUME NEW x PROVE x \in Made' <=> x \in Made \/ x = <<k, db[k] + 1>>
    BY <2>1, <2>2, <2>3, <2>4
  <2>6. QED
    BY <2>5
<1>2. Cardinality(Made) \in Nat
  BY FS_CardinalityType
<1>3. /\ IsFiniteSet(Made \cup {<<k, db[k] + 1>>})
      /\ Cardinality(Made \cup {<<k, db[k] + 1>>}) \in {Cardinality(Made), Cardinality(Made) + 1}
  BY FS_AddElement
<1>4. QED
  BY <1>1, <1>2, <1>3

(* A step that makes no payment, sends none and answers none. *)
LEMMA SingleKept ==
    ASSUME Single, db' = db, st'.failures = st.failures, st'.success = st.success,
           \A k \in Calls' : (net'[k].to = None /\ ~Submits(net'[k])) \/ \E j \in Calls : net'[k] = net[j],
           \A j \in Calls : Submits(net[j]) => \E k \in Calls' : net'[k] = net[j]
    PROVE  Single'
<1>1. Made' = Made
  BY DEF Made, SubmitPayment!Made
<1>2. Unserved' => Unserved
  BY DEF Unserved
<1>3. QED
  BY <1>1, <1>2 DEF Single

(* The back end makes the payment under way, once at most, whatever is      *)
(* answered.                                                                *)
LEMMA SingleServe ==
    ASSUME Inv, page = "submit", Single, NEW i \in Calls, Serve(i)
    PROVE  Single'
<1>1. /\ st' = st /\ Calls' = Calls /\ \A j \in Calls : j # i => net'[j] = net[j]
      /\ net'[i].op = net[i].op /\ net'[i].flags = net[i].flags /\ net'[i].item = net[i].item
      /\ net'[i].to = net[i].to /\ (db' = db \/ db' = Applied(net[i]))
      /\ net[i].status = "sent" /\ net'[i].status # "sent"
  BY Served DEF Inv
<1>2. net[i].op \notin Payloads /\ db \in [Item -> Nat] /\ net[i].to \in Nat \cup {None}
  BY PaidTypes DEF Inv, Shape, IsCall
<1>3. CASE Submits(net[i])
  <2>1. \A j \in Calls : j # i => ~Submits(net[j])
    BY <1>3, OneSubmit
  <2>2. /\ ~st.success /\ "submitting" \in net[i].flags /\ net[i].item \in Item
        /\ net[i].to = db[net[i].item] + 1 /\ st.failures \in Nat /\ IsFiniteSet(Made)
    BY <1>1, <1>3 DEF Single
  <2>3. Cardinality(Made) <= st.failures
    BY <1>1, <1>3, <2>1, <2>2 DEF Single, Unserved
  <2>4. db' = db \/ db' = [db EXCEPT ![net[i].item] = db[net[i].item] + 1]
    <3>1. net[i].item # None /\ net[i].to # None
      <4>1. db[net[i].item] \in Nat
        BY <1>2, <2>2
      <4>2. net[i].to \in Nat
        BY <2>2, <4>1
      <4>3. QED
        BY <2>2, <4>2, PageAssumption, NoneIsNoNumber
    <3>2. ASSUME NEW k \in Item
          PROVE  Applied(net[i])[k] = IF k = net[i].item THEN db[k] + 1 ELSE db[k]
      BY <1>2, <2>2, <3>1 DEF Applied
    <3>3. Applied(net[i]) = [k \in Item |-> Applied(net[i])[k]]
      BY DEF Applied
    <3>4. Applied(net[i]) = [db EXCEPT ![net[i].item] = db[net[i].item] + 1]
      BY <1>2, <2>2, <3>2, <3>3
    <3>5. QED
      BY <1>1, <3>4
  <2>5. IsFiniteSet(Made') /\ Cardinality(Made') <= st.failures + 1
    <3>1. Cardinality(Made) \in Nat
      BY <2>2, FS_CardinalityType
    <3>2. CASE db' = db
      <4>1. Made' = Made
        BY <3>2 DEF Made, SubmitPayment!Made
      <4>2. QED
        BY <2>2, <2>3, <3>1, <4>1
    <3>3. CASE db' = [db EXCEPT ![net[i].item] = db[net[i].item] + 1]
      <4>1. IsFiniteSet(Made') /\ Cardinality(Made') <= Cardinality(Made) + 1
        BY <1>2, <2>2, <3>3, OneMore
      <4>2. Cardinality(Made') \in Nat
        BY <4>1, FS_CardinalityType
      <4>3. QED
        BY <2>2, <2>3, <3>1, <4>1, <4>2
    <3>4. QED
      BY <2>4, <3>2, <3>3
  <2>6. ~Unserved'
    BY <1>1, <1>3 DEF Unserved, Submits
  <2>7. \A j \in Calls : ~Submits(net'[j]) => net'[j].to = None
    BY <1>1, <1>3, <2>1 DEF Single, Submits
  <2>8. \A j \in Calls : Submits(net'[j]) =>
          /\ ~st.success /\ "submitting" \in net'[j].flags /\ net'[j].item \in Item
          /\ net'[j].status # "sent"
    BY <1>1, <1>3, <2>1, <2>2 DEF Submits
  <2>9. QED
    BY <1>1, <2>2, <2>5, <2>6, <2>7, <2>8 DEF Single
<1>4. CASE ~Submits(net[i])
  <2>1. net[i].to = None
    BY <1>4 DEF Single
  <2>2. Applied(net[i]) = db
    BY <1>2, <2>1 DEF Applied
  <2>3. db' = db
    BY <1>1, <2>2
  <2>4. Made' = Made
    BY <2>3 DEF Made, SubmitPayment!Made
  <2>5. Unserved' => Unserved
    BY <1>1, <1>4 DEF Unserved
  <2>6. \A j \in Calls : Submits(net'[j]) => j # i /\ net'[j] = net[j]
    BY <1>1, <1>4 DEF Submits
  <2>7. \A j \in Calls : net'[j].to = net[j].to /\ net'[j].op = net[j].op
    BY <1>1
  <2>8. QED
    BY <1>1, <2>3, <2>4, <2>5, <2>6, <2>7 DEF Single, Submits
<1>5. QED
  BY <1>3, <1>4

(* No payment was made when the form appears. *)
LEMMA SingleInit == ASSUME SubmitPayment!Init PROVE Single
<1> DEFINE own(m) == [mine |-> m, subscription |-> None, amount |-> None, success |-> FALSE, failures |-> 0]
           q == [all |-> TRUE]
           t(m) == With(Blank(q), own(m))
           r == [j \in Item |-> 0]
<1>1. PICK m \in SUBSET Item : Mount("submit", t(m), r)
  BY SubmitPaymentSame DEF SubmitPayment!Init
<1> DEFINE o == own(m)
           s == t(m)
<1>2. /\ DOMAIN o = {"mine", "subscription", "amount", "success", "failures"}
      /\ o.failures = 0 /\ s = With(Blank(q), o) /\ Mount("submit", s, r)
  BY <1>1
<1>3. \A j \in Item : r[j] = 0
  OBVIOUS
<1> HIDE DEF o, own, q, s, t, r
<1>4. IsWith(s, q, o)
  BY <1>2, Withs
<1>5. IsState(s) /\ s.failures = 0 /\ "failures" \in DOMAIN s
  BY <1>2, <1>4 DEF IsWith, IsState
<1>6. st.failures = 0 /\ db = r /\ net = Fetch(s.q)
  <2>1. st.failures = s.failures
    BY <1>2, <1>5, Mounted DEF History
  <2>2. QED
    BY <1>2, <1>5, <2>1 DEF Mount
<1>7. Made = {}
  BY <1>3, <1>6 DEF Made, SubmitPayment!Made
<1>8. IsFiniteSet(Made) /\ Cardinality(Made) = 0
  BY <1>7, FS_EmptySet
<1>9. \A i \in Calls : net[i].op = "list" /\ net[i].to = None
  <2>1. Read("list", {"loading"}, s.q).to = None /\ Read("list", {"loading"}, s.q).op = "list"
    BY ReadFields
  <2>2. QED
    BY <1>6, <2>1 DEF Calls, Fetch
<1>10. QED
  BY <1>6, <1>8, <1>9 DEF Single, Submits

(* The form's own steps: a payment is sent when none is under way or        *)
(* confirmed; its answer confirms it or counts a failure.                   *)
LEMMA SingleStep ==
    ASSUME Inv, page = "submit", Paid, Single, SubmitPayment!Next
    PROVE  Single'
<1>0. Shape /\ Quiet(st) /\ Keeps(st) /\ IsState(st) /\ IsFcn(st) /\ Form(st)
  BY StIsQuiet DEF Inv, Quiet, Keeps, Shape, Paid
<1>a. ASSUME NEW s, Keeps(s), NEW calls, Do(s, calls) \/ \E i \in Calls : Answer(i, s, calls)
      PROVE  st'.failures = s.failures /\ st'.success = s.success
  <2>1. After(s)
    BY <1>a, Afterwards DEF Keeps
  <2>2. {"failures", "success"} \subseteq DOMAIN s \ History
    BY <1>0, <1>a DEF Keeps, Form, History
  <2>3. QED
    BY <2>1, <2>2 DEF After
(* What the customer edits, and the answer of the list. *)
<1>b. ASSUME NEW s, Keeps(s), s.failures = st.failures, s.success = st.success, Do(s, <<>>)
      PROVE  Single'
  <2>1. db' = db /\ net' = net /\ Calls' = Calls
    BY <1>0, <1>b, DoneNone DEF Calls
  <2>2. st'.failures = st.failures /\ st'.success = st.success
    BY <1>a, <1>b
  <2>3. QED
    BY <2>1, <2>2, SingleKept
<1>e. ASSUME NEW s, Keeps(s), s.failures = st.failures, s.success = st.success,
             NEW i \in Calls, net[i].op = "list", Answer(i, s, <<>>)
      PROVE  Single'
  <2>1. db' = db /\ DoesStay(Calls \ {i}) /\ Gains({})
    BY <1>0, <1>e, EndedAfter, GainedNone
  <2>2. st'.failures = st.failures /\ st'.success = st.success
    BY <1>a, <1>e
  <2>3. ~Submits(net[i])
    BY <1>e DEF Submits
  <2>4. QED
    BY <2>1, <2>2, <2>3, SingleKept DEF DoesStay, Gains
<1>c. "success" \notin (Fields \ {"dlg"}) \cup {"typed"} /\ "failures" \notin (Fields \ {"dlg"}) \cup {"typed"}
      /\ "amount" \notin (Fields \ {"dlg"}) \cup {"typed"}
      /\ "success" \in DOMAIN st /\ "failures" \in DOMAIN st /\ "amount" \in DOMAIN st
  BY <1>0 DEF Fields, Form
<1>d. ASSUME NEW i, NEW s, s = SubmitPayment!Chosen(i)
      PROVE  Keeps(s) /\ DOMAIN s = DOMAIN st /\ s.failures = st.failures /\ s.success = st.success
  <2>1. /\ IsFcn(s) /\ DOMAIN s = DOMAIN st
        /\ \A g \in DOMAIN st : g \notin {"subscription", "amount"} => s[g] = st[g]
    BY <1>0, <1>d DEF SubmitPayment!Chosen, Form, IsFcn
  <2>2. \A g \in Fields \ {"dlg", "timer"} : s[g] = st[g]
    BY <1>0, <2>1 DEF Fields, IsState
  <2>3. Quiet(s)
    BY <2>1, <2>2, QuietDo DEF Searching
  <2>4. QED
    BY <1>0, <2>1, <2>3 DEF Form, Quiet
<1>1. ASSUME NEW i \in Item, SubmitPayment!handleSubscriptionChange(i) PROVE Single'
  <2> DEFINE s == SubmitPayment!Chosen(i)
  <2>1. Do(s, <<>>) /\ s = SubmitPayment!Chosen(i)
    BY <1>1, SubmitPaymentSame DEF SubmitPayment!handleSubscriptionChange
  <2> HIDE DEF s
  <2>2. QED
    BY <1>b, <1>d, <2>1
<1>2. CASE SubmitPayment!setAmount
  <2> DEFINE s == [st EXCEPT !.amount = ""]
  <2>1. Do(s, <<>>) /\ s = [st EXCEPT !.amount = ""]
    BY <1>2, SubmitPaymentSame DEF SubmitPayment!setAmount
  <2> HIDE DEF s
  <2>2. Quiet(s) /\ \A g \in DOMAIN st : g # "amount" => s[g] = st[g]
    BY <1>c, <2>1, SetsField
  <2>3. Keeps(s) /\ s.failures = st.failures /\ s.success = st.success
    BY <1>c, <2>2 DEF Quiet
  <2>4. QED
    BY <1>b, <2>1, <2>3
<1>3. CASE SubmitPayment!handleSubmit
  <2> DEFINE k == st.subscription
             v == db[k] + 1
             s == [st EXCEPT !.stale = TRUE]
             c == WriteOf("submit", {"submitting"}, st.q, k, v, st.amount)
  <2>1. Do(s, <<c>>) /\ "submitting" \notin st.busy /\ k # None /\ ~st.success
    BY <1>3, SubmitPaymentSame
    DEF SubmitPayment!handleSubmit, SubmitPayment!validate, SubmitPayment!Loaded, Idle, WriteOf
  <2>2. /\ s = [st EXCEPT !.stale = TRUE] /\ v = db[k] + 1
        /\ c = WriteOf("submit", {"submitting"}, st.q, k, v, st.amount)
    OBVIOUS
  <2>3. k \in Item
    BY <1>0, <2>1 DEF Form
  <2> HIDE DEF s, c, k, v
  <2>4. Keeps(s) /\ s.failures = st.failures /\ s.success = st.success
    BY <1>0, <2>2, KeepsStale DEF Form
  <2>5. c.op = "submit" /\ c.flags = {"submitting"} /\ c.item = k /\ c.to = v /\ c.status = "sent"
    BY <2>2, WriteWith
  <2>6. db' = db /\ \A l \in Calls' : net'[l] = c \/ \E j \in Calls : net'[l] = net[j]
    BY <1>0, <2>1, <2>4, DoneOne, GainedOne
  <2>7. st'.failures = st.failures /\ st'.success = st.success
    BY <1>a, <2>1, <2>4
  <2>8. \A j \in Calls : ~Submits(net[j])
    BY <2>1, BusyWith DEF Single, Common
  <2>9. Cardinality(Made) <= st.failures /\ Made' = Made
    BY <2>1, <2>6, <2>8 DEF Single, Unserved, Made, SubmitPayment!Made
  <2>10. ASSUME NEW l \in Calls'
         PROVE  /\ ~Submits(net'[l]) => net'[l].to = None
                /\ Submits(net'[l]) =>
                     /\ ~st'.success /\ "submitting" \in net'[l].flags /\ net'[l].item \in Item
                     /\ net'[l].to = db'[net'[l].item] + 1
    <3>1. CASE net'[l] = c
      BY <2>1, <2>2, <2>3, <2>5, <2>6, <2>7, <3>1 DEF Submits
    <3>2. CASE \E j \in Calls : net'[l] = net[j]
      BY <2>8, <3>2 DEF Single
    <3>3. QED
      BY <2>6, <3>1, <3>2
  <2>11. QED
    BY <2>7, <2>9, <2>10 DEF Single
<1>4. ASSUME NEW i \in Calls, SubmitPayment!fetchMine(i) PROVE Single'
  <2>0. net[i].op = "list"
    BY <1>4, SubmitPaymentSame DEF SubmitPayment!fetchMine, Ok, Failed
  <2>1. CASE Answer(i, st, <<>>)
    BY <1>0, <1>e, <2>0, <2>1
  <2>2. ASSUME NEW u, Keeps(u), u.failures = st.failures, u.success = st.success, Answer(i, Show(u, i), <<>>)
        PROVE  Single'
    <3> DEFINE s == [u EXCEPT !.list = [q |-> net[i].q, rows |-> net[i].rows]]
    <3>1. Answer(i, s, <<>>) /\ s = [u EXCEPT !["list"] = [q |-> net[i].q, rows |-> net[i].rows]]
      BY <2>2 DEF Show
    <3> HIDE DEF s
    <3>2. Keeps(s) /\ \A g \in DOMAIN u : g # "list" => s[g] = u[g]
      BY <2>2, <3>1, KeepsBut
    <3>3. s.failures = st.failures /\ s.success = st.success
      BY <1>0, <2>2, <3>2 DEF Keeps, Form
    <3>4. QED
      BY <1>e, <2>0, <3>1, <3>2, <3>3
  <2>3. CASE Answer(i, Show(st, i), <<>>)
    BY <1>0, <2>2, <2>3
  <2>4. ASSUME NEW k \in Item, Answer(i, Show(SubmitPayment!Chosen(k), i), <<>>) PROVE Single'
    <3> DEFINE u == SubmitPayment!Chosen(k)
    <3>1. Answer(i, Show(u, i), <<>>) /\ u = SubmitPayment!Chosen(k)
      BY <2>4
    <3> HIDE DEF u
    <3>2. QED
      BY <1>d, <2>2, <3>1
  <2>5. QED
    BY <1>4, <2>1, <2>3, <2>4, SubmitPaymentSame DEF SubmitPayment!fetchMine
(* The answer of the payment: the only one that was under way. *)
<1>f. ASSUME NEW i \in Calls, net[i].op = "submit",
             NEW s, Keeps(s), Answer(i, s, <<>>)
      PROVE  /\ st'.failures = s.failures /\ st'.success = s.success
             /\ Made' = Made /\ st.failures \in Nat /\ IsFiniteSet(Made) /\ Cardinality(Made) <= st.failures + 1
             /\ Cardinality(Made) \in Nat
             /\ \A l \in Calls' : ~Submits(net'[l]) /\ net'[l].to = None
  <2>1. st'.failures = s.failures /\ st'.success = s.success
    BY <1>a, <1>f
  <2>2. db' = db
    BY <1>0, <1>f, EndedAfter
  <2>3. Leaves(i, {})
    BY <1>0, <1>f, LeftNone
  <2>4. \A l \in Calls' : ~Submits(net'[l]) /\ net'[l].to = None
    <3>1. \A j \in Calls \ {i} : ~Submits(net[j])
      BY <1>f, OneSubmit DEF Submits
    <3>2. QED
      BY <2>3, <3>1 DEF Leaves, Single
  <2>5. /\ st.failures \in Nat /\ IsFiniteSet(Made) /\ Cardinality(Made) <= st.failures + 1
        /\ Made' = Made
    BY <2>2 DEF Single, Made, SubmitPayment!Made
  <2>6. Cardinality(Made) \in Nat
    BY <2>5, FS_CardinalityType
  <2>7. QED
    BY <2>1, <2>4, <2>5, <2>6
<1>5. ASSUME NEW i \in Calls, SubmitPayment!Submitted(i) PROVE Single'
  <2>1. net[i].op = "submit"
    BY <1>5, SubmitPaymentSame DEF SubmitPayment!Submitted, Ok, Failed
  <2>2. {"success", "failures"} \subseteq DOMAIN st
    BY <1>0 DEF Form
  <2>3. CASE Answer(i, [st EXCEPT !.success = TRUE], <<>>)
    <3> DEFINE s == [st EXCEPT !.success = TRUE]
    <3>1. s = [st EXCEPT !["success"] = TRUE] /\ Answer(i, s, <<>>)
      BY <2>3
    <3> HIDE DEF s
    <3>0. "success" \notin (Fields \ {"dlg"}) \cup {"typed"} /\ "success" \in DOMAIN st
      BY <1>c
    <3>1a. Keeps(s) /\ s["success"] = TRUE /\ \A g \in DOMAIN st : g # "success" => s[g] = st[g]
      BY <3>0, <3>1, SetsField DEF Quiet
    <3>2. /\ st'.failures = s.failures /\ st'.success = s.success
          /\ Made' = Made /\ st.failures \in Nat /\ IsFiniteSet(Made) /\ Cardinality(Made) <= st.failures + 1
          /\ \A l \in Calls' : ~Submits(net'[l]) /\ net'[l].to = None
      BY <1>f, <2>1, <3>1, <3>1a
    <3>3. st'.success /\ st'.failures = st.failures
      BY <2>2, <3>1a, <3>2
    <3>4. QED
      BY <3>2, <3>3 DEF Single
  <2>4. CASE Answer(i, [st EXCEPT !.failures = @ + 1], <<>>)
    <3> DEFINE x == st.failures + 1
               s == [st EXCEPT !["failures"] = x]
    <3>1. s = [st EXCEPT !["failures"] = x] /\ Answer(i, s, <<>>)
      BY <2>4
    <3> HIDE DEF s, x
    <3>0. "failures" \notin (Fields \ {"dlg"}) \cup {"typed"} /\ "failures" \in DOMAIN st
      BY <1>c
    <3>1a. Keeps(s) /\ s["failures"] = x /\ \A g \in DOMAIN st : g # "failures" => s[g] = st[g]
      BY <3>0, <3>1, SetsField DEF Quiet
    <3>2. /\ st'.failures = s.failures /\ st'.success = s.success
          /\ Made' = Made /\ st.failures \in Nat /\ IsFiniteSet(Made) /\ Cardinality(Made) <= st.failures + 1
          /\ Cardinality(Made) \in Nat
          /\ \A l \in Calls' : ~Submits(net'[l]) /\ net'[l].to = None
      BY <1>f, <2>1, <3>1, <3>1a
    <3>3. st'.failures = st.failures + 1
      BY <3>1a, <3>2 DEF x
    <3>4. st'.failures \in Nat /\ Cardinality(Made) <= st'.failures /\ Cardinality(Made) <= st'.failures + 1
      BY <3>2, <3>3
    <3>5. QED
      BY <3>2, <3>4 DEF Single
  <2>5. QED
    BY <1>5, <2>3, <2>4, SubmitPaymentSame DEF SubmitPayment!Submitted
<1>6. QED
  BY <1>1, <1>2, <1>3, <1>4, <1>5 DEF SubmitPayment!Next, SubmitPayment!Calls, Calls

-----------------------------------------------------------------------------
(* The plans *)

Deletes(d) == d # None /\ d.kind = "delete"

(* The dialog that deletes is open for a plan of the array, and what        *)
(* changes a row is a deletion.                                             *)
Targets ==
    /\ {"count", "overlapped"} \subseteq DOMAIN st
    /\ Deletes(st.dlg) => st.list.rows \in Records("plans") /\ st.dlg.item \in Item
    /\ \A i \in Calls : Changes(net[i]) => net[i].op = "delete"
    /\ \A i \in Calls : net[i].op # "check" => "deleteCheckLoading" \notin net[i].flags

(* The rows differ from the back end in plans that are deleted there while  *)
(* the deletion's answer is still to come.                                  *)
Deleting(k) == \E i \in Calls : net[i].op = "delete" /\ net[i].item = k /\ net[i].status # "sent"
Matches(rows) == \A k \in Item : db[k] = rows[k] \/ (db[k] = "gone" /\ Deleting(k))
Array ==
    ~st.stale =>
        /\ \A i \in Calls : net[i].op = "list" => net[i].q = st.q
        /\ \A i \in Calls : net[i].op = "delete" /\ net[i].status = "ok" => db[net[i].item] = "gone"
        /\ \A i \in Calls : net[i].op = "list" /\ net[i].status = "ok" => Matches(net[i].rows)
        /\ \/ \E i \in Calls : net[i].op = "list"
           \/ \E r \in Records("plans") : st.list = [q |-> st.q, rows |-> r] /\ Matches(r)

(* One count at a time is that of the dialog. *)
Counts ==
    ~st.overlapped =>
        /\ \A i, j \in Calls : net[i].op = "check" /\ net[j].op = "check" => i = j
        /\ \A i \in Calls : net[i].op = "check" => "deleteCheckLoading" \in st.busy
        /\ \A i \in Calls : net[i].op = "check" /\ Deletes(st.dlg) => net[i].item = st.dlg.item
        /\ Deletes(st.dlg) =>
             \/ \E i \in Calls : net[i].op = "check"
             \/ st.count # None /\ st.count.of = st.dlg.item

(* What a step leaves of the three. *)
Has(s) == {"count", "overlapped"} \subseteq DOMAIN s /\ Fields \subseteq DOMAIN s
Watched(c) ==
    /\ Changes(c) => c.op = "delete"
    /\ c.op # "check" => "deleteCheckLoading" \notin c.flags

(* The fields of the plans after a step. *)
LEMMA AfterIs ==
    ASSUME NEW s, Has(s), After(s)
    PROVE  /\ Has(st') /\ st'.count = s.count /\ st'.overlapped = s.overlapped
           /\ st'.dlg = s.dlg /\ st'.q = s.q /\ st'.list = s.list
  BY DEF Has, After, Fields, History

(* The dialog's plan is in the array as long as the array has rows, *)
LEMMA TargetsKept ==
    ASSUME Targets, NEW s, Has(s), After(s), NEW c, Watched(c), Comes(c),
           Deletes(s.dlg) => s.list.rows \in Records("plans") /\ s.dlg.item \in Item
    PROVE  Targets'
<1>1. Has(st') /\ st'.dlg = s.dlg /\ st'.list = s.list
  BY AfterIs
<1>2. \A k \in Calls' : Watched(net'[k])
  BY DEF Targets, Comes, Watched
<1>3. QED
  BY <1>1, <1>2 DEF Targets, Has, Watched

(* its count is its own after a step that asks for none, *)
LEMMA CountsKept ==
    ASSUME Counts, NEW s, Has(s), After(s), NEW c, c.op # "check", Comes(c), Distinct(c),
           s.count = st.count, s.overlapped = st.overlapped, s.dlg = st.dlg \/ ~Deletes(s.dlg),
           "deleteCheckLoading" \in st.busy => "deleteCheckLoading" \in st'.busy,
           NEW who, DoesStay(who), \A j \in Calls : net[j].op = "check" => j \in who
    PROVE  Counts'
<1> SUFFICES ASSUME ~st'.overlapped
             PROVE  /\ \A i, j \in Calls' : net'[i].op = "check" /\ net'[j].op = "check" => i = j
                    /\ \A i \in Calls' : net'[i].op = "check" => "deleteCheckLoading" \in st'.busy
                    /\ \A i \in Calls' : net'[i].op = "check" /\ Deletes(st'.dlg) => net'[i].item = st'.dlg.item
                    /\ Deletes(st'.dlg) =>
                         \/ \E i \in Calls' : net'[i].op = "check"
                         \/ st'.count # None /\ st'.count.of = st'.dlg.item
  BY DEF Counts, Deletes
<1>1. st'.count = st.count /\ ~st.overlapped /\ st'.dlg = s.dlg
  BY AfterIs
<1>2. ASSUME NEW i \in Calls', net'[i].op = "check" PROVE \E j \in Calls : net'[i] = net[j]
  BY <1>2 DEF Comes
<1>3. ASSUME NEW i \in Calls', NEW j \in Calls', net'[i].op = "check", net'[j].op = "check", i # j PROVE FALSE
  <2>1. net'[i] # c /\ net'[j] # c
    BY <1>3
  <2>2. PICK a \in Calls, b \in Calls : a # b /\ net'[i] = net[a] /\ net'[j] = net[b]
    BY <1>3, <2>1 DEF Distinct
  <2>3. QED
    BY <1>1, <1>3, <2>2 DEF Counts
<1>4. \A i \in Calls' : net'[i].op = "check" => "deleteCheckLoading" \in st'.busy
  BY <1>1, <1>2 DEF Counts
<1>5. ASSUME NEW i \in Calls', net'[i].op = "check", Deletes(st'.dlg) PROVE net'[i].item = st'.dlg.item
  <2>1. st'.dlg = st.dlg /\ Deletes(st.dlg)
    BY <1>1, <1>5
  <2>2. QED
    BY <1>1, <1>2, <1>5, <2>1 DEF Counts
<1>6. ASSUME Deletes(st'.dlg)
      PROVE (\E i \in Calls' : net'[i].op = "check") \/ (st'.count # None /\ st'.count.of = st'.dlg.item)
  <2>1. st'.dlg = st.dlg /\ Deletes(st.dlg)
    BY <1>1, <1>6
  <2>2. ASSUME NEW j \in Calls, net[j].op = "check" PROVE \E i \in Calls' : net'[i].op = "check"
    BY <2>2 DEF DoesStay
  <2>3. QED
    BY <1>1, <2>1, <2>2 DEF Counts
<1>7. QED
  BY <1>3, <1>4, <1>5, <1>6

(* rows match what is stored where no deletion is answered, *)
LEMMA MatchesKept ==
    ASSUME NEW rows, Matches(rows), db' = db, NEW who, DoesStay(who),
           \A j \in Calls : net[j].op = "delete" => j \in who
    PROVE  \A k \in Item : db'[k] = rows[k] \/ (db'[k] = "gone" /\ Deleting(k)')
<1>1. ASSUME NEW k, Deleting(k) PROVE Deleting(k)'
  BY <1>1 DEF Deleting, DoesStay
<1>2. QED
  BY <1>1 DEF Matches

(* and the array is up to date where no list and no deletion is answered. *)
LEMMA ArrayKept ==
    ASSUME Array, NEW s, Has(s), After(s), s.q = st.q, s.list = st.list, st.stale => st'.stale,
           db' = db, NEW c, c.op # "list", c.status = "sent", Comes(c),
           NEW who, DoesStay(who), \A j \in Calls : net[j].op \in {"list", "delete"} => j \in who
    PROVE  Array'
<1> SUFFICES ASSUME ~st'.stale
             PROVE  /\ \A i \in Calls' : net'[i].op = "list" => net'[i].q = st'.q
                    /\ \A i \in Calls' : net'[i].op = "delete" /\ net'[i].status = "ok" => db'[net'[i].item] = "gone"
                    /\ \A i \in Calls' : net'[i].op = "list" /\ net'[i].status = "ok" =>
                         \A k \in Item : db'[k] = net'[i].rows[k] \/ (db'[k] = "gone" /\ Deleting(k)')
                    /\ \/ \E i \in Calls' : net'[i].op = "list"
                       \/ \E r \in Records("plans") :
                            /\ st'.list = [q |-> st'.q, rows |-> r]
                            /\ \A k \in Item : db'[k] = r[k] \/ (db'[k] = "gone" /\ Deleting(k)')
  BY DEF Array, Matches, Records, ValuesOf, Plans!Values
<1>1. ~st.stale /\ st'.q = st.q /\ st'.list = st.list
  BY AfterIs
<1>2. /\ \A i \in Calls : net[i].op = "list" => net[i].q = st.q
      /\ \A i \in Calls : net[i].op = "delete" /\ net[i].status = "ok" => db[net[i].item] = "gone"
      /\ \A i \in Calls : net[i].op = "list" /\ net[i].status = "ok" => Matches(net[i].rows)
      /\ \/ \E i \in Calls : net[i].op = "list"
         \/ \E r \in Records("plans") : st.list = [q |-> st.q, rows |-> r] /\ Matches(r)
  BY <1>1 DEF Array
<1>3. \A i \in Calls' : net'[i].op = "list" => net'[i].q = st'.q
  BY <1>1, <1>2 DEF Comes
<1>4. \A i \in Calls' : net'[i].op = "delete" /\ net'[i].status = "ok" => db'[net'[i].item] = "gone"
  BY <1>1, <1>2 DEF Comes
<1>5. ASSUME NEW i \in Calls', net'[i].op = "list", net'[i].status = "ok"
      PROVE  \A k \in Item : db'[k] = net'[i].rows[k] \/ (db'[k] = "gone" /\ Deleting(k)')
  <2>1. PICK j \in Calls : net'[i] = net[j]
    BY <1>5 DEF Comes
  <2>2. Matches(net[j].rows)
    BY <1>2, <1>5, <2>1
  <2>3. \A k \in Item : db'[k] = net[j].rows[k] \/ (db'[k] = "gone" /\ Deleting(k)')
    BY <2>2, MatchesKept
  <2>4. QED
    BY <2>1, <2>3
<1>6. CASE \E i \in Calls : net[i].op = "list"
  <2>1. \E i \in Calls' : net'[i].op = "list"
    BY <1>6 DEF DoesStay
  <2>2. QED
    BY <1>3, <1>4, <1>5, <2>1
<1>7. CASE \E r \in Records("plans") : st.list = [q |-> st.q, rows |-> r] /\ Matches(r)
  <2>1. PICK r \in Records("plans") : st.list = [q |-> st.q, rows |-> r] /\ Matches(r)
    BY <1>7
  <2>2. \A k \in Item : db'[k] = r[k] \/ (db'[k] = "gone" /\ Deleting(k)')
    BY <2>1, MatchesKept
  <2>3. QED
    BY <1>1, <1>3, <1>4, <1>5, <2>1, <2>2
<1>8. QED
  BY <1>2, <1>6, <1>7

(* Nothing is claimed of an array that may differ. *)
LEMMA ArrayStale == ASSUME st'.stale PROVE Array'
  BY DEF Array

(* The operators of the plans' page are those of Clients. *)
LEMMA PlansSame ==
    /\ \A op, flags, q, i, v : Plans!Write(op, flags, q, i, v) = Write(op, flags, q, i, v)
    /\ \A op, flags, q : Plans!Read(op, flags, q) = Read(op, flags, q)
    /\ \A s, calls : Plans!Do(s, calls) <=> Do(s, calls)
    /\ \A i, s, calls : Plans!Answer(i, s, calls) <=> Answer(i, s, calls)
    /\ \A v : Plans!OtherUser(v) <=> OtherUser(v)
    /\ \A p, s, rows : Plans!Mount(p, s, rows) <=> Mount(p, s, rows)
    /\ \A s, own : Plans!With(s, own) = With(s, own)
    /\ \A q : Plans!Blank(q) = Blank(q)
    /\ \A i, op : Plans!Ok(i, op) <=> Ok(i, op)
    /\ \A i, op : Plans!Failed(i, op) <=> Failed(i, op)
    /\ \A f : Plans!Idle(f) <=> Idle(f)
    /\ \A k, i : Plans!Dialog(k, i) <=> Dialog(k, i)
    /\ \A k : Plans!DialogIs(k) <=> DialogIs(k)
    /\ \A i : Plans!Fetched(i) <=> Fetched(i)
  BY DEF Plans!Write, Write, Plans!Read, Read, Plans!Do, Do, Plans!Send, Send,
         Plans!Sent, Sent, Plans!Flags, Flags, Plans!Range, Range,
         Plans!Answer, Answer, Plans!Others, Others, Plans!OtherUser,
         OtherUser, Plans!Mount, Mount, Plans!Fetch, Fetch, Plans!With, With,
         Plans!Blank, Blank, Plans!Ok, Ok, Plans!Failed, Failed, Plans!Idle,
         Idle, Plans!Dialog, Dialog, Plans!DialogIs, DialogIs, Plans!Fetched,
         Fetched, Plans!Show, Show

(* When the page appears its list is under way, and no dialog is open. *)
LEMMA PlansFirst ==
    ASSUME NEW s, IsState(s), Has(s), s.dlg = None, s.overlapped = FALSE, s.busy = {},
           NEW rows, Mount("plans", s, rows)
    PROVE  Targets /\ Array /\ Counts
<1> DEFINE c == Read("list", {"loading"}, s.q)
<1>1. net = <<c>>
  BY DEF Mount, Fetch
<1>2. Reading(c, "list", {"loading"}, s.q)
  BY Readings
<1> HIDE DEF c
<1>3. Calls = {1} /\ net[1] = c
  BY <1>1 DEF Calls
<1>4. /\ Has(st) /\ st.dlg = None /\ st.q = s.q /\ st.overlapped = FALSE
  BY Mounted DEF Has, Fields, History
<1>5. Targets
  BY <1>2, <1>3, <1>4 DEF Targets, Has, Deletes, Changes, Reading, Payloads
<1>6. Array
  BY <1>2, <1>3, <1>4 DEF Array, Reading
<1>7. Counts
  BY <1>2, <1>3, <1>4 DEF Counts, Reading, Deletes
<1>8. QED
  BY <1>5, <1>6, <1>7

(* The plans' page when it appears. *)
LEMMA PlansInit == ASSUME Plans!Init PROVE Inv /\ page = "plans" /\ Targets /\ Array /\ Counts
<1> DEFINE own == [count |-> None, overlapped |-> FALSE]
           q == [filter |-> "all"]
           s == With(Blank(q), own)
           rows(i) == [j \in Item |-> IF j = i THEN "used" ELSE "unused"]
<1>1. PICK i \in Item : Mount("plans", s, rows(i))
  BY PlansSame DEF Plans!Init
<1> DEFINE r == rows(i)
<1>2. /\ DOMAIN own = {"count", "overlapped"} /\ own.overlapped = FALSE
      /\ s = With(Blank(q), own) /\ Mount("plans", s, r)
  BY <1>1
<1>3. r \in Records("plans") /\ "plans" \in Components /\ "plans" \notin Searching
  BY DEF Records, ValuesOf, Plans!Values, Components, Searching
<1> HIDE DEF own, q, s, r, rows
<1>4. IsWith(s, q, own)
  BY <1>2, Withs
<1>5. /\ IsState(s) /\ s.acts = 0 /\ s.busy = {} /\ s.list = [q |-> None, rows |-> None]
      /\ s.dlg = None /\ s.overlapped = FALSE /\ Has(s)
  BY <1>2, <1>4 DEF IsWith, IsState, Has
<1>6. Starts("plans", s, r)
  BY <1>3, <1>5 DEF Starts
<1>7. Inv /\ page = "plans"
  BY <1>2, <1>6, MountRule DEF Mount
<1>8. QED
  BY <1>2, <1>5, <1>7, PlansFirst

(* A plan that is deleted has a state. *)
LEMMA GoneIsSome == None # "gone"
  BY ClientsAssumption DEF Plans!Values

(* The back end deletes the plans that were sent to be deleted, and counts. *)
LEMMA PlansServe ==
    ASSUME Inv, page = "plans", Targets, Array, Counts, NEW i \in Calls, Serve(i)
    PROVE  Targets' /\ Array' /\ Counts'
<1>1. /\ page' = page /\ st' = st /\ Calls' = Calls
      /\ \A j \in Calls : j # i => net'[j] = net[j]
      /\ net'[i].op = net[i].op /\ net'[i].flags = net[i].flags /\ net'[i].q = net[i].q
      /\ net'[i].item = net[i].item /\ net'[i].to = net[i].to
      /\ \/ net'[i].status = "failed" /\ db' \in {db, Applied(net[i])}
         \/ /\ net'[i].status = "ok" /\ db' = Applied(net[i])
            /\ net'[i].rows = IF net[i].op \in Lists THEN db ELSE net[i].rows
      /\ net[i].status = "sent"
      /\ ~Changes(net[i]) => Applied(net[i]) = db
  BY Served DEF Inv
<1>2. \A j \in Calls : /\ net'[j].op = net[j].op /\ net'[j].flags = net[j].flags
                       /\ net'[j].q = net[j].q /\ net'[j].item = net[j].item /\ net'[j].to = net[j].to
  BY <1>1
<1>3. Targets'
  BY <1>1, <1>2 DEF Targets, Deletes, Changes, Records, ValuesOf, Plans!Values
<1>4. Counts'
  BY <1>1, <1>2 DEF Counts, Deletes
<1>5. IsCall(page, net[i]) /\ db \in Records(page)
  BY DEF Inv, Shape
<1>6. net[i].op = "delete" => net[i].item \in Item /\ net[i].to = "gone"
  BY <1>5 DEF IsCall, Carries
<1>7. ASSUME NEW k \in Item
      PROVE  \/ db'[k] = db[k]
             \/ net[i].op = "delete" /\ k = net[i].item /\ db'[k] = "gone"
  <2>1. CASE ~Changes(net[i])
    BY <1>1, <2>1
  <2>2. CASE Changes(net[i])
    <3>1. net[i].op = "delete" /\ net[i].item \in Item /\ net[i].to = "gone"
      BY <1>6, <2>2 DEF Targets
    <3>2. "delete" \notin Payloads /\ None \notin Item
      BY PageAssumption DEF Payloads
    <3>3. Applied(net[i])[k] = IF net[i].to # None /\ net[i].item \in {k, None} THEN net[i].to ELSE db[k]
      BY <3>1, <3>2 DEF Applied
    <3>4. Applied(net[i])[k] = db[k] \/ (k = net[i].item /\ Applied(net[i])[k] = "gone")
      BY <3>1, <3>2, <3>3
    <3>5. QED
      BY <1>1, <3>1, <3>4
  <2>3. QED
    BY <2>1, <2>2
<1>8. net'[i].status # "sent"
  BY <1>1
<1>9. \A k \in Item : Deleting(k) => Deleting(k)'
  BY <1>1, <1>2, <1>8 DEF Deleting
<1>10. ASSUME NEW k \in Item, db'[k] # db[k] PROVE db'[k] = "gone" /\ Deleting(k)'
  BY <1>1, <1>2, <1>7, <1>8, <1>10 DEF Deleting
<1>11. \A k \in Item : db[k] = "gone" => db'[k] = "gone"
  BY <1>10
<1>12. ASSUME NEW rows, Matches(rows)
       PROVE  \A k \in Item : db'[k] = rows[k] \/ (db'[k] = "gone" /\ Deleting(k)')
  BY <1>9, <1>10, <1>11, <1>12 DEF Matches
<1>13. Array'
  <2> SUFFICES ASSUME ~st.stale
               PROVE  /\ \A j \in Calls : net'[j].op = "list" => net'[j].q = st.q
                      /\ \A j \in Calls : net'[j].op = "delete" /\ net'[j].status = "ok" => db'[net'[j].item] = "gone"
                      /\ \A j \in Calls : net'[j].op = "list" /\ net'[j].status = "ok" =>
                           \A k \in Item : db'[k] = net'[j].rows[k] \/ (db'[k] = "gone" /\ Deleting(k)')
                      /\ \/ \E j \in Calls : net'[j].op = "list"
                         \/ \E r \in Records("plans") :
                              /\ st.list = [q |-> st.q, rows |-> r]
                              /\ \A k \in Item : db'[k] = r[k] \/ (db'[k] = "gone" /\ Deleting(k)')
    BY <1>1 DEF Array, Matches, Records, ValuesOf, Plans!Values
  <2>1. /\ \A j \in Calls : net[j].op = "list" => net[j].q = st.q
        /\ \A j \in Calls : net[j].op = "delete" /\ net[j].status = "ok" => db[net[j].item] = "gone"
        /\ \A j \in Calls : net[j].op = "list" /\ net[j].status = "ok" => Matches(net[j].rows)
        /\ \/ \E j \in Calls : net[j].op = "list"
           \/ \E r \in Records("plans") : st.list = [q |-> st.q, rows |-> r] /\ Matches(r)
    BY DEF Array
  <2>2. ASSUME NEW j \in Calls, net'[j].op = "delete", net'[j].status = "ok" PROVE db'[net'[j].item] = "gone"
    <3>1. net[j].op = "delete" /\ net'[j].item = net[j].item /\ net[j].item \in Item /\ net[j].to = "gone"
      BY <1>2, <2>2 DEF Inv, Shape, IsCall, Carries
    <3>2. CASE j = i
      <4>1. db' = Applied(net[i])
        BY <1>1, <2>2, <3>2
      <4>2. "delete" \notin Payloads
        BY DEF Payloads
      <4>3. net[i].to # None
        BY <1>5, <3>1, <3>2, GoneIsSome
      <4>4. Applied(net[i])[net[i].item] = "gone"
        BY <3>1, <3>2, <4>2, <4>3 DEF Applied
      <4>5. QED
        BY <3>1, <3>2, <4>1, <4>4
    <3>3. CASE j # i
      <4>1. net[j].status = "ok"
        BY <1>1, <2>2, <3>3
      <4>2. db[net[j].item] = "gone"
        BY <2>1, <3>1, <4>1
      <4>3. QED
        BY <1>11, <3>1, <4>2
    <3>4. QED
      BY <3>2, <3>3
  <2>3. ASSUME NEW j \in Calls, net'[j].op = "list", net'[j].status = "ok"
        PROVE  \A k \in Item : db'[k] = net'[j].rows[k] \/ (db'[k] = "gone" /\ Deleting(k)')
    <3>1. CASE j = i
      <4>1. net[i].op = "list"
        BY <1>2, <2>3, <3>1
      <4>2. ~Changes(net[i])
        BY <4>1 DEF Targets
      <4>3. db' = db /\ net'[i].rows = db
        BY <1>1, <2>3, <3>1, <4>1, <4>2 DEF Lists
      <4>4. QED
        BY <3>1, <4>3
    <3>2. CASE j # i
      <4>1. net'[j] = net[j] /\ Matches(net[j].rows)
        BY <1>1, <2>1, <2>3, <3>2
      <4>2. QED
        BY <1>12, <4>1
    <3>3. QED
      BY <3>1, <3>2
  <2>4. \/ \E j \in Calls : net'[j].op = "list"
        \/ \E r \in Records("plans") :
             /\ st.list = [q |-> st.q, rows |-> r]
             /\ \A k \in Item : db'[k] = r[k] \/ (db'[k] = "gone" /\ Deleting(k)')
    <3>1. CASE \E j \in Calls : net[j].op = "list"
      BY <1>2, <3>1
    <3>2. CASE \E r \in Records("plans") : st.list = [q |-> st.q, rows |-> r] /\ Matches(r)
      BY <1>12, <3>2
    <3>3. QED
      BY <2>1, <3>1, <3>2
  <2>5. QED
    BY <1>2, <2>1, <2>2, <2>3, <2>4
<1>14. QED
  BY <1>3, <1>4, <1>13

(* An array with other rows has rows. *)
LEMMA RowsOrNone ==
    ASSUME st.list.rows = None \/ st.list.rows \in Records("plans"), NEW r \in Records("plans"),
           NEW list, list = [st.list EXCEPT !.rows = r]
    PROVE  list.rows = None \/ list.rows \in Records("plans")
<1>1. list.rows = r \/ list.rows = st.list.rows
  OBVIOUS
<1>2. QED
  BY <1>1

(* Plans.tsx: the array, which the handlers of the page change by           *)
(* themselves, and the count of the dialog.                                 *)
LEMMA PlansStep ==
    ASSUME Inv, page = "plans", Targets, Array, Counts, Plans!Next
    PROVE  Inv' /\ Targets' /\ Array' /\ Counts'
<1>0. Shape /\ Quiet(st) /\ Keeps(st) /\ IsState(st) /\ IsFcn(st) /\ Has(st)
  BY StIsQuiet DEF Inv, Quiet, Keeps, Shape, IsState, Targets, Has
<1>p. Records(page) = Records("plans") /\ page \in OwnRows /\ page \notin Searching /\ page \notin Silent
  BY DEF OwnRows, Searching, Silent, Mobile!Screens
<1> DEFINE Goal == Inv' /\ Targets' /\ Array' /\ Counts'
           other == Write("save", {}, None, None, None)
           flag == "deleteCheckLoading"
<1>a. Watched(other) /\ other.op = "save" /\ other.status = "sent"
  BY WriteFields DEF Watched, Changes, Payloads
<1> HIDE DEF other
<1>b. ASSUME NEW i \in Calls, net[i].op # "check" PROVE flag \notin net[i].flags
  BY <1>b DEF Targets
(* A handler that leaves the array and the count alone. *)
<1> DEFINE Leaving(s) == /\ Quiet(s) /\ s.count = st.count /\ s.overlapped = st.overlapped
                         /\ s.busy = st.busy /\ (s.dlg = st.dlg \/ ~Deletes(s.dlg))
<1>c. ASSUME NEW s, Leaving(s)
      PROVE  /\ Keeps(s) /\ IsFcn(s) /\ Has(s) /\ s.q = st.q /\ s.list = st.list
             /\ st.stale => s.stale
             /\ flag \in st.busy => flag \in s.busy
             /\ Deletes(s.dlg) => s.list.rows \in Records("plans") /\ s.dlg.item \in Item
  <2>1. Keeps(s) /\ IsFcn(s) /\ DOMAIN s = DOMAIN st /\ s.q = st.q /\ s.list = st.list
    BY <1>c DEF Quiet, Keeps
  <2>2. Has(s)
    BY <1>0, <2>1 DEF Has
  <2>3. ASSUME Deletes(s.dlg) PROVE s.list.rows \in Records("plans") /\ s.dlg.item \in Item
    BY <1>c, <2>1, <2>3 DEF Targets
  <2>4. QED
    BY <1>c, <2>1, <2>2, <2>3 DEF Keeps
<1>c2. ASSUME NEW s, Leaving(s), Do(s, <<>>) PROVE Goal
  <2>1. Keeps(s) /\ IsFcn(s) /\ Has(s)
    BY <1>c, <1>c2
  <2>2. Inv'
    BY <1>c2, QuietRule
  <2>3. After(s)
    BY <1>c2, <2>1, Afterwards
  <2>4. db' = db /\ net' = net /\ st'.busy = s.busy /\ (s.stale => st'.stale)
    BY <1>0, <1>c2, <2>1, DoneNone
  <2>5. DoesStay(Calls) /\ Distinct(other) /\ Comes(other)
    BY <2>4 DEF DoesStay, Distinct, Comes, Calls
  <2>6. Targets'
    BY <1>a, <1>c, <1>c2, <2>1, <2>3, <2>5, TargetsKept
  <2>7. s.q = st.q /\ s.list = st.list /\ (st.stale => st'.stale)
    BY <1>c, <1>c2, <2>4
  <2>8. Array'
    BY <1>a, <2>1, <2>3, <2>4, <2>5, <2>7, ArrayKept
  <2>9. flag \in st.busy => flag \in st'.busy
    BY <1>c, <1>c2, <2>4
  <2>10. Counts'
    BY <1>a, <1>c2, <2>1, <2>3, <2>5, <2>9, CountsKept
  <2>11. QED
    BY <2>2, <2>6, <2>8, <2>10
(* A dialog. *)
<1>d. ASSUME NEW d, ~Deletes(d), NEW s, s = [st EXCEPT !.dlg = d] PROVE Leaving(s)
  <2>1. Quiet(s) /\ (\A g \in DOMAIN st : g # "dlg" => s[g] = st[g]) /\ ("dlg" \in DOMAIN st => s["dlg"] = d)
    BY <1>d, SetsField DEF Fields
  <2>2. QED
    BY <1>0, <1>d, <2>1 DEF Has, Fields
<1>1. ASSUME NEW i, Plans!Dialog("form", i) PROVE Goal
  <2> DEFINE d == [kind |-> "form", item |-> i]
             s == [st EXCEPT !.dlg = d]
  <2>1. Do(s, <<>>) /\ d.kind # "delete"
    BY <1>1, PlansSame DEF Dialog
  <2> HIDE DEF d
  <2>2. ~Deletes(d) /\ s = [st EXCEPT !.dlg = d]
    BY <2>1 DEF Deletes
  <2> HIDE DEF s
  <2>3. QED
    BY <1>c2, <1>d, <2>1, <2>2
<1>2. CASE Plans!CloseDialog
  <2>1. PICK x : Do([st EXCEPT !.dlg = None, !.count = x], <<>>)
    BY <1>2, PlansSame DEF Plans!CloseDialog
  <2> DEFINE s == [st EXCEPT !.dlg = None, !.count = x]
  <2>2. /\ IsFcn(s) /\ DOMAIN s = DOMAIN st /\ s.dlg = None
        /\ \A g \in DOMAIN st : g \notin {"dlg", "count"} => s[g] = st[g]
    BY <1>0 DEF IsFcn, Has, Fields
  <2>3. Do(s, <<>>)
    BY <2>1
  <2> HIDE DEF s
  <2>4. Quiet(s)
    BY <1>0, <1>p, <2>2, QuietDo DEF IsState, Fields
  <2>5. s.overlapped = st.overlapped /\ s.list = st.list /\ s.q = st.q /\ s.stale = st.stale /\ s.busy = st.busy
        /\ Has(s) /\ Keeps(s) /\ IsFcn(s)
    BY <1>0, <2>2, <2>4 DEF Has, Fields, Quiet, Keeps
  <2>6. Inv'
    BY <2>3, <2>4, QuietRule
  <2>7. After(s)
    BY <2>3, <2>5, Afterwards
  <2>8. db' = db /\ net' = net /\ st'.busy = s.busy /\ (s.stale => st'.stale)
    BY <1>0, <2>3, <2>5, DoneNone
  <2>9. DoesStay(Calls) /\ Comes(other)
    BY <2>8 DEF DoesStay, Comes, Calls
  <2>10. ~Deletes(s.dlg)
    BY <2>2 DEF Deletes
  <2>11. Targets'
    BY <1>a, <2>5, <2>7, <2>9, <2>10, TargetsKept
  <2>12. st.stale => st'.stale
    BY <2>5, <2>8
  <2>13. Array'
    BY <1>a, <2>5, <2>7, <2>8, <2>9, <2>12, ArrayKept
  <2>14. st'.overlapped = st.overlapped /\ st'.dlg = None /\ st'.busy = st.busy
    BY <2>2, <2>5, <2>7, <2>8, AfterIs
  <2>15. Counts'
    BY <2>8, <2>14 DEF Counts, Deletes, Calls
  <2>16. QED
    BY <2>6, <2>11, <2>13, <2>15
(* A write, which no count waits for. *)
<1>e. ASSUME NEW c, Writes(c), Watched(c), c.op \in {"save", "delete"}, Do(st, <<c>>)
      PROVE  Goal
  <2>1. Sends(st, c)
    BY <1>0, <1>e, <1>p, WritesSends
  <2>2. Inv' /\ After(st) /\ Comes(c)
    BY <1>e, <2>1, SendsStep DEF Comes
  <2>3. c.op # "list" /\ c.op # "check" /\ c.status = "sent"
    BY <1>e DEF Writes
  <2>4. /\ db' = db /\ st'.busy = st.busy \cup c.flags /\ (st.stale => st'.stale)
        /\ DoesStay(Calls) /\ Distinct(c)
    BY <1>0, <1>e, <2>3, DoneOne
  <2>5. Deletes(st.dlg) => st.list.rows \in Records("plans") /\ st.dlg.item \in Item
    BY DEF Targets
  <2>6. Targets'
    BY <1>0, <1>e, <2>2, <2>5, TargetsKept
  <2>7. Array'
    BY <1>0, <2>2, <2>3, <2>4, ArrayKept
  <2>8. flag \in st.busy => flag \in st'.busy
    BY <2>4
  <2>9. Counts'
    BY <1>0, <2>2, <2>3, <2>4, <2>8, CountsKept
  <2>10. QED
    BY <2>2, <2>6, <2>7, <2>9
<1>3. CASE Plans!handleDelete
  <2> DEFINE c == WriteOf("delete", {}, st.q, st.dlg.item, "gone", st.list.rows)
  <2>1. Do(st, <<c>>) /\ Deletes(st.dlg)
    BY <1>3, PlansSame DEF Plans!handleDelete, DialogIs, Deletes, WriteOf
  <2>2. c = WriteOf("delete", {}, st.q, st.dlg.item, "gone", st.list.rows)
    OBVIOUS
  <2> HIDE DEF c
  <2>3. /\ IsFcn(c) /\ DOMAIN c = CallFields
        /\ c.op = "delete" /\ c.flags = {} /\ c.item = st.dlg.item /\ c.to = "gone"
        /\ c.status = "sent" /\ c.rows = st.list.rows
    BY <2>2, WriteWith
  <2>4. st.list.rows \in Records(page) /\ st.dlg.item \in Item
    BY <1>p, <2>1 DEF Targets
  <2>5. Carries(page, c)
    BY <2>3, <2>4 DEF Carries
  <2>6. "delete" \notin Reads \cup Payloads /\ "gone" \in ValuesOf(page)
    BY DEF Reads, Lists, Payloads, ValuesOf, Plans!Values
  <2>7. Writes(c)
    BY <2>3, <2>5, <2>6 DEF Writes
  <2>8. Watched(c)
    BY <2>3 DEF Watched
  <2>9. QED
    BY <1>e, <2>1, <2>3, <2>7, <2>8
<1>4. CASE Plans!handleSubmit
  <2> DEFINE c == Write("save", {"submitting"}, st.q, st.dlg.item, None)
  <2>1. Do(st, <<c>>) /\ "submitting" \notin st.busy
    BY <1>4, PlansSame DEF Plans!handleSubmit, Idle
  <2>2. /\ "save" \notin Reads \cup Payloads
        /\ {"submitting"} \cap Common = {} /\ {"submitting"} \cap st.busy = {}
    BY <2>1 DEF Reads, Lists, Payloads, Common
  <2>3. c = Write("save", {"submitting"}, st.q, st.dlg.item, None)
    OBVIOUS
  <2> HIDE DEF c
  <2>4. c.op = "save" /\ c.flags = {"submitting"} /\ c.to = None
    BY <2>3, WriteFields
  <2>5. Carries(page, c)
    BY <2>4 DEF Carries
  <2>6. None \in ValuesOf(page) \cup {None}
    OBVIOUS
  <2>7. Writes(c)
    BY <2>2, <2>3, <2>5, <2>6, WriteIs
  <2>8. Watched(c)
    BY <2>4 DEF Watched, Changes, Payloads
  <2>9. QED
    BY <1>e, <2>1, <2>4, <2>7, <2>8
<1>5. ASSUME NEW i \in Item, Plans!handleDeleteClick(i) PROVE Goal
  <2> DEFINE d == [kind |-> "delete", item |-> i]
             o == st.overlapped \/ \E k \in Calls : net[k].op = "check"
             s == [st EXCEPT !.dlg = d, !.overlapped = o]
             c == ReadOf("check", {flag}, st.q, i)
  <2>1. Do(s, <<c>>) /\ st.list.rows # None
    <3>1. (\E x \in Range(net) : x.op = "check") <=> \E k \in Calls : net[k].op = "check"
      BY DEF Range, Calls
    <3>2. Do([st EXCEPT !.dlg = d, !.overlapped = @ \/ \E x \in Range(net) : x.op = "check"], <<c>>)
      BY <1>5, PlansSame DEF Plans!handleDeleteClick, ReadOf, Plans!Range, Range
    <3>3. st.list.rows # None
      BY <1>5 DEF Plans!handleDeleteClick, Plans!sortedPlans, Plans!Rows
    <3>4. QED
      BY <3>1, <3>2, <3>3
  <2>2. /\ IsFcn(s) /\ DOMAIN s = DOMAIN st /\ s.dlg = d
        /\ \A g \in DOMAIN st : g \notin {"dlg", "overlapped"} => s[g] = st[g]
    BY <1>0 DEF IsFcn, Has, Fields
  <2>3. o => s.overlapped
    BY <1>0 DEF Has
  <2>4. c = ReadOf("check", {flag}, st.q, i)
    OBVIOUS
  <2>5. d.item = i
    OBVIOUS
  <2>6. ~o => ~st.overlapped /\ \A k \in Calls : net[k].op # "check"
    OBVIOUS
  <2> HIDE DEF s, c, d, o
  <2>7. Quiet(s)
    BY <1>0, <1>p, <2>2, QuietDo DEF IsState, Fields
  <2>8. s.list = st.list /\ s.q = st.q /\ s.stale = st.stale /\ s.busy = st.busy
        /\ Has(s) /\ Keeps(s) /\ IsFcn(s)
    BY <1>0, <2>2, <2>7 DEF Has, Fields, Quiet, Keeps
  <2>9. /\ IsFcn(c) /\ DOMAIN c = CallFields
        /\ c.op = "check" /\ c.flags = {flag} /\ c.q = st.q /\ c.item = i /\ c.to = None
        /\ c.status = "sent"
    BY <2>4, ReadOfFields
  <2>10. Carries(page, c)
    BY <2>9 DEF Carries, Reads, Lists
  <2>11. "check" \in Reads /\ "check" \notin Payloads \cup {"list", "techs"} /\ flag \in Common
    BY DEF Reads, Lists, Payloads, Common
  <2>12. IsCall(page, c)
    BY <2>9, <2>10, <2>11 DEF IsCall
  <2>13. Sends(s, c)
    BY <2>7, <2>9, <2>11, <2>12 DEF Sends, Own, Changes, Quiet
  <2>14. Inv' /\ After(s) /\ Comes(c)
    BY <2>1, <2>13, SendsStep DEF Comes
  <2>15. c.op # "list"
    BY <2>9
  <2>16. /\ db' = db /\ st'.busy = s.busy \cup c.flags /\ (s.stale => st'.stale)
         /\ DoesStay(Calls) /\ Distinct(c)
    BY <1>0, <2>1, <2>8, <2>15, DoneOne
  <2>17. Watched(c)
    BY <2>9 DEF Watched, Changes, Payloads
  <2>18. s.list.rows \in Records("plans") /\ s.dlg.item \in Item
    BY <1>0, <1>p, <2>1, <2>2, <2>5, <2>8 DEF Shape
  <2>19. Targets'
    BY <2>8, <2>14, <2>17, <2>18, TargetsKept
  <2>20. st.stale => st'.stale
    BY <2>8, <2>16
  <2>21. Array'
    BY <2>8, <2>9, <2>14, <2>16, <2>20, ArrayKept
  <2>22. st'.overlapped = s.overlapped /\ st'.dlg = d
    BY <2>2, <2>8, <2>14, AfterIs
  <2>23. ASSUME ~st'.overlapped PROVE \A k \in Calls' : net'[k].op = "check" => k = Len(net) + 1 /\ net'[k] = c
    <3>1. \A j \in Calls : net[j].op # "check"
      BY <2>3, <2>6, <2>22, <2>23
    <3>2. net' = net \o <<c>> /\ IsSeq(net)
      BY <1>0, <2>1 DEF Do, Send, Shape
    <3>3. /\ Len(net) \in Nat /\ Calls = 1..Len(net)
          /\ DOMAIN (net \o <<c>>) = 1..(Len(net) + 1)
          /\ \A k \in 1..Len(net) : (net \o <<c>>)[k] = net[k]
          /\ (net \o <<c>>)[Len(net) + 1] = c
      BY <3>2, Appended DEF Calls
    <3>4. ASSUME NEW k \in Calls', net'[k].op = "check" PROVE k = Len(net) + 1
      <4>1. k \in 1..(Len(net) + 1)
        BY <3>2, <3>3 DEF Calls
      <4>2. k \in Calls => net'[k] = net[k]
        BY <3>2, <3>3
      <4>3. k \notin Calls
        BY <3>1, <3>4, <4>2
      <4>4. QED
        BY <3>3, <4>1, <4>3
    <3>5. QED
      BY <3>2, <3>3, <3>4
  <2>24. \E k \in Calls' : net'[k] = c
    <3>1. net' = net \o <<c>> /\ IsSeq(net)
      BY <1>0, <2>1 DEF Do, Send, Shape
    <3>2. /\ DOMAIN (net \o <<c>>) = 1..(Len(net) + 1) /\ Len(net) \in Nat
          /\ (net \o <<c>>)[Len(net) + 1] = c
      BY <3>1, Appended
    <3>3. QED
      BY <3>1, <3>2 DEF Calls
  <2>25. flag \in st'.busy
    BY <2>9, <2>16
  <2>26. Counts'
    BY <2>5, <2>9, <2>22, <2>23, <2>24, <2>25 DEF Counts, Deletes
  <2>27. QED
    BY <2>14, <2>19, <2>21, <2>26
(* An answer that leaves the array and the count alone. *)
<1>f. ASSUME NEW i \in Calls, net[i].status # "sent", net[i].op # "check",
             NEW s, Leaving(s), Answer(i, s, <<>>),
             net[i].status = "failed" \/ net[i].op \notin {"list", "delete"}
      PROVE  Goal
  <2>1. /\ Keeps(s) /\ IsFcn(s) /\ Has(s) /\ s.q = st.q /\ s.list = st.list
        /\ st.stale => s.stale
        /\ flag \in st.busy => flag \in s.busy
        /\ Deletes(s.dlg) => s.list.rows \in Records("plans") /\ s.dlg.item \in Item
    BY <1>c, <1>f
  <2>2. Inv'
    <3>1. s.list.rows = None \/ s.list.rows \in Records(page)
      BY <1>0, <2>1 DEF Shape
    <3>2. Ends(i, s)
      BY <1>p, <2>1, <3>1 DEF Ends
    <3>3. QED
      BY <1>f, <3>2, EndsRule
  <2>3. After(s)
    BY <1>f, <2>1, Afterwards
  <2>4. /\ db' = db /\ st'.busy = s.busy \ net[i].flags
        /\ (s.stale => st'.stale) /\ (net[i].status = "failed" => st'.stale)
        /\ DoesStay(Calls \ {i}) /\ Distinct(other)
    BY <1>0, <1>f, <2>1, EndedAfter
  <2>5. Gains({})
    BY <1>0, <1>f, <2>1, GainedNone
  <2>6. Comes(other)
    BY <2>5 DEF Gains, Comes
  <2>7. Targets'
    BY <1>a, <2>1, <2>3, <2>6, TargetsKept
  <2>8. Array'
    <3>1. CASE st'.stale
      BY <3>1, ArrayStale
    <3>2. CASE ~st'.stale
      <4>1. net[i].op \notin {"list", "delete"}
        BY <1>f, <2>4, <3>2
      <4>2. \A j \in Calls : net[j].op \in {"list", "delete"} => j \in Calls \ {i}
        BY <4>1
      <4>3. (st.stale => st'.stale) /\ other.op # "list"
        BY <1>a, <2>1, <2>4
      <4>4. QED
        BY <1>a, <2>1, <2>3, <2>4, <2>6, <4>2, <4>3, ArrayKept
    <3>3. QED
      BY <3>1, <3>2
  <2>9. flag \in st.busy => flag \in st'.busy
    BY <1>b, <1>f, <2>1, <2>4
  <2>10. Counts'
    <3>1. \A j \in Calls : net[j].op = "check" => j \in Calls \ {i}
      BY <1>f
    <3>2. other.op # "check"
      BY <1>a
    <3>3. s.count = st.count /\ s.overlapped = st.overlapped /\ (s.dlg = st.dlg \/ ~Deletes(s.dlg))
      BY <1>f
    <3>4. QED
      BY <2>1, <2>3, <2>4, <2>6, <2>9, <3>1, <3>2, <3>3, CountsKept
  <2>11. QED
    BY <2>2, <2>7, <2>8, <2>10
<1>g. Leaving(st)
  BY <1>0
<1>6. ASSUME NEW i \in Calls, Plans!DeleteChecked(i) PROVE Goal
  <2>1. PICK y : /\ net[i].op = "check" /\ net[i].status # "sent"
                 /\ y \in BOOLEAN
                 /\ Answer(i, [st EXCEPT !.count = [of |-> net[i].item, some |-> y]], <<>>)
    BY <1>6, PlansSame DEF Plans!DeleteChecked, Ok, Failed
  <2> DEFINE x == [of |-> net[i].item, some |-> y]
             s == [st EXCEPT !.count = x]
  <2>2. s = [st EXCEPT !.count = x] /\ Answer(i, s, <<>>) /\ x.of = net[i].item
    BY <2>1
  <2>3. x # None
    <3>1. net[i].item \in Item
      BY <1>0, <2>1 DEF Shape, IsCall, Carries
    <3>2. x \in [of : Item, some : BOOLEAN]
      BY <2>1, <3>1
    <3>3. QED
      BY <3>2, ClientsAssumption
  <2> HIDE DEF s, x
  <2>4. /\ Quiet(s) /\ DOMAIN s = DOMAIN st /\ ("count" \in DOMAIN st => s["count"] = x)
        /\ \A g \in DOMAIN st : g # "count" => s[g] = st[g]
    <3>1. "count" \notin (Fields \ {"dlg"}) \cup {"typed"}
      BY DEF Fields
    <3>2. QED
      BY <2>2, <3>1, SetsField
  <2>5. /\ s.count = x /\ s.overlapped = st.overlapped /\ s.dlg = st.dlg /\ s.list = st.list /\ s.q = st.q
        /\ s.stale = st.stale /\ s.busy = st.busy /\ Has(s) /\ Keeps(s) /\ IsFcn(s)
    BY <1>0, <2>4 DEF Has, Fields, Quiet, Keeps
  <2>6. Inv'
    <3>1. s.list.rows = None \/ s.list.rows \in Records(page)
      BY <1>0, <2>5 DEF Shape
    <3>2. Ends(i, s)
      BY <1>p, <2>5, <3>1 DEF Ends
    <3>3. QED
      BY <2>1, <2>2, <3>2, EndsRule
  <2>7. After(s)
    BY <2>2, <2>5, Afterwards
  <2>8. /\ db' = db /\ st'.busy = s.busy \ net[i].flags
        /\ (s.stale => st'.stale) /\ (net[i].status = "failed" => st'.stale)
        /\ DoesStay(Calls \ {i}) /\ \A c : Distinct(c)
    BY <1>0, <2>2, <2>5, EndedAfter
  <2>9. Leaves(i, {})
    BY <1>0, <2>2, <2>5, LeftNone
  <2>10. Comes(other)
    BY <2>9 DEF Leaves, Comes
  <2>11. Deletes(s.dlg) => s.list.rows \in Records("plans") /\ s.dlg.item \in Item
    BY <2>5 DEF Targets
  <2>12. Targets'
    BY <1>a, <2>5, <2>7, <2>10, <2>11, TargetsKept
  <2>13. Array'
    <3>1. \A j \in Calls : net[j].op \in {"list", "delete"} => j \in Calls \ {i}
      BY <2>1
    <3>2. (st.stale => st'.stale) /\ other.op # "list"
      BY <1>a, <2>5, <2>8
    <3>3. QED
      BY <1>a, <2>5, <2>7, <2>8, <2>10, <3>1, <3>2, ArrayKept
  <2>14. st'.count = x /\ st'.overlapped = st.overlapped /\ st'.dlg = st.dlg
    BY <2>5, <2>7, AfterIs
  <2>15. ASSUME ~st.overlapped PROVE \A k \in Calls' : net'[k].op # "check"
    <3>1. \A j \in Calls \ {i} : net[j].op # "check"
      BY <2>1, <2>15 DEF Counts
    <3>2. QED
      BY <2>9, <3>1 DEF Leaves
  <2>16. ASSUME ~st.overlapped, Deletes(st.dlg) PROVE x.of = st.dlg.item
    BY <2>1, <2>2, <2>16 DEF Counts
  <2>17. Counts'
    BY <2>3, <2>14, <2>15, <2>16 DEF Counts, Deletes
  <2>18. QED
    BY <2>6, <2>12, <2>13, <2>17
<1>7. ASSUME NEW i \in Calls, Plans!fetchPlans(i) PROVE Goal
  <2>1. CASE Failed(i, "list") /\ Answer(i, st, <<>>)
    BY <1>f, <1>g, <2>1 DEF Failed
  <2>2. CASE Ok(i, "list") /\ Answer(i, Show(st, i), <<>>)
    <3> DEFINE s == Show(st, i)
    <3>1. s = Show(st, i) /\ Answer(i, s, <<>>) /\ net[i].op = "list" /\ net[i].status = "ok"
      BY <2>2 DEF Ok
    <3> HIDE DEF s
    <3>2. /\ Keeps(s) /\ s.q = st.q /\ s.list = [q |-> net[i].q, rows |-> net[i].rows]
          /\ s.dlg = st.dlg /\ DOMAIN s = DOMAIN st /\ \A g \in DOMAIN st \ {"list"} : s[g] = st[g]
      BY <1>0, <3>1, ShowsQuiet
    <3>3. /\ s.count = st.count /\ s.overlapped = st.overlapped /\ s.stale = st.stale /\ s.busy = st.busy
          /\ Has(s) /\ IsFcn(s)
      BY <1>0, <3>2 DEF Has, Fields, Keeps
    <3>4. Inv'
      BY <2>2, <3>1, <3>2, ShownRule
    <3>5. After(s)
      BY <3>1, <3>3, Afterwards
    <3>6. /\ db' = db /\ st'.busy = s.busy \ net[i].flags
          /\ (s.stale => st'.stale)
          /\ DoesStay(Calls \ {i}) /\ \A c : Distinct(c)
      BY <1>0, <3>1, <3>2, EndedAfter
    <3>7. Leaves(i, {})
      BY <1>0, <3>1, <3>2, LeftNone
    <3>8. Comes(other)
      BY <3>7 DEF Leaves, Comes
    <3>9. net[i].rows \in Records("plans")
      BY <1>0, <1>p, <3>1 DEF Shape, IsCall, Lists
    <3>10. Deletes(s.dlg) => s.list.rows \in Records("plans") /\ s.dlg.item \in Item
      BY <3>2, <3>9 DEF Targets
    <3>11. Targets'
      BY <1>a, <3>3, <3>5, <3>8, <3>10, TargetsKept
    <3>12. flag \in st.busy => flag \in st'.busy
      BY <1>b, <3>1, <3>3, <3>6
    <3>13. Counts'
      <4>1. \A j \in Calls : net[j].op = "check" => j \in Calls \ {i}
        BY <3>1
      <4>2. other.op # "check"
        BY <1>a
      <4>3. QED
        BY <3>2, <3>3, <3>5, <3>6, <3>8, <3>12, <4>1, <4>2, CountsKept
    <3>14. ASSUME ~st'.stale PROVE Array'
      <4>1. ~st.stale
        BY <3>3, <3>6, <3>14
      <4>2. /\ \A j \in Calls : net[j].op = "list" => net[j].q = st.q
            /\ \A j \in Calls : net[j].op = "delete" /\ net[j].status = "ok" => db[net[j].item] = "gone"
            /\ \A j \in Calls : net[j].op = "list" /\ net[j].status = "ok" => Matches(net[j].rows)
        BY <4>1 DEF Array
      <4>3. \A j \in Calls : net[j].op = "delete" => j \in Calls \ {i}
        BY <3>1
      <4>4. ASSUME NEW rows, Matches(rows)
            PROVE  \A k \in Item : db'[k] = rows[k] \/ (db'[k] = "gone" /\ Deleting(k)')
        BY <3>6, <4>3, <4>4, MatchesKept
      <4>5. st'.q = st.q /\ st'.list = [q |-> st.q, rows |-> net[i].rows]
        BY <3>1, <3>2, <3>3, <3>5, <4>2, AfterIs
      <4>6. \A k \in Item : db'[k] = net[i].rows[k] \/ (db'[k] = "gone" /\ Deleting(k)')
        BY <3>1, <4>2, <4>4
      <4>7. ASSUME NEW k \in Calls' PROVE \E j \in Calls : net'[k] = net[j]
        BY <3>7 DEF Leaves
      <4>8. /\ \A k \in Calls' : net'[k].op = "list" => net'[k].q = st'.q
            /\ \A k \in Calls' : net'[k].op = "delete" /\ net'[k].status = "ok" => db'[net'[k].item] = "gone"
        BY <3>6, <4>2, <4>5, <4>7
      <4>9. ASSUME NEW k \in Calls', net'[k].op = "list", net'[k].status = "ok"
            PROVE  \A m \in Item : db'[m] = net'[k].rows[m] \/ (db'[m] = "gone" /\ Deleting(m)')
        <5>1. PICK j \in Calls : net'[k] = net[j]
          BY <4>7
        <5>2. Matches(net[j].rows)
          BY <4>2, <4>9, <5>1
        <5>3. QED
          BY <4>4, <5>1, <5>2
      <4>10. QED
        BY <3>9, <4>5, <4>6, <4>8, <4>9 DEF Array, Matches, Records, ValuesOf, Plans!Values
    <3>15. QED
      BY <3>4, <3>11, <3>13, <3>14, ArrayStale
  <2>3. QED
    BY <1>7, <2>1, <2>2, PlansSame DEF Plans!fetchPlans, Fetched
<1>8. ASSUME NEW i \in Calls, Plans!Deleted(i) PROVE Goal
  <2>1. CASE Failed(i, "delete") /\ Answer(i, st, <<>>)
    BY <1>f, <1>g, <2>1 DEF Failed
  <2> DEFINE g == net[i].item
             r == [net[i].rows EXCEPT ![g] = "gone"]
             b == st.stale \/ net[i].rows # st.list.rows \/ \E c \in Range(net) : c.op = "list"
             e == IF Deletes(st.dlg) THEN None ELSE st.dlg
             s == [st EXCEPT !.list.rows = r, !.dlg = e, !.stale = b]
  <2>2. CASE Ok(i, "delete") /\ Answer(i, s, <<>>)
    <3>1. net[i].op = "delete" /\ net[i].status = "ok" /\ Answer(i, s, <<>>)
      BY <2>2 DEF Ok
    <3>2. g \in Item /\ net[i].rows \in Records("plans")
      BY <1>0, <1>p, <3>1 DEF Shape, IsCall, Carries
    <3>3. r \in Records("plans") /\ r[g] = "gone" /\ \A k \in Item : k # g => r[k] = net[i].rows[k]
      BY <3>2 DEF Records, ValuesOf, Plans!Values
    <3>4. ~Deletes(e)
      BY DEF Deletes
    <3>5. b \in BOOLEAN /\ (st.stale => b)
      OBVIOUS
    <3>6. ~b => net[i].rows = st.list.rows /\ \A j \in Calls : net[j].op # "list"
      BY DEF Range, Calls
    <3> HIDE DEF r, b, e, g
    <3>7. /\ IsFcn(s) /\ DOMAIN s = DOMAIN st /\ s.dlg = e /\ s.list = [st.list EXCEPT !.rows = r] /\ s.stale = b
          /\ \A f \in DOMAIN st : f \notin {"list", "dlg", "stale"} => s[f] = st[f]
      BY <1>0 DEF IsFcn, Has, Fields
    <3> HIDE DEF s
    <3>8. /\ s.q = st.q /\ s.count = st.count /\ s.overlapped = st.overlapped /\ s.busy = st.busy
          /\ s.acts = st.acts /\ s.timer = st.timer /\ Has(s)
      BY <1>0, <3>7 DEF Has, Fields
    <3>9. Keeps(s)
      BY <1>0, <1>p, <3>5, <3>7, <3>8 DEF Keeps
    <3>10. s.list.rows = None \/ s.list.rows \in Records(page)
      BY <1>0, <1>p, <3>3, <3>7, RowsOrNone
    <3>11. Inv'
      <4>1. Ends(i, s)
        BY <1>p, <3>8, <3>9, <3>10 DEF Ends
      <4>2. QED
        BY <3>1, <4>1, EndsRule
    <3>12. After(s)
      BY <3>1, <3>7, Afterwards
    <3>13. /\ db' = db /\ st'.busy = s.busy \ net[i].flags
           /\ (s.stale => st'.stale)
           /\ DoesStay(Calls \ {i}) /\ \A c : Distinct(c)
      BY <1>0, <3>1, <3>9, EndedAfter
    <3>14. Leaves(i, {})
      BY <1>0, <3>1, <3>9, LeftNone
    <3>15. Comes(other)
      BY <3>14 DEF Leaves, Comes
    <3>16. ~Deletes(s.dlg)
      BY <3>4, <3>7
    <3>17. Targets'
      BY <1>a, <3>8, <3>12, <3>15, <3>16, TargetsKept
    <3>18. flag \in st.busy => flag \in st'.busy
      BY <1>b, <3>1, <3>8, <3>13
    <3>19. Counts'
      <4>1. \A j \in Calls : net[j].op = "check" => j \in Calls \ {i}
        BY <3>1
      <4>2. other.op # "check"
        BY <1>a
      <4>3. QED
        BY <3>8, <3>12, <3>13, <3>15, <3>16, <3>18, <4>1, <4>2, CountsKept
    <3>20. ASSUME ~st'.stale PROVE Array'
      <4>1. ~b /\ ~st.stale
        BY <3>5, <3>7, <3>13, <3>20
      <4>2. net[i].rows = st.list.rows /\ \A j \in Calls : net[j].op # "list"
        BY <3>6, <4>1
      <4>3. /\ \A j \in Calls : net[j].op = "delete" /\ net[j].status = "ok" => db[net[j].item] = "gone"
            /\ \E x \in Records("plans") : st.list = [q |-> st.q, rows |-> x] /\ Matches(x)
        BY <4>1, <4>2 DEF Array
      <4>4. PICK x \in Records("plans") : st.list = [q |-> st.q, rows |-> x] /\ Matches(x)
        BY <4>3
      <4>5. x = net[i].rows /\ st'.list = [q |-> st.q, rows |-> r] /\ st'.q = st.q
        BY <3>7, <3>8, <3>12, <4>2, <4>4, AfterIs
      <4>6. ASSUME NEW k \in Item PROVE db'[k] = r[k] \/ (db'[k] = "gone" /\ Deleting(k)')
        <5>1. CASE k = g
          BY <3>1, <3>3, <3>13, <4>3, <5>1 DEF g
        <5>2. CASE k # g
          <6>1. r[k] = x[k]
            BY <3>3, <4>5, <5>2
          <6>2. CASE db[k] = x[k]
            BY <3>13, <6>1, <6>2
          <6>3. CASE db[k] = "gone" /\ Deleting(k)
            <7>1. PICK j \in Calls : net[j].op = "delete" /\ net[j].item = k /\ net[j].status # "sent"
              BY <6>3 DEF Deleting
            <7>2. j \in Calls \ {i}
              BY <5>2, <7>1 DEF g
            <7>3. Deleting(k)'
              BY <3>13, <7>1, <7>2 DEF Deleting, DoesStay
            <7>4. QED
              BY <3>13, <6>3, <7>3
          <6>4. QED
            BY <4>4, <6>2, <6>3 DEF Matches
        <5>3. QED
          BY <5>1, <5>2
      <4>7. \A k \in Calls' : \E j \in Calls : net'[k] = net[j]
        BY <3>14 DEF Leaves
      <4>8. /\ \A k \in Calls' : net'[k].op # "list"
            /\ \A k \in Calls' : net'[k].op = "delete" /\ net'[k].status = "ok" => db'[net'[k].item] = "gone"
        BY <3>13, <4>2, <4>3, <4>7
      <4>9. QED
        BY <3>3, <4>5, <4>6, <4>8 DEF Array, Matches, Records, ValuesOf, Plans!Values
    <3>21. QED
      BY <3>11, <3>17, <3>19, <3>20, ArrayStale
  <2>3. QED
    BY <1>8, <2>1, <2>2, PlansSame DEF Plans!Deleted, DialogIs, Deletes, Plans!Range, Range
<1>9. ASSUME NEW i \in Calls, Plans!Saved(i) PROVE Goal
  <2>1. CASE Failed(i, "save") /\ Answer(i, st, <<>>)
    BY <1>f, <1>g, <2>1 DEF Failed
  <2> DEFINE u == [st EXCEPT !.dlg = None]
             s == IF DialogIs("form") THEN u ELSE st
             c == Read("list", {"loading", "submitting"}, net[i].q)
  <2>2. CASE Ok(i, "save") /\ Answer(i, s, <<c>>)
    <3>1. net[i].op = "save" /\ net[i].status = "ok" /\ Answer(i, s, <<c>>)
      BY <2>2 DEF Ok
    <3>2. u = [st EXCEPT !.dlg = None] /\ (s = u \/ s = st)
      OBVIOUS
    <3>3. Reading(c, "list", {"loading", "submitting"}, net[i].q)
      BY Readings
    <3> HIDE DEF u, s, c
    <3>4. Leaving(u)
      BY <1>d, <3>2 DEF Deletes
    <3>5. Leaving(s)
      BY <1>g, <3>2, <3>4
    <3>6. /\ Keeps(s) /\ IsFcn(s) /\ Has(s) /\ s.q = st.q /\ s.list = st.list
          /\ flag \in st.busy => flag \in s.busy
          /\ Deletes(s.dlg) => s.list.rows \in Records("plans") /\ s.dlg.item \in Item
      BY <1>c, <3>5
    <3>7. {"loading", "submitting"} \ Common \subseteq net[i].flags
      BY <1>0, <3>1 DEF Shape, IsCall, Carries, Common
    <3>8. Inv'
      BY <3>1, <3>3, <3>5, <3>7, ThenStep
    <3>9. After(s)
      BY <3>1, <3>6, Afterwards
    <3>10. c.op = "list" /\ c.flags = {"loading", "submitting"} /\ c.q = net[i].q /\ c.to = None /\ c.status = "sent"
      BY <3>3 DEF Reading
    <3>11. /\ db' = db /\ st'.busy = (s.busy \ net[i].flags) \cup c.flags
           /\ st'.stale \/ (c.q = s.q /\ \A k \in Calls' : net'[k] = c)
           /\ Distinct(c)
      BY <1>0, <3>1, <3>6, <3>10, ListAfter
    <3>12. \A k \in Calls' : net'[k] = c \/ \E j \in Calls \ {i} : net'[k] = net[j]
      BY <1>0, <3>1, LeftOne
    <3>13. Comes(c)
      BY <3>12 DEF Comes
    <3>14. Watched(c)
      BY <3>10 DEF Watched, Changes, Payloads
    <3>15. Targets'
      BY <3>6, <3>9, <3>13, <3>14, TargetsKept
    <3>16. flag \in st.busy => flag \in st'.busy
      BY <1>b, <3>1, <3>6, <3>11
    <3>17. DoesStay(Calls \ {i})
      <4>1. IsSeq(net) /\ net' = Others(i) \o <<c>>
        BY <1>0, <3>1 DEF Answer, Shape
      <4>2. /\ Len(net) \in Nat /\ Calls' = 1..Len(net)
            /\ \A j \in Calls \ {i} : \E k \in 1..(Len(net) - 1) : net'[k] = net[j]
        BY <4>1, Replaced
      <4>3. QED
        BY <4>2 DEF DoesStay
    <3>18. Counts'
      <4>1. \A j \in Calls : net[j].op = "check" => j \in Calls \ {i}
        BY <3>1
      <4>2. c.op # "check"
        BY <3>10
      <4>3. s.count = st.count /\ s.overlapped = st.overlapped /\ (s.dlg = st.dlg \/ ~Deletes(s.dlg))
        BY <3>5
      <4>4. QED
        BY <3>6, <3>9, <3>11, <3>13, <3>16, <3>17, <4>1, <4>2, <4>3, CountsKept
    <3>19. ASSUME ~st'.stale PROVE Array'
      <4>1. c.q = st.q /\ \A k \in Calls' : net'[k] = c
        BY <3>6, <3>11, <3>19
      <4>2. st'.q = st.q
        BY <3>6, <3>9, AfterIs
      <4>3. \E k \in Calls' : net'[k] = c
        <5>1. IsSeq(net) /\ net' = Others(i) \o <<c>>
          BY <1>0, <3>1 DEF Answer, Shape
        <5>2. Len(net) \in Nat /\ Calls = 1..Len(net) /\ Calls' = 1..Len(net) /\ net'[Len(net)] = c
          BY <5>1, Replaced
        <5>3. QED
          BY <5>2
      <4>4. QED
        BY <3>10, <4>1, <4>2, <4>3 DEF Array
    <3>20. QED
      BY <3>8, <3>15, <3>18, <3>19, ArrayStale
  <2>3. QED
    BY <1>9, <2>1, <2>2, PlansSame DEF Plans!Saved, Ok, Failed
<1>10. CASE Plans!OtherUser(Plans!Values \ {"gone"})
  <2>1. OtherUser(Plans!Values \ {"gone"}) /\ Plans!Values \ {"gone"} \subseteq ValuesOf(page)
    BY <1>10, PlansSame DEF ValuesOf
  <2>2. Inv' /\ st'.dlg = st.dlg /\ st'.stale = TRUE /\ net' = net /\ After(st)
    BY <2>1, OtherStep
  <2>3. st'.busy = st.busy
    <3>1. st' = [st EXCEPT !.acts = @ + 1, !.stale = TRUE]
      BY <2>1 DEF OtherUser
    <3>2. QED
      BY <1>0, <3>1 DEF Has, Fields
  <2>4. DoesStay(Calls) /\ Distinct(other) /\ Comes(other)
    BY <2>2 DEF DoesStay, Distinct, Comes, Calls
  <2>5. Deletes(st.dlg) => st.list.rows \in Records("plans") /\ st.dlg.item \in Item
    BY DEF Targets
  <2>6. Targets'
    BY <1>0, <1>a, <2>2, <2>4, <2>5, TargetsKept
  <2>7. Counts'
    BY <1>0, <1>a, <2>2, <2>3, <2>4, CountsKept
  <2>8. QED
    BY <2>2, <2>6, <2>7, ArrayStale
<1>11. QED
  BY <1>1, <1>2, <1>3, <1>4, <1>5, <1>6, <1>7, <1>8, <1>9, <1>10
  DEF Plans!Next, Plans!Calls, Calls, Plans!openAdd, Plans!openEdit

-----------------------------------------------------------------------------
(* The settings *)

MASKED == Settings!MASKED
SettingsFields == {"tab", "keys", "secrets", "dirty", "retouched", "form"}

(* The form, and the tabs it is shown on. *)
Edits(s) ==
    /\ SettingsFields \cup Fields \subseteq DOMAIN s
    /\ s.tab \in Settings!Tabs
    /\ s.keys["sms"] \subseteq Item
    /\ s.keys["sms"] \cap (s.keys["mikrotik"] \cup s.keys["security"]) = {}
    /\ s.form \in [Item -> Texts \cup {"old", MASKED, None}]

NoList == \A i \in Calls : net[i].op # "list"

(* While the settings are loaded nothing else is under way; a save carries  *)
(* what the form of its tab has, unless it was edited since.                *)
Payload(c, s) ==
    ~s.retouched =>
        \A k \in s.keys["sms"] :
            c.rows[k] = IF c.item = "sms" /\ s.form[k] # MASKED THEN s.form[k] ELSE None
Posts ==
    /\ \A i \in Calls : net[i].op = "list" => Calls = {i} /\ "loading" \in st.busy
    /\ \A i \in Calls : net[i].to = None
    /\ \A i \in Calls : net[i].op = "connect" => st.stale
    /\ \A i \in Calls : net[i].op = "saveTab" => "saving" \in net[i].flags /\ Payload(net[i], st)

(* What is shown as the original is stored, but for what a save under way   *)
(* has stored or may have; the form shows the original, and the mask of     *)
(* none but the first, unless it was edited.                                *)
Saving(i, status) == net[i].op = "saveTab" /\ net[i].status = status
Backed(k, v) ==
    \/ db[k] = v /\ \A i \in Calls : Saving(i, "ok") => net[i].rows[k] \in {None, v}
    \/ \E i \in Calls : Saving(i, "ok") /\ net[i].rows[k] # None /\ net[i].rows[k] = db[k]
    \/ \E i \in Calls : Saving(i, "failed")
Shows(s, r) ==
    ~s.retouched =>
        \A k \in s.keys["sms"] :
            /\ s.form[k] # None
            /\ s.form[k] = MASKED => r[k] = "old"
            /\ "sms" \notin s.dirty => s.form[k] \in {MASKED, r[k]}
Stored ==
    ~st.stale =>
        /\ \A i \in Calls : net[i].op = "list" =>
             /\ net[i].q = st.q /\ (\A k \in Item : db[k] = "old")
             /\ net[i].status = "ok" => \A k \in Item : net[i].rows[k] = "old"
        /\ \/ \E i \in Calls : net[i].op = "list"
           \/ \E r \in Records("settings") :
                /\ st.list = [q |-> st.q, rows |-> r]
                /\ \A k \in Item : Backed(k, r[k])
                /\ Shows(st, r)

(* The settings' fields after a step. *)
LEMMA EditsAfter ==
    ASSUME NEW s, Edits(s), After(s)
    PROVE  /\ Edits(st') /\ st'.q = s.q /\ st'.list = s.list
           /\ st'.keys = s.keys /\ st'.dirty = s.dirty /\ st'.retouched = s.retouched /\ st'.form = s.form
<1>1. /\ DOMAIN st' = DOMAIN s /\ st'.q = s.q /\ st'.list = s.list /\ st'.tab = s.tab
      /\ st'.keys = s.keys /\ st'.dirty = s.dirty /\ st'.retouched = s.retouched /\ st'.form = s.form
  BY DEF Edits, After, Fields, History, SettingsFields
<1>2. QED
  BY <1>1 DEF Edits

(* What is under way is as the handler sent it. *)
LEMMA PostsKept ==
    ASSUME Posts, NoList, NEW s, Edits(s), After(s), st.stale => st'.stale,
           s.keys = st.keys, s.form = st.form, s.retouched = st.retouched,
           NEW c, c.op # "list", c.to = None, c.op = "connect" => st'.stale,
           c.op = "saveTab" => "saving" \in c.flags /\ Payload(c, s),
           Comes(c)
    PROVE  Posts'
<1>1. st'.keys = st.keys /\ st'.form = st.form /\ st'.retouched = st.retouched
  BY EditsAfter
<1>2. ASSUME NEW x PROVE Payload(x, st) <=> Payload(x, st')
  BY <1>1 DEF Payload
<1>3. Payload(c, s) <=> Payload(c, st')
  BY <1>1 DEF Payload
<1>4. ASSUME NEW k \in Calls'
      PROVE  /\ net'[k].op # "list"
             /\ net'[k].to = None
             /\ net'[k].op = "connect" => st'.stale
             /\ net'[k].op = "saveTab" => "saving" \in net'[k].flags /\ Payload(net'[k], st')
  <2>1. CASE net'[k] = c
    BY <1>3, <2>1
  <2>2. ASSUME NEW j \in Calls, net'[k] = net[j]
        PROVE  /\ net'[k].op # "list"
               /\ net'[k].to = None
               /\ net'[k].op = "connect" => st'.stale
               /\ net'[k].op = "saveTab" => "saving" \in net'[k].flags /\ Payload(net'[k], st')
    BY <1>2, <2>2 DEF Posts, NoList
  <2>3. QED
    BY <2>1, <2>2 DEF Comes
<1>5. QED
  BY <1>4 DEF Posts, Payload

(* With rows that are stored, and shown, the settings are stored. *)
LEMMA StoredWith ==
    ASSUME \A k \in Calls' : net'[k].op # "list", NEW r \in Records("settings"),
           st'.list = [q |-> st'.q, rows |-> r], \A k \in Item : Backed(k, r[k])', Shows(st', r)
    PROVE  Stored'
<1>1. \A k \in Item : \/ db'[k] = r[k] /\ \A i \in Calls' : net'[i].op = "saveTab" /\ net'[i].status = "ok" => net'[i].rows[k] \in {None, r[k]}
                      \/ \E i \in Calls' : net'[i].op = "saveTab" /\ net'[i].status = "ok" /\ net'[i].rows[k] # None /\ net'[i].rows[k] = db'[k]
                      \/ \E i \in Calls' : net'[i].op = "saveTab" /\ net'[i].status = "failed"
  BY DEF Backed, Saving
<1>2. \E x \in Records("settings") :
        /\ st'.list = [q |-> st'.q, rows |-> x]
        /\ \A k \in Item : \/ db'[k] = x[k] /\ \A i \in Calls' : net'[i].op = "saveTab" /\ net'[i].status = "ok" => net'[i].rows[k] \in {None, x[k]}
                           \/ \E i \in Calls' : net'[i].op = "saveTab" /\ net'[i].status = "ok" /\ net'[i].rows[k] # None /\ net'[i].rows[k] = db'[k]
                           \/ \E i \in Calls' : net'[i].op = "saveTab" /\ net'[i].status = "failed"
        /\ Shows(st', x)
  BY <1>1
<1>3. QED
  BY <1>2 DEF Stored, Backed, Saving, Shows, Records, ValuesOf

(* Nothing is claimed of settings that may differ. *)
LEMMA StoredStale == ASSUME st'.stale PROVE Stored'
  BY DEF Stored

(* What is stored stays stored where no save is answered, *)
LEMMA BackedKept ==
    ASSUME NEW k, NEW v, Backed(k, v), db' = db,
           NEW c, ~(c.op = "saveTab" /\ c.status # "sent"), Comes(c),
           NEW who, DoesStay(who), \A j \in Calls : net[j].op = "saveTab" => j \in who
    PROVE  Backed(k, v)'
<1>1. CASE db[k] = v /\ \A i \in Calls : Saving(i, "ok") => net[i].rows[k] \in {None, v}
  BY <1>1 DEF Backed, Saving, Comes
<1>2. ASSUME NEW i \in Calls, Saving(i, "ok"), net[i].rows[k] # None, net[i].rows[k] = db[k]
      PROVE  Backed(k, v)'
  <2>1. PICK j \in Calls' : net'[j] = net[i]
    BY <1>2 DEF DoesStay, Saving
  <2>2. QED
    BY <1>2, <2>1 DEF Backed, Saving
<1>3. ASSUME NEW i \in Calls, Saving(i, "failed") PROVE Backed(k, v)'
  <2>1. PICK j \in Calls' : net'[j] = net[i]
    BY <1>3 DEF DoesStay, Saving
  <2>2. QED
    BY <1>3, <2>1 DEF Backed, Saving
<1>4. QED
  BY <1>1, <1>2, <1>3 DEF Backed

(* and so do the settings, where no list is. *)
LEMMA StoredKept ==
    ASSUME Stored, NoList, NEW s, Edits(s), After(s), st.stale => st'.stale, db' = db,
           s.q = st.q, s.list = st.list,
           \A r : Shows(st, r) => Shows(s, r),
           NEW c, c.op # "list", c.status = "sent", Comes(c),
           NEW who, DoesStay(who), \A j \in Calls : net[j].op = "saveTab" => j \in who
    PROVE  Stored'
<1> SUFFICES ASSUME ~st'.stale PROVE Stored'
  BY StoredStale
<1>1. /\ st'.q = st.q /\ st'.list = st.list /\ st'.keys = s.keys /\ st'.dirty = s.dirty
      /\ st'.retouched = s.retouched /\ st'.form = s.form
  BY EditsAfter
<1>2. PICK r \in Records("settings") :
        st.list = [q |-> st.q, rows |-> r] /\ (\A k \in Item : Backed(k, r[k])) /\ Shows(st, r)
  BY DEF Stored, NoList
<1>3. \A k \in Item : Backed(k, r[k])'
  <2>1. SUFFICES ASSUME NEW k \in Item, NEW v, v = r[k] PROVE Backed(k, v)'
    BY DEF Backed, Saving
  <2>2. Backed(k, v)
    BY <1>2, <2>1
  <2>3. QED
    BY <2>2, BackedKept
<1>4. Shows(st', r)
  BY <1>1, <1>2 DEF Shows
<1>5. \A k \in Calls' : net'[k].op # "list"
  BY DEF Comes, NoList
<1>6. QED
  BY <1>1, <1>2, <1>3, <1>4, <1>5, StoredWith

(* The operators of the settings' page are those of Clients. *)
LEMMA SettingsSame ==
    /\ \A op, flags, q, i, v : Settings!Write(op, flags, q, i, v) = Write(op, flags, q, i, v)
    /\ \A op, flags, q : Settings!Read(op, flags, q) = Read(op, flags, q)
    /\ \A s, calls : Settings!Do(s, calls) <=> Do(s, calls)
    /\ \A i, s, calls : Settings!Answer(i, s, calls) <=> Answer(i, s, calls)
    /\ \A v : Settings!OtherUser(v) <=> OtherUser(v)
    /\ \A p, s, rows : Settings!Mount(p, s, rows) <=> Mount(p, s, rows)
    /\ \A s, own : Settings!With(s, own) = With(s, own)
    /\ \A q : Settings!Blank(q) = Blank(q)
    /\ \A i, op : Settings!Ok(i, op) <=> Ok(i, op)
    /\ \A i, op : Settings!Failed(i, op) <=> Failed(i, op)
    /\ \A f : Settings!Idle(f) <=> Idle(f)
    /\ \A s, i : Settings!Show(s, i) = Show(s, i)
  BY DEF Settings!Write, Write, Settings!Read, Read, Settings!Do, Do,
         Settings!Send, Send, Settings!Sent, Sent, Settings!Flags, Flags,
         Settings!Range, Range, Settings!Answer, Answer, Settings!Others,
         Others, Settings!OtherUser, OtherUser, Settings!Mount, Mount,
         Settings!Fetch, Fetch, Settings!With, With, Settings!Blank, Blank,
         Settings!Ok, Ok, Settings!Failed, Failed, Settings!Idle, Idle,
         Settings!Show, Show

(* When the page appears its list is under way, of what was there first. *)
LEMMA SettingsFirst ==
    ASSUME NEW s, IsState(s), Edits(s), s.list = [q |-> None, rows |-> None], s.busy = {},
           NEW rows, rows = [k \in Item |-> "old"], Mount("settings", s, rows)
    PROVE  Edits(st) /\ Posts /\ Stored
<1> DEFINE c == Read("list", {"loading"}, s.q)
<1>1. net = <<c>> /\ db = rows /\ st = Sent(s, <<>>, <<c>>)
  BY DEF Mount, Fetch
<1>2. Reading(c, "list", {"loading"}, s.q)
  BY Readings
<1> HIDE DEF c
<1>3. c.op = "list" /\ c.q = s.q /\ c.to = None /\ c.status = "sent" /\ c.flags = {"loading"}
  BY <1>2 DEF Reading
<1>4. Calls = {1} /\ net[1] = c
  BY <1>1 DEF Calls
<1>5. /\ DOMAIN st = DOMAIN s /\ st.q = s.q /\ st.tab = s.tab /\ st.keys = s.keys /\ st.form = s.form
      /\ Edits(st)
  BY Mounted DEF Edits, Fields, History, SettingsFields
<1>6. st = [s EXCEPT !.stale = FALSE, !.busy = s.busy \cup c.flags]
  BY <1>1, <1>3, SentFirst
<1>7. "loading" \in st.busy
  BY <1>3, <1>6 DEF IsState, IsFcn, Fields
<1>8. Posts
  BY <1>3, <1>4, <1>7 DEF Posts
<1>9. Stored
  BY <1>1, <1>3, <1>4, <1>5 DEF Stored
<1>10. QED
  BY <1>5, <1>8, <1>9

(* The page appears, on any of the tabs. *)
LEMMA SettingsMount ==
    ASSUME NEW tab \in Settings!Tabs, NEW keys, NEW secrets, keys["sms"] \subseteq Item,
           keys["sms"] \cap (keys["mikrotik"] \cup keys["security"]) = {},
           Settings!Settings(tab, keys, secrets)
    PROVE  Inv /\ page = "settings" /\ Edits(st) /\ Posts /\ Stored
<1> DEFINE own == [tab |-> tab, keys |-> keys, secrets |-> secrets, dirty |-> {},
                   retouched |-> FALSE, form |-> [k \in Item |-> None]]
           q == [all |-> TRUE]
           s == With(Blank(q), own)
           r == [k \in Item |-> "old"]
<1>1. Mount("settings", s, r)
  BY SettingsSame DEF Settings!Settings
<1>2. /\ DOMAIN own = SettingsFields
      /\ own.tab = tab /\ own.keys = keys /\ own.form = [k \in Item |-> None]
      /\ s = With(Blank(q), own)
  BY DEF SettingsFields
<1>3. r \in Records("settings") /\ "settings" \in Components /\ "settings" \notin Searching
  BY DEF Records, ValuesOf, Components, Searching
<1>r. r = [k \in Item |-> "old"]
  OBVIOUS
<1> HIDE DEF own, q, s, r
<1>4. IsWith(s, q, own)
  BY <1>2, Withs
<1>5. /\ IsState(s) /\ s.acts = 0 /\ s.busy = {} /\ s.list = [q |-> None, rows |-> None]
      /\ s.tab = tab /\ s.keys = keys /\ s.form = [k \in Item |-> None] /\ DOMAIN s = Fields \cup SettingsFields
  BY <1>2, <1>4 DEF IsWith, IsState, SettingsFields
<1>6. Edits(s)
  BY <1>5 DEF Edits
<1>7. Starts("settings", s, r)
  BY <1>3, <1>5 DEF Starts
<1>8. Inv /\ page = "settings"
  BY <1>1, <1>7, MountRule DEF Mount
<1>9. QED
  BY <1>1, <1>5, <1>6, <1>8, <1>r, SettingsFirst

(* The settings' page when it appears. *)
LEMMA SettingsInit ==
    ASSUME Settings!Init
    PROVE  Inv /\ page = "settings" /\ Edits(st) /\ Posts /\ Stored
<1> DEFINE one == [sms |-> Item, mikrotik |-> {}, security |-> {}]
           two(k) == [sms |-> {}, mikrotik |-> Item, security |-> {k}]
<1>1. PICK k \in Item : Settings!Settings("sms", one, {k}) \/ Settings!Settings("mikrotik", two(k), Item)
  BY DEF Settings!Init
<1>2. "sms" \in Settings!Tabs /\ "mikrotik" \in Settings!Tabs
  BY DEF Settings!Tabs
<1>3. one["sms"] \subseteq Item /\ one["sms"] \cap (one["mikrotik"] \cup one["security"]) = {}
  OBVIOUS
<1>4. two(k)["sms"] \subseteq Item /\ two(k)["sms"] \cap (two(k)["mikrotik"] \cup two(k)["security"]) = {}
  OBVIOUS
<1> HIDE DEF one, two
<1>5. CASE Settings!Settings("sms", one, {k})
  BY <1>2, <1>3, <1>5, SettingsMount
<1>6. CASE Settings!Settings("mikrotik", two(k), Item)
  BY <1>2, <1>4, <1>6, SettingsMount
<1>7. QED
  BY <1>1, <1>5, <1>6

(* The back end stores what was saved, or refuses it. *)
LEMMA SettingsServe ==
    ASSUME Inv, page = "settings", Edits(st), Posts, Stored, NEW i \in Calls, Serve(i)
    PROVE  Edits(st') /\ Posts' /\ Stored'
<1>1. /\ page' = page /\ st' = st /\ Calls' = Calls
      /\ \A j \in Calls : j # i => net'[j] = net[j]
      /\ net'[i].op = net[i].op /\ net'[i].flags = net[i].flags /\ net'[i].q = net[i].q
      /\ net'[i].item = net[i].item /\ net'[i].to = net[i].to
      /\ \/ net'[i].status = "failed" /\ db' \in {db, Applied(net[i])} /\ net'[i].rows = net[i].rows
         \/ /\ net'[i].status = "ok" /\ db' = Applied(net[i])
            /\ net'[i].rows = IF net[i].op \in Lists THEN db ELSE net[i].rows
      /\ net[i].status = "sent"
      /\ ~Changes(net[i]) => Applied(net[i]) = db
  BY Served DEF Inv
<1>2. \A j \in Calls : /\ net'[j].op = net[j].op /\ net'[j].flags = net[j].flags
                       /\ net'[j].q = net[j].q /\ net'[j].item = net[j].item /\ net'[j].to = net[j].to
  BY <1>1
<1>3. ASSUME NEW j \in Calls, net[j].op = "saveTab" PROVE net'[j].rows = net[j].rows
  BY <1>1, <1>3 DEF Lists
<1>4. Edits(st')
  BY <1>1
<1>5. Posts'
  <2>1. ASSUME NEW j \in Calls, net[j].op = "saveTab" PROVE Payload(net[j], st) => Payload(net'[j], st')
    BY <1>1, <1>2, <1>3, <2>1 DEF Payload
  <2>2. \A j \in Calls : net'[j].op = "saveTab" => "saving" \in net'[j].flags /\ Payload(net'[j], st')
    BY <1>2, <2>1 DEF Posts
  <2>3. /\ \A j \in Calls : net'[j].op = "list" => Calls = {j} /\ "loading" \in st.busy
        /\ \A j \in Calls : net'[j].to = None
        /\ \A j \in Calls : net'[j].op = "connect" => st.stale
    BY <1>2 DEF Posts
  <2>4. QED
    BY <1>1, <2>2, <2>3 DEF Posts, Payload
<1>6. ASSUME ~st.stale PROVE Stored'
  <2>1. CASE \E j \in Calls : net[j].op = "list"
    <3>1. Calls = {i} /\ net[i].op = "list" /\ net[i].to = None
      BY <2>1 DEF Posts
    <3>2. ~Changes(net[i]) /\ net[i].op \in Lists
      BY <3>1 DEF Changes, Payloads, Lists
    <3>3. db' = db /\ (net'[i].status = "ok" => net'[i].rows = db)
      BY <1>1, <3>2
    <3>4. net[i].q = st.q /\ \A k \in Item : db[k] = "old"
      BY <1>6, <3>1 DEF Stored
    <3>5. QED
      BY <1>1, <3>1, <3>3, <3>4 DEF Stored
  <2>2. CASE NoList
    <3>1. PICK r \in Records("settings") :
            st.list = [q |-> st.q, rows |-> r] /\ (\A k \in Item : Backed(k, r[k])) /\ Shows(st, r)
      BY <1>6, <2>2 DEF Stored, NoList
    <3>2. ASSUME NEW k \in Item, NEW v, Backed(k, v) PROVE Backed(k, v)'
      <4>1. CASE net[i].op = "saveTab"
        <5>1. CASE net'[i].status = "failed"
          BY <1>1, <4>1, <5>1 DEF Backed, Saving
        <5>2. CASE net'[i].status = "ok"
          <6>1. db' = Applied(net[i]) /\ net'[i].rows = net[i].rows /\ net[i].to = None
            BY <1>1, <1>3, <4>1, <5>2 DEF Posts
          <6>2. db'[k] = IF net[i].rows[k] # None THEN net[i].rows[k] ELSE db[k]
            BY <4>1, <6>1 DEF Applied, Payloads
          <6>3. CASE net[i].rows[k] # None
            BY <1>1, <4>1, <5>2, <6>1, <6>2, <6>3 DEF Backed, Saving
          <6>4. CASE net[i].rows[k] = None
            <7>1. db'[k] = db[k]
              BY <6>2, <6>4
            <7>2. CASE db[k] = v /\ \A j \in Calls : Saving(j, "ok") => net[j].rows[k] \in {None, v}
              BY <1>1, <6>1, <6>4, <7>1, <7>2 DEF Backed, Saving
            <7>3. ASSUME NEW j \in Calls, Saving(j, "ok"), net[j].rows[k] # None, net[j].rows[k] = db[k]
                  PROVE  Backed(k, v)'
              BY <1>1, <7>1, <7>3 DEF Backed, Saving
            <7>4. ASSUME NEW j \in Calls, Saving(j, "failed") PROVE Backed(k, v)'
              BY <1>1, <7>1, <7>4 DEF Backed, Saving
            <7>5. QED
              BY <3>2, <7>2, <7>3, <7>4 DEF Backed
          <6>5. QED
            BY <6>3, <6>4
        <5>3. QED
          BY <1>1, <5>1, <5>2
      <4>2. CASE net[i].op # "saveTab"
        <5>1. net[i].to = None /\ net[i].op # "connect"
          BY <1>6 DEF Posts
        <5>2. ~Changes(net[i])
          BY <4>2, <5>1 DEF Changes, Payloads
        <5>3. db' = db
          BY <1>1, <5>2
        <5>4. \A j \in Calls : \A status : Saving(j, status) <=> net'[j].op = "saveTab" /\ net'[j].status = status
          BY <1>1, <4>2 DEF Saving
        <5>5. \A j \in Calls : net[j].op = "saveTab" => net'[j].rows = net[j].rows
          BY <1>3
        <5>6. QED
          BY <1>1, <3>2, <5>3, <5>4, <5>5 DEF Backed, Saving
      <4>3. QED
        BY <4>1, <4>2
    <3>3. \A k \in Item : Backed(k, r[k])'
      <4>1. SUFFICES ASSUME NEW k \in Item, NEW v, v = r[k] PROVE Backed(k, v)'
        BY DEF Backed, Saving
      <4>2. Backed(k, v)
        BY <3>1, <4>1
      <4>3. QED
        BY <3>2, <4>2
    <3>4. \A j \in Calls' : net'[j].op # "list"
      BY <1>1, <1>2, <2>2 DEF NoList
    <3>5. st'.list = [q |-> st'.q, rows |-> r] /\ Shows(st', r)
      BY <1>1, <3>1
    <3>6. QED
      BY <3>3, <3>4, <3>5, StoredWith
  <2>3. QED
    BY <2>1, <2>2 DEF NoList
<1>7. QED
  BY <1>1, <1>4, <1>5, <1>6, StoredStale

(* The rows after a save: what was sent replaces what was there.            *)
LEMMA Merged ==
    ASSUME Inv, page = "settings", NEW i \in Calls, net[i].op \in Payloads, NEW r \in Records("settings"),
           NEW x, x = [k \in Item |-> IF net[i].rows[k] = None THEN r[k] ELSE net[i].rows[k]]
    PROVE  x \in Records("settings")
<1>1. net[i].rows \in [Item -> ValuesOf(page) \cup {None}]
  BY DEF Inv, Shape, IsCall
<1>2. QED
  BY <1>1 DEF Records

(* Settings are not nothing. *)
LEMMA RowsAreSome == ASSUME NEW r \in Records("settings") PROVE r # None
<1>1. None \notin [Item -> Texts \cup {"old", Settings!MASKED}]
  BY ClientsAssumption
<1>2. Records("settings") = [Item -> Texts \cup {"old", Settings!MASKED}]
  BY DEF Records, ValuesOf
<1>3. QED
  BY <1>1, <1>2

(* A list with other rows has these, or those it had. *)
LEMMA RowsEither ==
    ASSUME NEW old, NEW r, NEW list, list = [old EXCEPT !.rows = r]
    PROVE  list.rows = r \/ list.rows = old.rows
  OBVIOUS

(* A mask is no text, and nothing is neither. *)
LEMMA MaskedIsNone ==
    None \notin Texts /\ MASKED \notin Texts /\ None # "old" /\ None # MASKED
<1>1. MASKED \notin Texts /\ None \notin {"old", MASKED}
  BY ClientsAssumption DEF MASKED
<1>2. QED
  BY <1>1, PageAssumption

(* Settings.tsx: what is edited, what is sent and what is stored. *)
LEMMA SettingsStep ==
    ASSUME Inv, page = "settings", Edits(st), Posts, Stored, Settings!Next
    PROVE  Inv' /\ Edits(st') /\ Posts' /\ Stored'
<1>0. Shape /\ Quiet(st) /\ Keeps(st) /\ IsState(st) /\ IsFcn(st) /\ SettingsFields \cup Fields \subseteq DOMAIN st
  BY StIsQuiet DEF Inv, Quiet, Keeps, Shape, IsState, Edits
<1>p. /\ Records(page) = Records("settings") /\ page \in OwnRows /\ page \notin Searching /\ page \notin Silent
      /\ ValuesOf(page) = Texts \cup {"old", MASKED}
  BY DEF OwnRows, Searching, Silent, Mobile!Screens, ValuesOf, MASKED
<1> DEFINE Goal == Inv' /\ Edits(st') /\ Posts' /\ Stored'
           other == Write("other", {}, None, None, None)
           Same(s) == s.keys = st.keys /\ s.form = st.form /\ s.dirty = st.dirty /\ s.retouched = st.retouched
<1>a. other.op = "other" /\ other.status = "sent" /\ other.to = None
  BY WriteFields
<1> HIDE DEF other
<1>b. ASSUME Settings!Loaded PROVE NoList
  BY <1>b, SettingsSame DEF Settings!Loaded, Idle, Posts, NoList
<1>c. ASSUME NEW i \in Calls, net[i].op # "list" PROVE NoList
  BY <1>c DEF Posts, NoList
<1>s. ASSUME NEW s, Same(s) PROVE \A r : Shows(st, r) => Shows(s, r)
  BY <1>s DEF Shows
(* A handler that leaves the form alone. *)
<1>d. ASSUME NEW s, Quiet(s), Edits(s), Same(s), NoList, Do(s, <<>>) PROVE Goal
  <2>1. Keeps(s) /\ IsFcn(s) /\ s.q = st.q /\ s.list = st.list /\ (st.stale => s.stale)
    BY <1>d DEF Quiet, Keeps
  <2>2. Inv'
    BY <1>d, QuietRule
  <2>3. After(s)
    BY <1>d, <2>1, Afterwards
  <2>4. db' = db /\ net' = net /\ (st.stale => st'.stale)
    BY <1>0, <1>d, <2>1, DoneNone
  <2>5. DoesStay(Calls) /\ Comes(other)
    BY <2>4 DEF DoesStay, Comes, Calls
  <2>6. Edits(st')
    BY <1>d, <2>3, EditsAfter
  <2>7. Posts'
    BY <1>a, <1>d, <2>3, <2>4, <2>5, PostsKept
  <2>8. Stored'
    BY <1>a, <1>d, <1>s, <2>1, <2>3, <2>4, <2>5, StoredKept
  <2>9. QED
    BY <2>2, <2>6, <2>7, <2>8
(* One that sends a call. *)
<1>e. ASSUME NEW s, Edits(s), Same(s), NoList, NEW c, Sends(s, c), c.to = None, c.op # "list",
             c.op = "connect" => s.stale,
             c.op = "saveTab" => "saving" \in c.flags /\ Payload(c, s), Do(s, <<c>>)
      PROVE  Goal
  <2>1. Keeps(s) /\ IsFcn(s) /\ s.list = st.list /\ s.q = st.q /\ (st.stale => s.stale) /\ c.status = "sent"
    BY <1>e DEF Sends, Keeps
  <2>2. Inv' /\ After(s) /\ Comes(c)
    BY <1>e, SendsStep DEF Comes
  <2>3. /\ db' = db /\ (s.stale => st'.stale) /\ DoesStay(Calls)
    BY <1>0, <1>e, <2>1, DoneOne
  <2>4. Edits(st')
    BY <1>e, <2>2, EditsAfter
  <2>5. st.stale => st'.stale
    BY <2>1, <2>3
  <2>6. c.op = "connect" => st'.stale
    BY <1>e, <2>3
  <2>7. Posts'
    BY <1>e, <2>2, <2>5, <2>6, PostsKept
  <2>8. Stored'
    BY <1>e, <1>s, <2>1, <2>2, <2>3, <2>5, StoredKept
  <2>9. QED
    BY <2>2, <2>4, <2>7, <2>8
(* An answer, but of a list or of a save that succeeded. *)
<1>f. ASSUME NEW s, Quiet(s), Edits(s), Same(s), NEW i \in Calls, net[i].op # "list", net[i].status # "sent",
             net[i].op = "saveTab" => net[i].status = "failed", Answer(i, s, <<>>)
      PROVE  Goal
  <2>1. Keeps(s) /\ IsFcn(s) /\ s.q = st.q /\ s.list = st.list /\ (st.stale => s.stale)
    BY <1>f DEF Quiet, Keeps
  <2>2. Inv'
    <3>1. s.list.rows = None \/ s.list.rows \in Records(page)
      BY <1>0, <2>1 DEF Shape
    <3>2. Ends(i, s)
      BY <1>p, <2>1, <3>1 DEF Ends
    <3>3. QED
      BY <1>f, <3>2, EndsRule
  <2>3. After(s)
    BY <1>f, <2>1, Afterwards
  <2>4. /\ db' = db /\ (s.stale => st'.stale) /\ (net[i].status = "failed" => st'.stale)
        /\ DoesStay(Calls \ {i})
    BY <1>0, <1>f, <2>1, EndedAfter
  <2>5. Leaves(i, {})
    BY <1>0, <1>f, <2>1, LeftNone
  <2>6. Comes(other)
    BY <2>5 DEF Leaves, Comes
  <2>7. NoList
    BY <1>c, <1>f
  <2>8. st.stale => st'.stale
    BY <2>1, <2>4
  <2>9. Edits(st')
    BY <1>f, <2>3, EditsAfter
  <2>10. Posts'
    BY <1>a, <1>f, <2>3, <2>6, <2>7, <2>8, PostsKept
  <2>11. ASSUME ~st'.stale PROVE Stored'
    <3>1. \A j \in Calls : net[j].op = "saveTab" => j \in Calls \ {i}
      BY <1>f, <2>4, <2>11
    <3>2. QED
      BY <1>a, <1>f, <1>s, <2>1, <2>3, <2>4, <2>6, <2>7, <2>8, <3>1, StoredKept
  <2>12. QED
    BY <2>2, <2>9, <2>10, <2>11, StoredStale
<1>g. Edits(st) /\ Same(st)
  OBVIOUS
<1>1. ASSUME NEW tab \in Settings!Tabs, Settings!setActiveTab(tab) PROVE Goal
  <2> DEFINE s == [st EXCEPT !.tab = tab]
  <2>1. Do(s, <<>>) /\ Settings!Loaded /\ s = [st EXCEPT !["tab"] = tab]
    BY <1>1, SettingsSame DEF Settings!setActiveTab
  <2> HIDE DEF s
  <2>2. /\ Quiet(s) /\ DOMAIN s = DOMAIN st /\ ("tab" \in DOMAIN st => s["tab"] = tab)
        /\ \A g \in DOMAIN st : g # "tab" => s[g] = st[g]
    <3>1. "tab" \notin (Fields \ {"dlg"}) \cup {"typed"}
      BY DEF Fields
    <3>2. QED
      BY <2>1, <3>1, SetsField
  <2>3. s.tab = tab /\ Same(s)
    BY <1>0, <2>2 DEF SettingsFields
  <2>4. Edits(s)
    BY <2>2, <2>3 DEF Edits
  <2>5. QED
    BY <1>b, <1>d, <2>1, <2>2, <2>3, <2>4
<1>2. ASSUME NEW k \in Item, NEW v \in Texts, Settings!updateSetting(k, v) PROVE Goal
  <2> DEFINE d == st.dirty \cup {st.tab}
             t == st.retouched \/ ~Idle("saving")
             f == [st.form EXCEPT ![k] = v]
             s == [st EXCEPT !.form[k] = v, !.dirty = @ \cup {st.tab}, !.retouched = @ \/ ~Idle("saving")]
  <2>1. Do(s, <<>>) /\ Settings!Loaded /\ k \in st.keys[st.tab]
    BY <1>2, SettingsSame DEF Settings!updateSetting, Settings!TAB_KEYS
  <2>2. /\ IsFcn(s) /\ DOMAIN s = DOMAIN st /\ s.form = f /\ s.dirty = d /\ s.retouched = t
        /\ \A g \in DOMAIN st : g \notin {"form", "dirty", "retouched"} => s[g] = st[g]
    BY <1>0 DEF IsFcn, SettingsFields
  <2>3. f[k] = v /\ \A j \in Item : j # k => f[j] = st.form[j]
    BY DEF Edits
  <2>4. f \in [Item -> Texts \cup {"old", MASKED, None}]
    BY DEF Edits
  <2>5. (st.retouched => t) /\ ("saving" \in st.busy => t) /\ st.tab \in d /\ ("sms" \in st.dirty => "sms" \in d)
    BY DEF Idle
  <2> HIDE DEF s, f, d, t
  <2>6. Quiet(s)
    BY <1>0, <1>p, <2>2, QuietDo DEF IsState, Fields
  <2>7. Edits(s) /\ s.keys = st.keys
    BY <1>0, <2>2, <2>4 DEF Edits, SettingsFields
  <2>8. Keeps(s) /\ s.q = st.q /\ s.list = st.list /\ (st.stale => s.stale)
    BY <2>6 DEF Quiet, Keeps
  <2>9. Inv'
    BY <2>1, <2>6, QuietRule
  <2>10. After(s)
    BY <2>1, <2>2, Afterwards
  <2>11. db' = db /\ net' = net /\ (st.stale => st'.stale) /\ st'.busy = s.busy
    BY <1>0, <2>1, <2>8, DoneNone
  <2>12. NoList
    BY <1>b, <2>1
  <2>13. /\ Edits(st') /\ st'.keys = st.keys /\ st'.retouched = t
    BY <2>2, <2>7, <2>10, EditsAfter
  <2>14. Posts'
    <3>1. ASSUME NEW j \in Calls, net[j].op = "saveTab" PROVE "saving" \in net[j].flags /\ Payload(net[j], st')
      <4>1. "saving" \in net[j].flags /\ "saving" \notin Common
        BY <3>1 DEF Posts, Common
      <4>2. "saving" \in st.busy
        BY <4>1, BusyWith
      <4>3. QED
        BY <2>5, <2>13, <4>1, <4>2 DEF Payload
    <3>2. /\ \A j \in Calls : net[j].to = None
          /\ \A j \in Calls : net[j].op = "connect" => st'.stale
      BY <2>11 DEF Posts
    <3>3. QED
      BY <2>11, <2>12, <3>1, <3>2 DEF Posts, Payload, NoList, Calls
  <2>15. ASSUME NEW r, Shows(st, r) PROVE Shows(s, r)
    <3>1. ASSUME ~s.retouched, NEW j \in st.keys["sms"]
          PROVE  /\ s.form[j] # None /\ (s.form[j] = MASKED => r[j] = "old")
                 /\ "sms" \notin s.dirty => s.form[j] \in {MASKED, r[j]}
      <4>1. CASE j = k
        <5>1. st.tab = "sms"
          BY <2>1, <3>1, <4>1 DEF Edits, Settings!Tabs
        <5>2. s.form[j] = v /\ v # None /\ v # MASKED
          BY <2>2, <2>3, <4>1, MaskedIsNone
        <5>3. QED
          BY <2>2, <2>5, <5>1, <5>2
      <4>2. CASE j # k
        <5>1. j \in Item
          BY DEF Edits
        <5>2. s.form[j] = st.form[j] /\ ~st.retouched /\ ("sms" \notin s.dirty => "sms" \notin st.dirty)
          BY <2>2, <2>3, <2>5, <3>1, <4>2, <5>1
        <5>3. QED
          BY <2>15, <5>2 DEF Shows
      <4>3. QED
        BY <4>1, <4>2
    <3>2. QED
      BY <2>7, <3>1 DEF Shows
  <2>16. DoesStay(Calls) /\ Comes(other)
    BY <2>11 DEF DoesStay, Comes, Calls
  <2>17. Stored'
    BY <1>a, <2>7, <2>8, <2>10, <2>11, <2>12, <2>15, <2>16, StoredKept
  <2>18. QED
    BY <2>9, <2>13, <2>14, <2>17
<1>3. CASE Settings!saveTab
  <2> DEFINE rows == Settings!buildSavePayload(st.tab)
             flags == {"saving"}
             c == WriteOf("saveTab", flags, st.q, st.tab, None, rows)
  <2>1. Do(st, <<c>>) /\ Settings!Loaded /\ st.tab # "mikrotik" /\ flags \cap st.busy = {}
    BY <1>3, SettingsSame DEF Settings!saveTab, Idle, WriteOf
  <2>2. /\ IsFcn(c) /\ DOMAIN c = CallFields /\ c.op = "saveTab" /\ c.flags = flags /\ c.item = st.tab
        /\ c.to = None /\ c.status = "sent" /\ c.rows = rows
    BY WriteWith
  <2>3. rows = [k \in Item |-> IF k \in st.keys[st.tab] /\ st.form[k] # MASKED THEN st.form[k] ELSE None]
    BY DEF Settings!buildSavePayload, Settings!TAB_KEYS, MASKED
  <2>4. flags \cap Common = {} /\ "saving" \in flags
    BY DEF Common
  <2> HIDE DEF c, rows, flags
  <2>5. rows \in [Item -> ValuesOf(page) \cup {None}]
    BY <1>p, <2>3 DEF Edits
  <2>6. IsCall(page, c)
    BY <2>2, <2>4, <2>5 DEF IsCall, Carries, Reads, Lists, Payloads
  <2>7. Sends(st, c)
    BY <1>0, <1>p, <2>1, <2>2, <2>6 DEF Sends, Own
  <2>8. Payload(c, st)
    <3>1. ASSUME NEW k \in st.keys["sms"]
          PROVE  c.rows[k] = IF c.item = "sms" /\ st.form[k] # MASKED THEN st.form[k] ELSE None
      <4>1. k \in Item /\ (k \in st.keys[st.tab] <=> st.tab = "sms")
        BY <2>1, <3>1 DEF Edits, Settings!Tabs
      <4>2. QED
        BY <2>2, <2>3, <4>1
    <3>2. QED
      BY <3>1 DEF Payload
  <2>9. QED
    BY <1>b, <1>e, <1>g, <2>1, <2>2, <2>4, <2>7, <2>8
<1>4. CASE Settings!saveAndConnectMikrotik
  <2> DEFINE rows == [k \in Item |-> IF k \in Settings!TAB_KEYS("security") THEN None
                                     ELSE Settings!displayValue(k)]
             flags == {"connectingMik"}
             c == WriteOf("connect", flags, st.q, None, None, rows)
             s == [st EXCEPT !.stale = TRUE]
  <2>1. Do(s, <<c>>) /\ Settings!Loaded /\ flags \cap st.busy = {}
    BY <1>4, SettingsSame DEF Settings!saveAndConnectMikrotik, Idle, WriteOf
  <2>2. /\ IsFcn(c) /\ DOMAIN c = CallFields /\ c.op = "connect" /\ c.flags = flags
        /\ c.to = None /\ c.status = "sent" /\ c.rows = rows
    BY WriteWith
  <2>3. rows \in [Item -> ValuesOf(page) \cup {None}]
    <3>1. ASSUME NEW k \in Item PROVE Settings!displayValue(k) \in ValuesOf(page)
      BY <1>p, PageAssumption DEF Edits, Settings!displayValue
    <3>2. QED
      BY <3>1
  <2>4. flags \cap Common = {}
    BY DEF Common
  <2>5. s = [st EXCEPT !.stale = TRUE]
    OBVIOUS
  <2> HIDE DEF c, rows, flags, s
  <2>6. IsCall(page, c)
    BY <2>2, <2>3, <2>4 DEF IsCall, Carries, Reads, Lists, Payloads
  <2>7. Keeps(s) /\ DOMAIN s = DOMAIN st /\ s.stale /\ \A g \in DOMAIN st : g # "stale" => s[g] = st[g]
    BY <1>0, <2>5, KeepsStale
  <2>8. Same(s) /\ Edits(s) /\ s.q = st.q /\ s.list = st.list
    BY <1>0, <2>7 DEF Edits, SettingsFields, Fields
  <2>9. Sends(s, c)
    BY <1>p, <2>1, <2>2, <2>6, <2>7, <2>8 DEF Sends, Own
  <2>10. QED
    BY <1>b, <1>e, <2>1, <2>2, <2>7, <2>8, <2>9
<1>5. ASSUME NEW tab, NEW op, op \in {"testSms", "testMik", "reminders"},
             NEW flag, flag \in {"testingSms", "testingMik", "sendingReminders"}, Settings!Try(tab, op, flag)
      PROVE  Goal
  <2> DEFINE flags == {flag}
             c == Write(op, flags, st.q, None, None)
  <2>1. Do(st, <<c>>) /\ Settings!Loaded /\ flags \cap st.busy = {}
    BY <1>5, SettingsSame DEF Settings!Try, Idle
  <2>2. flags \cap Common = {}
    BY <1>5 DEF Common
  <2>3. op \notin Reads \cup Payloads /\ op \notin {"list", "connect", "saveTab"}
    BY <1>5 DEF Reads, Lists, Payloads
  <2>4. c = Write(op, flags, st.q, None, None)
    OBVIOUS
  <2> HIDE DEF flags, c
  <2>5. c.op = op /\ c.to = None
    BY <2>4, WriteFields
  <2>6. Carries(page, c)
    BY <2>3, <2>5 DEF Carries, Reads, Lists
  <2>7. Writes(c)
    BY <2>1, <2>2, <2>3, <2>4, <2>6, WriteIs
  <2>8. Sends(st, c)
    BY <1>0, <1>p, <2>7, WritesSends
  <2>9. QED
    BY <1>b, <1>e, <1>g, <2>1, <2>3, <2>5, <2>8
<1>6. ASSUME NEW i \in Calls, Settings!fetchSettings(i) PROVE Goal
  <2>1. net[i].op = "list" /\ net[i].status # "sent" /\ Calls = {i}
    BY <1>6, SettingsSame DEF Settings!fetchSettings, Ok, Failed, Posts
  <2>2. ASSUME NEW s, Leaves(i, {}), Edits(s), After(s) PROVE Edits(st') /\ Posts' /\ Calls' = {}
    <3>1. Edits(st')
      BY <2>2, EditsAfter
    <3>2. Calls' = {}
      BY <2>1, <2>2 DEF Leaves
    <3>3. QED
      BY <3>1, <3>2 DEF Posts
  <2>3. CASE Failed(i, "list") /\ Answer(i, st, <<>>)
    <3>1. Inv' /\ Leaves(i, {}) /\ After(st)
      BY <1>0, <2>3, FailedStep DEF Failed
    <3>2. st'.stale
      BY <1>0, <2>3, EndedAfter DEF Failed
    <3>3. QED
      BY <2>2, <3>1, <3>2, StoredStale
  <2> DEFINE u == Show(st, i)
             f == [k \in Item |-> Settings!maskValue(k, net[i].rows[k])]
             s == [u EXCEPT !.form = f]
  <2>4. CASE Ok(i, "list") /\ Answer(i, s, <<>>)
    <3>1. f = [k \in Item |-> Settings!maskValue(k, net[i].rows[k])] /\ u = Show(st, i) /\ Answer(i, s, <<>>)
      BY <2>4
    <3>2. net[i].rows \in Records("settings") /\ net[i].status = "ok"
      BY <1>0, <1>p, <2>1, <2>4 DEF Shape, IsCall, Lists, Ok
    <3>3. f \in [Item -> Texts \cup {"old", MASKED, None}]
      <4>1. ASSUME NEW k \in Item PROVE Settings!maskValue(k, net[i].rows[k]) \in Texts \cup {"old", MASKED}
        BY <1>p, <3>2 DEF Settings!maskValue, Records, MASKED
      <4>2. QED
        BY <3>1, <4>1
    <3>s. s = [u EXCEPT !["form"] = f]
      OBVIOUS
    <3> HIDE DEF u, f, s
    <3>4. /\ Keeps(u) /\ u.q = st.q /\ u.list = [q |-> net[i].q, rows |-> net[i].rows]
          /\ DOMAIN u = DOMAIN st /\ \A g \in DOMAIN st \ {"list"} : u[g] = st[g]
      BY <1>0, <3>1, ShowsQuiet
    <3>5. /\ Keeps(s) /\ DOMAIN s = DOMAIN u /\ ("form" \in DOMAIN u => s["form"] = f)
          /\ \A g \in DOMAIN u : g # "form" => s[g] = u[g]
      BY <3>4, <3>s, KeepsBut
    <3>6. /\ s.form = f /\ s.q = st.q /\ s.list = [q |-> net[i].q, rows |-> net[i].rows]
          /\ s.tab = st.tab /\ s.keys = st.keys /\ s.stale = st.stale /\ IsFcn(s)
          /\ SettingsFields \cup Fields \subseteq DOMAIN s
      BY <1>0, <3>4, <3>5 DEF SettingsFields, Fields, Keeps
    <3>7. Edits(s)
      BY <3>3, <3>6 DEF Edits
    <3>8. Inv'
      BY <2>4, <3>1, <3>5, <3>6, ShownRule
    <3>9. After(s) /\ Leaves(i, {}) /\ db' = db /\ (s.stale => st'.stale)
      BY <1>0, <3>1, <3>5, <3>6, Afterwards, LeftNone, EndedAfter
    <3>10. Edits(st') /\ Posts' /\ Calls' = {}
      BY <2>2, <3>7, <3>9
    <3>11. ASSUME ~st'.stale PROVE Stored'
      <4>r. PICK r \in Records("settings") : r = net[i].rows
        BY <3>2
      <4>1. net[i].q = st.q /\ (\A k \in Item : db[k] = "old") /\ \A k \in Item : r[k] = "old"
        BY <2>1, <3>2, <3>6, <3>9, <3>11, <4>r DEF Stored
      <4>2. /\ st'.q = st.q /\ st'.list = [q |-> st'.q, rows |-> r]
            /\ st'.keys = st.keys /\ st'.form = f
        BY <3>6, <3>7, <3>9, <4>1, <4>r, EditsAfter
      <4>3. \A k \in Item : Backed(k, r[k])'
        <5>1. \A k \in Item : db'[k] = r[k]
          BY <3>9, <4>1
        <5>2. QED
          BY <3>10, <5>1 DEF Backed
      <4>4. Shows(st', r)
        <5>1. \A k \in Item : f[k] \in {"old", MASKED} /\ f[k] # None
          BY <3>1, <4>1, <4>r, MaskedIsNone DEF Settings!maskValue, MASKED
        <5>2. QED
          BY <4>1, <4>2, <5>1 DEF Shows, Edits
      <4>5. \A k \in Calls' : net'[k].op # "list"
        BY <3>10
      <4>6. QED
        BY <3>2, <4>2, <4>3, <4>4, <4>5, StoredWith
    <3>12. QED
      BY <3>8, <3>10, <3>11, StoredStale
  <2>5. QED
    BY <1>6, <2>3, <2>4, SettingsSame DEF Settings!fetchSettings
<1>7. ASSUME NEW i \in Calls, Settings!Tried(i) PROVE Goal
  <2>1. Answer(i, st, <<>>) /\ net[i].op \notin {"list", "saveTab"} /\ net[i].status # "sent"
    BY <1>7, SettingsSame DEF Settings!Tried, Settings!Answered, Ok, Failed
  <2>2. QED
    BY <1>0, <1>f, <1>g, <2>1
<1>8. ASSUME NEW i \in Calls, Settings!Saved(i) PROVE Goal
  <2>1. CASE (Failed(i, "saveTab") \/ Failed(i, "connect")) /\ Answer(i, st, <<>>)
    <3>1. Answer(i, st, <<>>) /\ net[i].op # "list" /\ net[i].status = "failed"
      BY <2>1 DEF Failed
    <3>2. QED
      BY <1>0, <1>f, <1>g, <3>1
  <2>2. CASE Ok(i, "connect") /\ Answer(i, st, <<>>)
    <3>1. Answer(i, st, <<>>) /\ net[i].op \notin {"list", "saveTab"} /\ net[i].status # "sent"
      BY <2>2 DEF Ok
    <3>2. QED
      BY <1>0, <1>f, <1>g, <3>1
  <2>n. net[i].op # "list" /\ NoList
    BY <1>8, <1>c, SettingsSame DEF Settings!Saved, Ok, Failed
  <2>3. CASE Ok(i, "connect") /\ Answer(i, [st EXCEPT !.dirty = @ \ {"mikrotik"}], <<>>)
    <3> DEFINE d == st.dirty \ {"mikrotik"}
               s == [st EXCEPT !["dirty"] = d]
    <3>1. Answer(i, s, <<>>) /\ net[i].op = "connect" /\ net[i].status = "ok"
      BY <2>3 DEF Ok
    <3>2. s = [st EXCEPT !["dirty"] = d]
      OBVIOUS
    <3> HIDE DEF s, d
    <3>3. /\ Quiet(s) /\ DOMAIN s = DOMAIN st /\ \A g \in DOMAIN st : g # "dirty" => s[g] = st[g]
      <4>1. "dirty" \notin (Fields \ {"dlg"}) \cup {"typed"}
        BY DEF Fields
      <4>2. QED
        BY <3>2, <4>1, SetsField
    <3>4. /\ Keeps(s) /\ IsFcn(s) /\ s.q = st.q /\ s.list = st.list /\ s.stale = st.stale
          /\ s.keys = st.keys /\ s.form = st.form /\ s.retouched = st.retouched /\ s.tab = st.tab
      BY <1>0, <3>3 DEF Quiet, Keeps, Fields, SettingsFields
    <3>5. Edits(s)
      BY <3>3, <3>4 DEF Edits
    <3>6. Inv'
      <4>1. s.list.rows = None \/ s.list.rows \in Records(page)
        BY <1>0, <3>4 DEF Shape
      <4>2. Ends(i, s)
        BY <1>p, <3>4, <4>1 DEF Ends
      <4>3. QED
        BY <3>1, <4>2, EndsRule
    <3>7. After(s) /\ Leaves(i, {}) /\ (s.stale => st'.stale)
      BY <1>0, <3>1, <3>4, Afterwards, LeftNone, EndedAfter
    <3>8. Comes(other)
      BY <3>7 DEF Leaves, Comes
    <3>9. st.stale /\ st'.stale
      BY <3>1, <3>4, <3>7 DEF Posts
    <3>10. Posts'
      BY <1>a, <2>n, <3>4, <3>5, <3>7, <3>8, <3>9, PostsKept
    <3>11. Edits(st')
      BY <3>5, <3>7, EditsAfter
    <3>12. QED
      BY <3>6, <3>9, <3>10, <3>11, StoredStale
  <2> DEFINE old == st.list.rows
             new == IF old = None THEN None
                    ELSE [k \in Item |-> IF net[i].rows[k] = None THEN old[k] ELSE net[i].rows[k]]
             d == st.dirty \ {net[i].item}
             s == [st EXCEPT !.dirty = @ \ {net[i].item},
                             !.list.rows = IF @ = None THEN None
                                           ELSE [k \in Item |-> IF net[i].rows[k] = None
                                                                THEN @[k] ELSE net[i].rows[k]]]
  <2>4. CASE Ok(i, "saveTab") /\ Answer(i, s, <<>>)
    <3>1. Answer(i, s, <<>>) /\ net[i].op = "saveTab" /\ net[i].status = "ok"
      BY <2>4 DEF Ok
    <3>2. /\ IsFcn(s) /\ DOMAIN s = DOMAIN st /\ s.dirty = d /\ s.list = [st.list EXCEPT !.rows = new]
          /\ \A g \in DOMAIN st : g \notin {"dirty", "list"} => s[g] = st[g]
      BY <1>0 DEF IsFcn, SettingsFields, Fields
    <3>3. net[i].op \in Payloads
      BY <3>1 DEF Payloads
    <3>4. ASSUME NEW r \in Records("settings"), old = r
          PROVE  /\ new = [k \in Item |-> IF net[i].rows[k] = None THEN r[k] ELSE net[i].rows[k]]
                 /\ new \in Records("settings")
      <4>1. r # None
        BY <3>4, RowsAreSome
      <4>2. new = [k \in Item |-> IF net[i].rows[k] = None THEN r[k] ELSE net[i].rows[k]]
        BY <3>4, <4>1
      <4>3. QED
        BY <3>3, <4>2, Merged
    <3>5. new = None \/ new \in Records("settings")
      <4>1. CASE old = None
        BY <4>1
      <4>2. CASE old \in Records("settings")
        BY <3>4, <4>2
      <4>3. QED
        BY <1>0, <1>p, <4>1, <4>2 DEF Shape
    <3>6. s.list.rows = new \/ s.list.rows = st.list.rows
      <4>1. s.list = [st.list EXCEPT !.rows = new]
        BY <3>2
      <4>2. ASSUME NEW x, NEW list, list = [st.list EXCEPT !.rows = x]
            PROVE  list.rows = x \/ list.rows = st.list.rows
        BY <4>2, RowsEither
      <4>3. QED
        BY <4>1, <4>2
    <3>7. s.list.rows = None \/ s.list.rows \in Records(page)
      BY <1>0, <1>p, <3>5, <3>6 DEF Shape
    <3>o. old = st.list.rows
      OBVIOUS
    <3>d. d = st.dirty \ {net[i].item}
      OBVIOUS
    <3> HIDE DEF s, new, old, d
    <3>8. /\ s.q = st.q /\ s.stale = st.stale /\ s.busy = st.busy /\ s.acts = st.acts
          /\ s.keys = st.keys /\ s.form = st.form /\ s.retouched = st.retouched /\ s.tab = st.tab
      BY <1>0, <3>2 DEF Fields, SettingsFields
    <3>9. Keeps(s) /\ Edits(s)
      BY <1>0, <1>p, <3>2, <3>8 DEF Keeps, Edits, Shape
    <3>10. Inv'
      <4>1. Ends(i, s)
        BY <1>p, <3>7, <3>8, <3>9 DEF Ends
      <4>2. QED
        BY <3>1, <4>1, EndsRule
    <3>11. After(s) /\ Leaves(i, {}) /\ (s.stale => st'.stale) /\ db' = db
      BY <1>0, <3>1, <3>2, <3>9, Afterwards, LeftNone, EndedAfter
    <3>12. Comes(other)
      BY <3>11 DEF Leaves, Comes
    <3>13. st.stale => st'.stale
      BY <3>8, <3>11
    <3>14. Posts'
      BY <1>a, <2>n, <3>8, <3>9, <3>11, <3>12, <3>13, PostsKept
    <3>15. /\ Edits(st') /\ st'.q = st.q /\ st'.list = s.list /\ st'.dirty = d
           /\ st'.keys = st.keys /\ st'.form = st.form /\ st'.retouched = st.retouched
      BY <3>2, <3>8, <3>9, <3>11, EditsAfter
    <3>16. \A j \in Calls : net[j].op = "saveTab" => j = i
      <4>1. ASSUME NEW j \in Calls, net[j].op = "saveTab" PROVE j = i
        <5>1. "saving" \in net[j].flags /\ "saving" \in net[i].flags /\ "saving" \notin Common
          BY <3>1, <4>1 DEF Posts, Common
        <5>2. QED
          BY <5>1, OneHolder
      <4>2. QED
        BY <4>1
    <3>17. ASSUME NEW k \in Calls' PROVE net'[k].op \notin {"list", "saveTab"}
      <4>1. PICK j \in Calls \ {i} : net'[k] = net[j]
        BY <3>11 DEF Leaves
      <4>2. QED
        BY <2>n, <3>16, <4>1 DEF NoList
    <3>18. ASSUME ~st'.stale PROVE Stored'
      <4>1. PICK r \in Records("settings") :
              st.list = [q |-> st.q, rows |-> r] /\ (\A k \in Item : Backed(k, r[k])) /\ Shows(st, r)
        BY <2>n, <3>13, <3>18 DEF Stored, NoList
      <4>2. /\ new = [k \in Item |-> IF net[i].rows[k] = None THEN r[k] ELSE net[i].rows[k]]
            /\ new \in Records("settings")
        BY <3>4, <3>o, <4>1
      <4>n. PICK x \in Records("settings") : x = new
        BY <4>2
      <4>3. st'.list = [q |-> st'.q, rows |-> x]
        BY <3>2, <3>15, <4>1, <4>n
      <4>4. ASSUME NEW k \in Item PROVE db'[k] = x[k]
        <5>1. x[k] = IF net[i].rows[k] = None THEN r[k] ELSE net[i].rows[k]
          BY <4>2, <4>n
        <5>2. Backed(k, r[k])
          BY <4>1
        <5>3. \A j \in Calls : ~Saving(j, "failed")
          BY <3>1, <3>16 DEF Saving
        <5>4. \/ db[k] = r[k] /\ net[i].rows[k] \in {None, r[k]}
              \/ net[i].rows[k] # None /\ net[i].rows[k] = db[k]
          BY <3>1, <3>16, <5>2, <5>3 DEF Backed, Saving
        <5>5. QED
          BY <3>11, <5>1, <5>4
      <4>5. \A k \in Item : Backed(k, x[k])'
        BY <3>17, <4>4 DEF Backed, Saving
      <4>6. Shows(st', x)
        <5>1. ASSUME ~st.retouched, NEW k \in st.keys["sms"]
              PROVE  /\ st.form[k] # None
                     /\ st.form[k] = MASKED => x[k] = "old"
                     /\ "sms" \notin d => st.form[k] \in {MASKED, x[k]}
          <6>1. /\ st.form[k] # None /\ (st.form[k] = MASKED => r[k] = "old")
                /\ "sms" \notin st.dirty => st.form[k] \in {MASKED, r[k]}
            BY <4>1, <5>1 DEF Shows
          <6>2. k \in Item
            BY <5>1 DEF Edits
          <6>3. x[k] = IF net[i].rows[k] = None THEN r[k] ELSE net[i].rows[k]
            BY <4>2, <4>n, <6>2
          <6>4. net[i].rows[k] = IF net[i].item = "sms" /\ st.form[k] # MASKED THEN st.form[k] ELSE None
            BY <3>1, <5>1 DEF Posts, Payload
          <6>5. "sms" \notin d => "sms" \notin st.dirty \/ net[i].item = "sms"
            BY <3>d
          <6>6. QED
            BY <6>1, <6>3, <6>4, <6>5
        <5>2. QED
          BY <3>15, <5>1 DEF Shows
      <4>7. \A k \in Calls' : net'[k].op # "list"
        BY <3>17
      <4>8. QED
        BY <4>3, <4>5, <4>6, <4>7, StoredWith
    <3>19. QED
      BY <3>10, <3>14, <3>15, <3>18, StoredStale
  <2>5. QED
    BY <1>8, <2>1, <2>2, <2>3, <2>4, SettingsSame DEF Settings!Saved
<1>9. CASE Settings!OtherUser({"old"})
  <2>1. OtherUser({"old"}) /\ {"old"} \subseteq ValuesOf(page)
    BY <1>9, <1>p, SettingsSame
  <2>2. Inv' /\ st'.stale = TRUE /\ net' = net /\ After(st)
    BY <2>1, OtherStep
  <2>3. st'.busy = st.busy
    <3>1. st' = [st EXCEPT !.acts = @ + 1, !.stale = TRUE]
      BY <2>1 DEF OtherUser
    <3>2. QED
      BY <1>0, <3>1 DEF Fields
  <2>4. /\ Edits(st') /\ st'.keys = st.keys /\ st'.retouched = st.retouched /\ st'.form = st.form
    BY <2>2, EditsAfter
  <2>5. \A x : Payload(x, st) <=> Payload(x, st')
    BY <2>4 DEF Payload
  <2>6. /\ \A j \in Calls : net[j].op = "list" => Calls = {j} /\ "loading" \in st'.busy
        /\ \A j \in Calls : net[j].to = None
        /\ \A j \in Calls : net[j].op = "connect" => st'.stale
        /\ \A j \in Calls : net[j].op = "saveTab" => "saving" \in net[j].flags /\ Payload(net[j], st')
    BY <2>2, <2>3, <2>5 DEF Posts
  <2>7. Posts'
    BY <2>2, <2>6 DEF Posts, Payload, Calls
  <2>8. QED
    BY <2>2, <2>4, <2>7, StoredStale
<1>10. CASE Settings!testSms \/ Settings!testMikrotik \/ Settings!sendReminders
  BY <1>5, <1>10 DEF Settings!testSms, Settings!testMikrotik, Settings!sendReminders
<1>11. QED
  BY <1>1, <1>2, <1>3, <1>4, <1>6, <1>7, <1>8, <1>9, <1>10 DEF Settings!Next, Settings!Calls, Calls

-----------------------------------------------------------------------------
(* The component that is mounted stays. *)

(* The payments' page does not turn into another component. *)
LEMMA PaymentsStays == ASSUME Payments!Next PROVE page' = page
  BY DEF Payments!Next, Payments!TypeSearch, Payments!Type, Payments!Do,
         Payments!Send, Payments!Debounce, Payments!Settle,
         Payments!CancelDialog, Payments!Close, Payments!handleConfirmAction,
         Payments!handleFilterChange, Payments!Filter, Payments!Paginate,
         Payments!Turn, Payments!openConfirm, Payments!Dialog,
         Payments!Decided, Payments!Answer, Payments!Fetched,
         Payments!OtherUser

(* The subscriptions' page does not turn into another component. *)
LEMMA SubscriptionsStays == ASSUME Subscriptions!Next PROVE page' = page
  BY DEF Subscriptions!Next, Subscriptions!TypeSearch, Subscriptions!Type,
         Subscriptions!Do, Subscriptions!Send, Subscriptions!Debounce,
         Subscriptions!Settle, Subscriptions!CloseDialog, Subscriptions!Close,
         Subscriptions!openAdd, Subscriptions!Dialog,
         Subscriptions!handleSubmit, Subscriptions!handleDisconnectConfirmed,
         Subscriptions!handleFilterChange, Subscriptions!Filter,
         Subscriptions!Paginate, Subscriptions!Turn, Subscriptions!openEdit,
         Subscriptions!confirmDisconnect, Subscriptions!handleReconnect,
         Subscriptions!Saved, Subscriptions!Answer, Subscriptions!Reconnected,
         Subscriptions!fetchData, Subscriptions!OtherUser

(* The customers' page does not turn into another component. *)
LEMMA CustomersStays == ASSUME Customers!Next PROVE page' = page
  BY DEF Customers!Next, Customers!TypeSearch, Customers!Type, Customers!Do,
         Customers!Send, Customers!Debounce, Customers!Settle,
         Customers!CloseDialog, Customers!Close, Customers!openAdd,
         Customers!Form, Customers!handleGetLocation, Customers!handleSubmit,
         Customers!handleDelete, Customers!setStatusFilter, Customers!Filter,
         Customers!Paginate, Customers!Turn, Customers!openEdit,
         Customers!setDeleteTarget, Customers!Dialog, Customers!Located,
         Customers!Answer, Customers!Written, Customers!fetchUsers,
         Customers!Fetched, Customers!OtherUser

(* The plans' page does not turn into another component. *)
LEMMA PlansStays == ASSUME Plans!Next PROVE page' = page
  BY DEF Plans!Next, Plans!openAdd, Plans!Dialog, Plans!Do, Plans!Send,
         Plans!CloseDialog, Plans!handleDelete, Plans!handleSubmit,
         Plans!openEdit, Plans!handleDeleteClick, Plans!DeleteChecked,
         Plans!Answer, Plans!Deleted, Plans!Saved, Plans!fetchPlans,
         Plans!Fetched, Plans!OtherUser

(* The staff's page does not turn into another component. *)
LEMMA StaffStays == ASSUME Staff!Next PROVE page' = page
  BY DEF Staff!Next, Staff!TypeSearch, Staff!Type, Staff!Do, Staff!Send,
         Staff!Debounce, Staff!Settle, Staff!CloseDialog, Staff!Close,
         Staff!openAdd, Staff!Dialog, Staff!handleDelete, Staff!setRoleFilter,
         Staff!Filter, Staff!Paginate, Staff!Turn, Staff!openEdit,
         Staff!setDeleteConfirm, Staff!handleSubmit, Staff!Written,
         Staff!Answer, Staff!fetchUsers, Staff!OtherUser

(* The messages' page does not turn into another component. *)
LEMMA MessagesStays == ASSUME Messages!Next PROVE page' = page
  BY DEF Messages!Next, Messages!setTab, Messages!Do, Messages!Send,
         Messages!Paginate, Messages!setSendMode, Messages!setConfirmModal,
         Messages!setMessage, Messages!setSelectedRecipient,
         Messages!handleSendIndividual, Messages!handleConfirm,
         Messages!CloseModal, Messages!Close, Messages!handleSave,
         Messages!setShowWelcomeDropdown, Messages!handleQuickAction,
         Messages!setEditingTemplate, Messages!Dialog, Messages!MessageSent,
         Messages!Answer, Messages!QuickDone, Messages!Saved, Messages!Loaded,
         Messages!Fetched, Messages!OtherUser

(* The router's page does not turn into another component. *)
LEMMA MikroTikStays == ASSUME MikroTik!Next PROVE page' = page
  BY DEF MikroTik!Next, MikroTik!AutoRefresh, MikroTik!Send,
         MikroTik!handleManualRefresh, MikroTik!Do,
         MikroTik!handleSendReminders, MikroTik!setShowModal, MikroTik!Dialog,
         MikroTik!setDeleteTarget, MikroTik!CloseModal, MikroTik!Close,
         MikroTik!handleTestConnection, MikroTik!Submit,
         MikroTik!handleSaveConfig, MikroTik!handleAddSecret,
         MikroTik!handleDeleteSecret, MikroTik!StatusRead, MikroTik!Answer,
         MikroTik!SecretsRead, MikroTik!Submitted, MikroTik!OtherUser

(* The settings' page does not turn into another component. *)
LEMMA SettingsStays == ASSUME Settings!Next PROVE page' = page
  BY DEF Settings!Next, Settings!setActiveTab, Settings!Do, Settings!Send,
         Settings!updateSetting, Settings!saveTab,
         Settings!saveAndConnectMikrotik, Settings!testSms, Settings!Try,
         Settings!testMikrotik, Settings!sendReminders,
         Settings!fetchSettings, Settings!Answer, Settings!Saved,
         Settings!Tried, Settings!OtherUser

(* The dashboard does not turn into another component. *)
LEMMA DashboardStays == ASSUME Dashboard!Next PROVE page' = page
  BY DEF Dashboard!Next, Dashboard!AutoRefresh, Dashboard!Send,
         Dashboard!handleRefresh, Dashboard!Do, Dashboard!Retry,
         Dashboard!sendReminders, Dashboard!RemindersSent, Dashboard!Answer,
         Dashboard!DataFetched, Dashboard!OtherUser

(* The activity log does not turn into another component. *)
LEMMA LogsStays == ASSUME Logs!Next PROVE page' = page
  BY DEF Logs!Next, Logs!handleSearch, Logs!Do, Logs!Send, Logs!Debounced,
         Logs!Clear, Logs!setPage, Logs!Turn, Logs!fetchLogs, Logs!Fetched,
         Logs!Answer, Logs!OtherUser

(* The frame does not turn into another component. *)
LEMMA LayoutStays == ASSUME Layout!Next PROVE page' = page
  BY DEF Layout!Next, Layout!Poll, Layout!Send, Layout!markAllRead,
         Layout!MarkRead, Layout!Do, Layout!handleItemClick,
         Layout!fetchPending, Layout!Polled, Layout!Answer,
         Layout!PendingFetched, Layout!OtherUser

(* The customer's form does not turn into another component. *)
LEMMA SubmitPaymentStays == ASSUME SubmitPayment!Next PROVE page' = page
  BY DEF SubmitPayment!Next, SubmitPayment!handleSubscriptionChange,
         SubmitPayment!Do, SubmitPayment!Send, SubmitPayment!setAmount,
         SubmitPayment!handleSubmit, SubmitPayment!fetchMine,
         SubmitPayment!Answer, SubmitPayment!Submitted

(* A screen does not turn into another component. *)
LEMMA MobileStays == ASSUME Mobile!Next PROVE page' = page
  BY DEF Mobile!Next, Mobile!onRefresh, Mobile!Do, Mobile!Send,
         Mobile!handleDisconnect, Mobile!Ask, Mobile!Dialog,
         Mobile!handleReconnect, Mobile!doDisconnect, Mobile!Confirm,
         Mobile!doReconnect, Mobile!dismissClient, Mobile!Cancel,
         Mobile!Close, Mobile!handleApprove, Mobile!handleReject,
         Mobile!setNotes, Mobile!doApprove, Mobile!doReject,
         Mobile!dismissPayment, Mobile!setMethod, Mobile!handleSubmit,
         Mobile!dismissSubmit, Mobile!open, Mobile!save, Mobile!closeModal,
         Mobile!handleUpdateLocation, Mobile!Reported, Mobile!Report,
         Mobile!Answer, Mobile!ProfileSaved, Mobile!refreshUser,
         Mobile!useApi, Mobile!Fetched, Mobile!OtherUser

-----------------------------------------------------------------------------
(* All components *)

(* What each component's own state says of its calls and of the back end.   *)
OfItsOwn ==
    /\ page = "payments" => DecisionAsked
    /\ page \in {"subscriptions", "mikrotik"} => OwnDialogs
    /\ page = "plans" => Targets /\ Array /\ Counts
    /\ page = "messages" => Modals
    /\ page = "settings" => Edits(st) /\ Posts /\ Stored
    /\ page = "logs" => Boxed(st)
    /\ page = "layout" => Bells
    /\ page = "submit" => Paid /\ Single
    /\ page \in Mobile!Screens => Calm

ClientsInv == Inv /\ OfItsOwn

(* Every component keeps the invariant when it appears. *)
LEMMA ClientsInit == ASSUME Init PROVE ClientsInv
<1> USE DEF Mobile!Screens
<1>1. CASE Payments!Init
  BY <1>1, PaymentsInit DEF ClientsInv, OfItsOwn
<1>2. CASE Subscriptions!Init
  BY <1>2, SubscriptionsInit DEF ClientsInv, OfItsOwn
<1>3. CASE Customers!Init
  <2>1. page = "customers"
    BY <1>3 DEF Customers!Init, Customers!Mount
  <2>2. QED
    BY <1>3, <2>1, CustomersInit DEF ClientsInv, OfItsOwn
<1>4. CASE Plans!Init
  BY <1>4, PlansInit DEF ClientsInv, OfItsOwn
<1>5. CASE Staff!Init
  <2>1. page = "staff"
    BY <1>5 DEF Staff!Init, Staff!Mount
  <2>2. QED
    BY <1>5, <2>1, StaffInit DEF ClientsInv, OfItsOwn
<1>6. CASE Messages!Init
  BY <1>6, MessagesInit DEF ClientsInv, OfItsOwn
<1>7. CASE MikroTik!Init
  BY <1>7, MikroTikInit DEF ClientsInv, OfItsOwn
<1>8. CASE Settings!Init
  BY <1>8, SettingsInit DEF ClientsInv, OfItsOwn
<1>9. CASE Dashboard!Init
  BY <1>9, DashboardInit DEF ClientsInv, OfItsOwn
<1>10. CASE Logs!Init
  BY <1>10, LogsInit DEF ClientsInv, OfItsOwn
<1>11. CASE Layout!Init
  BY <1>11, LayoutInit DEF ClientsInv, OfItsOwn
<1>12. CASE SubmitPayment!Init
  BY <1>12, SubmitPaymentInit, SingleInit DEF ClientsInv, OfItsOwn
<1>13. CASE Mobile!Init
  BY <1>13, MobileInit DEF ClientsInv, OfItsOwn
<1>14. QED
  BY <1>1, <1>2, <1>3, <1>4, <1>5, <1>6, <1>7, <1>8, <1>9, <1>10, <1>11, <1>12, <1>13 DEF Init

(* The back end changes nothing that the components' own invariants speak   *)
(* of but in the three that look at what it stores.                         *)
LEMMA ClientsServe == ASSUME ClientsInv, NEW i \in Calls, Serve(i) PROVE ClientsInv'
<1>1. Inv /\ Inv'
  BY ServeRule DEF ClientsInv
<1>2. /\ page' = page /\ st' = st /\ Calls' = Calls
      /\ \A j \in Calls : /\ net'[j].op = net[j].op /\ net'[j].flags = net[j].flags
                          /\ net'[j].q = net[j].q /\ net'[j].item = net[j].item
  <2>1. /\ page' = page /\ st' = st /\ Calls' = Calls
        /\ \A j \in Calls : j # i => net'[j] = net[j]
        /\ net'[i].op = net[i].op /\ net'[i].flags = net[i].flags /\ net'[i].q = net[i].q
        /\ net'[i].item = net[i].item
    BY <1>1, Served DEF Inv
  <2>2. QED
    BY <2>1
<1>3. page = "payments" => DecisionAsked'
  BY <1>2 DEF ClientsInv, OfItsOwn, DecisionAsked
<1>4. page \in {"subscriptions", "mikrotik"} => OwnDialogs'
  BY <1>2 DEF ClientsInv, OfItsOwn, OwnDialogs, Confirms, DialogOf
<1>5. page = "plans" => Targets' /\ Array' /\ Counts'
  BY <1>1, PlansServe DEF ClientsInv, OfItsOwn
<1>6. page = "messages" => Modals'
  BY <1>2 DEF ClientsInv, OfItsOwn, Modals, ModalIs
<1>7. page = "settings" => (Edits(st) /\ Posts /\ Stored)'
  BY <1>1, SettingsServe DEF ClientsInv, OfItsOwn
<1>8. page = "logs" => Boxed(st)'
  BY <1>2 DEF ClientsInv, OfItsOwn, Boxed
<1>9. page = "layout" => Bells'
  BY <1>2 DEF ClientsInv, OfItsOwn, Bells, Polls, Remembers
<1>10. page = "submit" => Paid' /\ Single'
  BY <1>1, PaidServe, SingleServe DEF ClientsInv, OfItsOwn
<1>11. page \in Mobile!Screens => Calm'
  BY <1>2 DEF ClientsInv, OfItsOwn, Calm
<1>12. QED
  BY <1>1, <1>2, <1>3, <1>4, <1>5, <1>6, <1>7, <1>8, <1>9, <1>10, <1>11 DEF ClientsInv, OfItsOwn

(* Every component's steps keep the invariant of that component. *)
LEMMA ClientsStep == ASSUME ClientsInv, Next PROVE ClientsInv'
<1>a. Inv /\ OfItsOwn
  BY DEF ClientsInv
<1>b. ASSUME page' = page, Inv',
             page = "payments" => DecisionAsked',
             page \in {"subscriptions", "mikrotik"} => OwnDialogs',
             page = "plans" => Targets' /\ Array' /\ Counts',
             page = "messages" => Modals',
             page = "settings" => (Edits(st) /\ Posts /\ Stored)',
             page = "logs" => Boxed(st)',
             page = "layout" => Bells',
             page = "submit" => Paid' /\ Single',
             page \in Mobile!Screens => Calm'
      PROVE  ClientsInv'
  BY <1>b DEF ClientsInv, OfItsOwn
<1>s. \A p \in Mobile!Screens : p \in {"list", "client", "payment", "newPayment", "profile"}
  BY DEF Mobile!Screens
<1>1. CASE \E i \in Calls : Serve(i)
  BY <1>1, ClientsServe
<1>2. CASE page = "payments" /\ Payments!Next
  BY <1>2, <1>a, <1>b, <1>s, PaymentsStep, PaymentsStays DEF OfItsOwn
<1>3. CASE page = "subscriptions" /\ Subscriptions!Next
  BY <1>3, <1>a, <1>b, <1>s, SubscriptionsStep, SubscriptionsStays DEF OfItsOwn
<1>4. CASE page = "customers" /\ Customers!Next
  BY <1>4, <1>a, <1>b, <1>s, CustomersStep, CustomersStays
<1>5. CASE page = "plans" /\ Plans!Next
  BY <1>5, <1>a, <1>b, <1>s, PlansStep, PlansStays DEF OfItsOwn
<1>6. CASE page = "staff" /\ Staff!Next
  BY <1>6, <1>a, <1>b, <1>s, StaffStep, StaffStays
<1>7. CASE page = "messages" /\ Messages!Next
  BY <1>7, <1>a, <1>b, <1>s, MessagesStep, MessagesStays DEF OfItsOwn
<1>8. CASE page = "mikrotik" /\ MikroTik!Next
  BY <1>8, <1>a, <1>b, <1>s, MikroTikStep, MikroTikStays DEF OfItsOwn
<1>9. CASE page = "settings" /\ Settings!Next
  BY <1>9, <1>a, <1>b, <1>s, SettingsStep, SettingsStays DEF OfItsOwn
<1>10. CASE page = "dashboard" /\ Dashboard!Next
  BY <1>10, <1>a, <1>b, <1>s, DashboardStep, DashboardStays
<1>11. CASE page = "logs" /\ Logs!Next
  BY <1>11, <1>a, <1>b, <1>s, LogsStep, LogsStays DEF OfItsOwn
<1>12. CASE page = "layout" /\ Layout!Next
  BY <1>12, <1>a, <1>b, <1>s, LayoutStep, LayoutStays DEF OfItsOwn
<1>13. CASE page = "submit" /\ SubmitPayment!Next
  BY <1>13, <1>a, <1>b, <1>s, SubmitPaymentStep, SingleStep, SubmitPaymentStays DEF OfItsOwn
<1>14. CASE page \in Mobile!Screens /\ Mobile!Next
  BY <1>14, <1>a, <1>b, <1>s, MobileStep, MobileStays DEF OfItsOwn
<1>15. QED
  BY <1>1, <1>2, <1>3, <1>4, <1>5, <1>6, <1>7, <1>8, <1>9, <1>10, <1>11, <1>12, <1>13, <1>14 DEF Next

(* A step that changes nothing keeps it. *)
LEMMA ClientsStutter == ASSUME ClientsInv, UNCHANGED vars PROVE ClientsInv'
<1>1. page' = page /\ st' = st /\ net' = net /\ db' = db /\ Calls' = Calls
  BY DEF vars, Calls
<1>2. Inv'
  <2>1. Inv /\ Quiet(st)
    BY StIsQuiet DEF ClientsInv
  <2>2. Shape' /\ Flagged' /\ UpToDate'
    BY <1>1, <2>1, SameCalls DEF Inv, Shape
  <2>3. Search'
    BY <1>1, <2>1 DEF Inv, Search
  <2>4. QED
    BY <2>2, <2>3 DEF Inv
<1>3. page = "payments" => DecisionAsked'
  BY <1>1 DEF ClientsInv, OfItsOwn, DecisionAsked
<1>4. page \in {"subscriptions", "mikrotik"} => OwnDialogs'
  BY <1>1 DEF ClientsInv, OfItsOwn, OwnDialogs, Confirms, DialogOf
<1>5. ASSUME page = "plans" PROVE Targets' /\ Array' /\ Counts'
  <2>1. Targets /\ Array /\ Counts
    BY <1>5 DEF ClientsInv, OfItsOwn
  <2>2. Targets'
    BY <1>1, <2>1 DEF Targets, Records, ValuesOf, Plans!Values
  <2>3. Array'
    <3>1. PICK c : c.op # "list" /\ c.status = "sent"
      <4>1. \A c : c = Write("save", {}, None, None, None) => c.op = "save" /\ c.status = "sent"
        BY WriteFields
      <4>2. QED
        BY <4>1
    <3>2. IsFcn(st) /\ Has(st)
      BY <2>1 DEF ClientsInv, Inv, Shape, IsState, Targets, Has
    <3>3. After(st) /\ Comes(c) /\ DoesStay(Calls)
      BY <1>1, <3>2 DEF After, Comes, DoesStay
    <3>4. QED
      BY <1>1, <2>1, <3>1, <3>2, <3>3, ArrayKept
  <2>4. Counts'
    BY <1>1, <2>1 DEF Counts
  <2>5. QED
    BY <2>2, <2>3, <2>4
<1>6. page = "messages" => Modals'
  BY <1>1 DEF ClientsInv, OfItsOwn, Modals
<1>7. ASSUME page = "settings" PROVE (Edits(st) /\ Posts /\ Stored)'
  <2>1. Edits(st) /\ Posts /\ Stored
    BY <1>7 DEF ClientsInv, OfItsOwn
  <2>2. Edits(st')
    BY <1>1, <2>1
  <2>3. Posts'
    <3>1. \A x : Payload(x, st) <=> Payload(x, st')
      BY <1>1
    <3>2. QED
      BY <1>1, <2>1 DEF Posts
  <2>4. ASSUME ~st.stale PROVE Stored'
    <3>1. CASE \E i \in Calls : net[i].op = "list"
      BY <1>1, <2>1, <2>4, <3>1 DEF Stored
    <3>2. CASE \A i \in Calls : net[i].op # "list"
      <4>1. PICK r \in Records("settings") :
              st.list = [q |-> st.q, rows |-> r] /\ (\A k \in Item : Backed(k, r[k])) /\ Shows(st, r)
        BY <2>1, <2>4, <3>2 DEF Stored
      <4>2. \A k \in Item : Backed(k, r[k])'
        BY <1>1, <4>1 DEF Backed, Saving
      <4>3. QED
        BY <1>1, <3>2, <4>1, <4>2, StoredWith
    <3>3. QED
      BY <3>1, <3>2
  <2>5. QED
    BY <1>1, <2>2, <2>3, <2>4, StoredStale
<1>8. page = "logs" => Boxed(st)'
  BY <1>1 DEF ClientsInv, OfItsOwn
<1>9. page = "layout" => Bells'
  BY <1>1 DEF ClientsInv, OfItsOwn, Bells
<1>10. ASSUME page = "submit" PROVE Paid' /\ Single'
  <2>1. Paid /\ Single
    BY <1>10 DEF ClientsInv, OfItsOwn
  <2>2. Paid'
    BY <1>1, <2>1 DEF Paid
  <2>3. QED
    BY <1>1, <2>1, <2>2, SingleKept
<1>11. page \in Mobile!Screens => Calm'
  BY <1>1 DEF ClientsInv, OfItsOwn, Calm
<1>12. QED
  BY <1>1, <1>2, <1>3, <1>4, <1>5, <1>6, <1>7, <1>8, <1>9, <1>10, <1>11 DEF ClientsInv, OfItsOwn

(* Every component keeps the invariant, at every step of its own and of the *)
(* back end. *)
THEOREM AlwaysClients == Spec => []ClientsInv
<1>1. Init => ClientsInv
  BY ClientsInit
<1>2. ClientsInv /\ [Next]_vars => ClientsInv'
  BY ClientsStep, ClientsStutter
<1>3. QED
  BY <1>1, <1>2, PTL DEF Spec

-----------------------------------------------------------------------------
(* What the invariant says of a component of which no call is under way.    *)

(* The list that is shown is the one that is stored. *)
LEMMA NoCalls ==
    ASSUME ClientsInv, net = <<>>, ~st.stale
    PROVE  st.list = [q |-> st.q, rows |-> db]
<1>1. Calls = {}
  BY DEF Calls
<1>2. CASE page \notin OwnRows
  BY <1>1, <1>2 DEF ClientsInv, Inv, UpToDate
<1>3. ASSUME page \in {"plans", "settings"}, NEW r \in Records(page), st.list = [q |-> st.q, rows |-> r],
             \A k \in Item : db[k] = r[k]
      PROVE  st.list = [q |-> st.q, rows |-> db]
  <2>1. db = r
    BY <1>3 DEF ClientsInv, Inv, Shape, Records
  <2>2. QED
    BY <1>3, <2>1
<1>4. CASE page = "plans"
  <2>1. PICK r \in Records("plans") : st.list = [q |-> st.q, rows |-> r] /\ Matches(r)
    BY <1>1, <1>4 DEF ClientsInv, OfItsOwn, Array
  <2>2. \A k \in Item : db[k] = r[k]
    BY <1>1, <2>1 DEF Matches, Deleting
  <2>3. QED
    BY <1>3, <1>4, <2>1, <2>2
<1>5. CASE page = "settings"
  <2>1. PICK r \in Records("settings") :
          st.list = [q |-> st.q, rows |-> r] /\ (\A k \in Item : Backed(k, r[k])) /\ Shows(st, r)
    BY <1>1, <1>5 DEF ClientsInv, OfItsOwn, Stored
  <2>2. \A k \in Item : db[k] = r[k]
    BY <1>1, <2>1 DEF Backed
  <2>3. QED
    BY <1>3, <1>5, <2>1, <2>2
<1>6. QED
  BY <1>2, <1>4, <1>5 DEF OwnRows

(* Clients.tla, all pages and screens: what all components share has its    *)
(* types, the rows on the screen and in the back end those of the component *)
(* that is mounted, and no more calls are in flight than the bound allows.  *)
THEOREM TypesOfClients == Spec => []TypeOK
<1>1. ClientsInv => TypeOK
  <2>1. SUFFICES ASSUME ClientsInv PROVE TypeOK
    OBVIOUS
  <2>2. Components \subseteq DOMAIN MaxActs
    BY ClientsAssumption
  <2>3. QED
    BY <2>1, <2>2 DEF ClientsInv, Inv, Shape, IsCall, Records, TypeOK
<1>2. QED
  BY <1>1, AlwaysClients, PTL

(* Payments.tsx 251-276, Subscriptions.tsx 103-143 and the fetches of the   *)
(* other pages: when no answer and no timer is awaited, the list on the     *)
(* screen is what the back end has for the filter, the search and the page  *)
(* that are chosen, unless another user changed something, a request failed *)
(* or fetches overlapped; and what is searched for is what the box says.    *)
THEOREM ListsAreFresh == Spec => []Fresh
<1>1. ClientsInv => Fresh
  <2>1. SUFFICES ASSUME ClientsInv PROVE Fresh
    OBVIOUS
  <2>2. page = "logs" => Logs!SearchIsTheBox
    BY <2>1 DEF ClientsInv, OfItsOwn, Boxed, Logs!SearchIsTheBox
  <2>3. page \in {"payments", "subscriptions", "customers", "staff"} => st.timer \/ st.q.search = st.typed
    BY <2>1 DEF ClientsInv, Inv, Search, Searching, Searches
  <2>4. QED
    BY <2>1, <2>2, <2>3, NoCalls DEF Fresh
<1>2. QED
  BY <1>1, AlwaysClients, PTL

(* The disabled buttons of dialogs and forms: what they guard is not sent a *)
(* second time, by another handler, or after the dialog was closed and      *)
(* opened again, before it is answered and the list that follows is there.  *)
THEOREM OneWriteAtATime == Spec => []OneWrite
<1>1. ClientsInv => OneWrite
  <2>1. SUFFICES ASSUME ClientsInv, NEW i \in Calls, NEW j \in Calls, i # j,
                        net[i].op \notin Reads, net[j].op \notin Reads
                 PROVE  net[i].flags \cap net[j].flags = {}
    BY DEF OneWrite
  <2>2. Own(net[i]) \cap Own(net[j]) = {}
    BY <2>1 DEF ClientsInv, Inv, Flagged
  <2>3. net[i].flags \cap Common = {}
    BY <2>1 DEF ClientsInv, Inv, Shape, IsCall
  <2>4. QED
    BY <2>2, <2>3 DEF Own
<1>2. QED
  BY <1>1, AlwaysClients, PTL

(* The finally blocks: a spinner turns and a button is disabled only while  *)
(* a request is under way whose answer ends that, failed ones included.     *)
THEOREM NothingIsStuck == Spec => []NoStuck
<1>1. ClientsInv => NoStuck
  BY DEF ClientsInv, Inv, Flagged, NoStuck
<1>2. QED
  BY <1>1, AlwaysClients, PTL

(* Subscriptions.tsx 652-713, MikroTik.tsx 1363-1404, Plans.tsx,            *)
(* Messages.tsx: the dialog in which a write was confirmed is still the one *)
(* that is open when its answer closes a dialog; the number of subscribers  *)
(* a plan's dialog shows is that plan's, and a message's dialog is that of  *)
(* the send under way.                                                      *)
THEOREM DialogsAreTheirOwn == Spec => []OwnDialog
<1>1. ClientsInv => OwnDialog
  <2>1. SUFFICES ASSUME ClientsInv PROVE OwnDialog
    OBVIOUS
  <2>2. ASSUME NEW i \in Calls,
               \/ page = "subscriptions" /\ net[i].op \in {"save", "disconnect"}
               \/ page = "mikrotik" /\ net[i].op = "delete"
        PROVE  st.dlg # None /\ st.dlg.item = net[i].item
    BY <2>1, <2>2 DEF ClientsInv, OfItsOwn, OwnDialogs, Confirms, DialogOf
  <2>3. page = "plans" => Plans!CountIsOfTarget
    <3>1. SUFFICES ASSUME page = "plans", Plans!DialogIs("delete"), Plans!Idle("deleteCheckLoading"),
                          ~st.overlapped
                   PROVE  st.count # None /\ st.count.of = st.dlg.item
      BY DEF Plans!CountIsOfTarget
    <3>2. Deletes(st.dlg) /\ "deleteCheckLoading" \notin st.busy
      BY <3>1 DEF Plans!DialogIs, Plans!Idle, Deletes
    <3>3. Counts
      BY <2>1, <3>1 DEF ClientsInv, OfItsOwn
    <3>4. QED
      BY <3>1, <3>2, <3>3 DEF Counts
  <2>4. page = "messages" => Messages!ModalOfTheSend
    <3>1. ASSUME page = "messages", NEW i \in Calls, net[i].op \in {"group", "template"}, st.dlg # None
          PROVE  st.dlg.kind \in {net[i].op, "edit"}
      BY <2>1, <3>1 DEF ClientsInv, OfItsOwn, Modals, ModalIs
    <3>2. QED
      BY <3>1 DEF Messages!ModalOfTheSend, Messages!Range, Calls
  <2>5. QED
    BY <2>2, <2>3, <2>4 DEF OwnDialog, Range, Calls
<1>2. QED
  BY <1>1, AlwaysClients, PTL

(* Settings.tsx 205-232: a tab that counts as saved shows what is stored, a *)
(* mask where the secret is the one that was there, and a mask is never     *)
(* stored.                                                                  *)
THEOREM SavedSettingsAreStored == Spec => []SavedIsStored
<1>1. ClientsInv => SavedIsStored
  <2>1. SUFFICES ASSUME ClientsInv, page = "settings", net = <<>>, ~st.stale, ~st.retouched,
                        "sms" \notin st.dirty, NEW k \in st.keys["sms"]
                 PROVE  db[k] = IF st.form[k] = Settings!MASKED THEN "old" ELSE st.form[k]
    BY DEF SavedIsStored, Settings!SavedIsStored, Settings!TAB_KEYS
  <2>2. Calls = {}
    BY <2>1 DEF Calls
  <2>3. Edits(st) /\ Stored
    BY <2>1 DEF ClientsInv, OfItsOwn
  <2>4. PICK r \in Records("settings") : (\A x \in Item : Backed(x, r[x])) /\ Shows(st, r)
    BY <2>1, <2>2, <2>3 DEF Stored
  <2>5. k \in Item
    BY <2>1, <2>3 DEF Edits
  <2>6. db[k] = r[k]
    BY <2>2, <2>4, <2>5 DEF Backed
  <2>7. (st.form[k] = MASKED => r[k] = "old") /\ st.form[k] \in {MASKED, r[k]}
    BY <2>1, <2>4 DEF Shows
  <2>8. QED
    BY <2>6, <2>7 DEF MASKED
<1>2. QED
  BY <1>1, AlwaysClients, PTL

(* NotificationCenter.tsx 185-232: what one of the two bells shows as read  *)
(* is read in the storage, so the other agrees at its next poll.            *)
THEOREM ReadNotificationsAreStored == Spec => []ReadIsStored
<1>1. ClientsInv => ReadIsStored
  BY DEF ClientsInv, OfItsOwn, Bells, Remembers, ReadIsStored, Layout!ReadIsStored
<1>2. QED
  BY <1>1, AlwaysClients, PTL

(* The form's copy of Cardinality. *)
LEMMA CardinalityOfMade == \A S : SubmitPayment!Cardinality(S) = Cardinality(S)
BY DEF SubmitPayment!Cardinality, Cardinality

(* SubmitPayment.tsx 63-165: one form makes one payment, and one more per   *)
(* failed answer, of the plan's price unless another amount was typed.      *)
THEOREM OneFormOnePayment == Spec => []OnePaymentPerForm
<1>1. ClientsInv => OnePaymentPerForm
  <2>1. SUFFICES ASSUME ClientsInv, page = "submit"
                 PROVE  SubmitPayment!OnePaymentPerForm /\ SubmitPayment!AmountIsThePrice
    BY DEF OnePaymentPerForm
  <2>2. SubmitPayment!OnePaymentPerForm
    BY <2>1, CardinalityOfMade
    DEF ClientsInv, OfItsOwn, Single, Made, SubmitPayment!OnePaymentPerForm
  <2>3. ASSUME NEW i \in Calls, net[i].op = "submit" PROVE net[i].rows \in {net[i].item, ""}
    BY <2>1, <2>3 DEF ClientsInv, Inv, Shape, IsCall, Carries
  <2>4. QED
    BY <2>2, <2>3 DEF SubmitPayment!AmountIsThePrice, SubmitPayment!Range, Calls
<1>2. QED
  BY <1>1, AlwaysClients, PTL

=============================================================================
