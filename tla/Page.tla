-------------------------------- MODULE Page --------------------------------
(***************************************************************************)
(* What the pages of the web application and the screens of the mobile     *)
(* application have in common: the state of one mounted React component,   *)
(* the calls of the back end it has in flight, and the rows of the back    *)
(* end it shows. Components share nothing else, so one is looked at at a   *)
(* time and all the others are `another user' who changes rows.            *)
(*                                                                         *)
(* A call is sent by a handler, served by the back end at some later       *)
(* moment and answered to the component later still; calls overtake each   *)
(* other. Requests that the code joins with Promise.all are one call. What *)
(* follows an await is the answer's action; an effect that a change of     *)
(* state triggers is part of the action that changes the state.            *)
(***************************************************************************)
EXTENDS Naturals, Sequences, Functions

CONSTANTS
    Item,       \* records of the back end: payments, subscriptions, users, ...
    None,
    Texts,      \* what is typed into search boxes and forms; "" is one of them
    LastPage,   \* the last page of a list
    MaxCalls,   \* calls of one component in flight
    MaxActs     \* MaxActs[p]: what the user does, and others change, while
                \* component p is mounted

ASSUME PageAssumption ==
    /\ None \notin Item
    /\ "" \in Texts /\ None \notin Texts /\ LastPage \in Nat \ {0}
    /\ MaxCalls \in Nat \ {0}
    /\ \A p \in DOMAIN MaxActs : MaxActs[p] \in Nat

VARIABLES
    page,   \* the component that is mounted
    st,     \* its state, one field per useState the model keeps
    net,    \* its calls in flight, in the order in which they were sent
    db      \* the back end: the state of each record

vars == <<page, st, net, db>>

(* Fields every component has: the query of its list, the list with the     *)
(* query it answers, the flags that show a spinner or disable a button, the *)
(* open dialog, whether its timer runs, and two history fields: `stale',    *)
(* the list may differ from the back end for a reason outside the component *)
(* or because calls overlapped, and the acts of users so far.               *)
Blank(q) == [q |-> q, list |-> [q |-> None, rows |-> None], busy |-> {},
             dlg |-> None, timer |-> FALSE, stale |-> FALSE, acts |-> 0]

(* The state s with what else a component keeps, or keeps otherwise.        *)
With(s, own) ==
    [f \in DOMAIN s \cup DOMAIN own |-> IF f \in DOMAIN own THEN own[f] ELSE s[f]]

(* A call: what it does, the flags that are set until its answer, the query *)
(* of the closure that sent it, the record it is about, or what else the    *)
(* closure holds, and for a write the value it gives the record.            *)
Read(op, flags, q) == [op |-> op, flags |-> flags, q |-> q, item |-> None, to |-> None,
                       status |-> "sent", rows |-> None]
Write(op, flags, q, i, v) == [Read(op, flags, q) EXCEPT !.item = i, !.to = v]

Flags(calls) == UNION {c.flags : c \in Range(calls)}

(* A list asked for while nothing else is in flight, with the query of the  *)
(* moment, brings everything up to date; one asked for among other calls    *)
(* may be overtaken, and one asked for by an older closure answers an older *)
(* query.                                                                   *)
Sent(s, before, calls) ==
    LET lists == {c \in Range(calls) : c.op = "list"}
    IN  [s EXCEPT !.stale = IF lists = {} THEN @
                            ELSE before # <<>> \/ \E c \in lists : c.q # s.q,
                  !.busy = @ \cup Flags(calls)]

(* A timer, or an effect, sets the state to s and sends calls; their flags  *)
(* are set.                                                                 *)
Send(s, calls) ==
    /\ Len(net) + Len(calls) <= MaxCalls
    /\ st' = Sent(s, net, calls)
    /\ net' = net \o calls
    /\ UNCHANGED <<page, db>>

(* The handler of something the user does. *)
Do(s, calls) == st.acts < MaxActs[page] /\ Send([s EXCEPT !.acts = @ + 1], calls)

(* What is in flight beside call i. *)
Others(i) == SubSeq(net, 1, i - 1) \o SubSeq(net, i + 1, Len(net))

(* Deviation: the flags are cleared behind the await, not in a finally.     *)
AnswerWithoutFinally(i, s, calls) ==
    LET rest == Others(i)
        then == IF net[i].status = "failed" THEN [s EXCEPT !.stale = TRUE]
                ELSE [s EXCEPT !.busy = @ \ net[i].flags]
    IN  /\ st' = Sent(then, rest, calls)
        /\ net' = rest \o calls
        /\ UNCHANGED <<page, db>>

(* What follows the await of call i clears its flags (in a finally), sets   *)
(* the state to s and sends calls.                                          *)
Answer(i, s, calls) ==
    LET rest == Others(i)
        then == [s EXCEPT !.stale = @ \/ net[i].status = "failed", !.busy = @ \ net[i].flags]
    IN  /\ st' = Sent(then, rest, calls)
        /\ net' = rest \o calls
        /\ UNCHANGED <<page, db>>

Calls == DOMAIN net
Ok(i, op) == net[i].op = op /\ net[i].status = "ok"
Failed(i, op) == net[i].op = op /\ net[i].status = "failed"
Answered(i, op) == Ok(i, op) \/ Failed(i, op)

(* The list of call i replaces the one on the screen. *)
Show(s, i) == [s EXCEPT !.list = [q |-> net[i].q, rows |-> net[i].rows]]

Rows == IF st.list.rows = None THEN {} ELSE Item
Shown(i) == st.list.rows[i]

-----------------------------------------------------------------------------
(* A list with a filter, a search box with a 300 ms debounce, and pages, as *)
(* most pages of the administration have it. A change of one of the three   *)
(* makes the page's effect fetch; a fetch is not aborted by the next. The   *)
(* debounce's timer runs from the mount on, and again at every keystroke.   *)

ListPage(filter) ==
    With(Blank([filter |-> filter, search |-> "", page |-> 1]), [typed |-> "", timer |-> TRUE])

Fetch(q) == <<Read("list", {"loading"}, q)>>

(* Deviation: the page is missing from the effect's dependencies.           *)
EffectWithoutPage(s) ==
    IF [s.q EXCEPT !.page = st.q.page] = st.q THEN <<>> ELSE Fetch(s.q)

Effect(s) == IF s.q = st.q THEN <<>> ELSE Fetch(s.q)

Type(t) == t # st.typed /\ Do([st EXCEPT !.typed = t, !.timer = TRUE], <<>>)

Settle ==
    /\ st.timer
    /\ LET s == [st EXCEPT !.timer = FALSE, !.q.search = st.typed, !.q.page = 1]
       IN  Send(s, Effect(s))

Filter(f) ==
    /\ f # st.q.filter
    /\ LET s == [st EXCEPT !.q.filter = f, !.q.page = 1] IN Do(s, Effect(s))

Turn(p) ==
    /\ p \in {st.q.page - 1, st.q.page + 1} /\ p \in 1..LastPage
    /\ LET s == [st EXCEPT !.q.page = p] IN Do(s, Effect(s))

(* The answer of a fetch: its rows replace the list; an error keeps it. *)
Fetched(i) ==
    \/ Ok(i, "list") /\ Answer(i, Show(st, i), <<>>)
    \/ Failed(i, "list") /\ Answer(i, st, <<>>)

(* The rows on the screen. *)
Listed == {i \in Rows : st.list.q.filter \in {"all", Shown(i)}}

(* Dialogs: which one is open, and for which record. *)
Dialog(kind, i) == Do([st EXCEPT !.dlg = [kind |-> kind, item |-> i]], <<>>)
DialogIs(kind) == st.dlg # None /\ st.dlg.kind = kind
Close == st.dlg # None /\ Do([st EXCEPT !.dlg = None], <<>>)

Idle(flag) == flag \notin st.busy

(* The component p appears with state s, fetching its list. *)
Mount(p, s, rows) ==
    /\ page = p
    /\ st = Sent(s, <<>>, Fetch(s.q))
    /\ net = Fetch(s.q)
    /\ db = rows

-----------------------------------------------------------------------------
(* What is read: rows, or something the rows say nothing of.                *)
Lists == {"list", "techs", "check", "notifications", "pending"}
Reads == Lists \cup {"status", "customers", "templates", "locate", "settings"}

(* What a write leaves behind: most writes change fields the rows do not    *)
(* tell apart (to is None then), some change every record (item is None),   *)
(* and those of the settings carry a value for some of the records.         *)
Payloads == {"saveTab", "connect"}
(* Deviation: a write that says nothing of the row's state erases it.       *)
AppliedBlank(c) ==
    [i \in Item |-> IF c.op \notin Reads /\ c.item \in {i, None} THEN c.to ELSE db[i]]

Applied(c) ==
    [i \in Item |-> CASE c.op \in Payloads /\ c.rows[i] # None -> c.rows[i]
                      [] c.to # None /\ c.item \in {i, None} -> c.to
                      [] OTHER -> db[i]]

(* The back end handles call i: a write takes effect, or is refused; the    *)
(* answer may be lost afterwards. A read returns the rows of the moment.    *)
(* Which writes it refuses is left open here; Billing has that.             *)

Serve(i) ==
    /\ net[i].status = "sent"
    /\ \/ db' = db
       \/ db' = Applied(net[i])
    /\ \/ net' = [net EXCEPT ![i].status = "failed"]
       \/ /\ db' = Applied(net[i])
          /\ net' = [net EXCEPT ![i].status = "ok",
                                ![i].rows = IF net[i].op \in Lists THEN db ELSE @]
    /\ UNCHANGED <<page, st>>

(* Another user, the scheduler or another device changes a record. *)
OtherUser(values) ==
    /\ st.acts < MaxActs[page]
    /\ \E i \in Item, v \in values :
         /\ db[i] # v
         /\ db' = [db EXCEPT ![i] = v]
    /\ st' = [st EXCEPT !.acts = @ + 1, !.stale = TRUE]
    /\ UNCHANGED <<page, net>>

=============================================================================
