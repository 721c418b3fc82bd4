---------------------------- MODULE SettingsPage ----------------------------
(***************************************************************************)
(* pages/admin/Settings.tsx: tabs of settings that are edited in one map.  *)
(* The rows are the stored values of some of them, either of the SMS tab,  *)
(* one of which is a secret and the others are not, or of the MikroTik     *)
(* tab, all secrets here; the agent's secret is also on the Security tab.  *)
(* A Save button saves its tab (Branding and Security work like SMS), but  *)
(* the MikroTik tab saves by connecting. The list is originalSettings,     *)
(* unmasked; `form' is the map that is edited, `retouched' remembers that  *)
(* it was edited during a save. The back end accepts a save or refuses it; *)
(* that of this commit refuses every saveTab (settings_handler.go 60-72    *)
(* wants the values in a member `settings').                               *)
(***************************************************************************)
EXTENDS Page

MASKED == "masked"
Tabs == {"sms", "mikrotik", "security"}
TAB_KEYS(tab) == st.keys[tab]

(* The back end's answer to GET /settings masks secrets.                    *)
maskValue(k, v) == IF v = "" \/ k \notin st.secrets THEN v ELSE MASKED

Loaded == Idle("loading")

fetchSettings(i) ==
    \/ /\ Ok(i, "list")
       /\ Answer(i, [Show(st, i) EXCEPT !.form = [k \in Item |-> maskValue(k, net[i].rows[k])]], <<>>)
    \/ Failed(i, "list") /\ Answer(i, st, <<>>)

setActiveTab(tab) ==
    Loaded /\ tab # st.tab /\ TAB_KEYS(tab) # {} /\ Do([st EXCEPT !.tab = tab], <<>>)

(* A secret that is masked, or a value never loaded, looks empty.           *)
displayValue(k) == IF st.form[k] \in {MASKED, None} THEN "" ELSE st.form[k]

updateSetting(k, v) ==
    /\ Loaded /\ k \in TAB_KEYS(st.tab) /\ v # displayValue(k)
    /\ Do([st EXCEPT !.form[k] = v, !.dirty = @ \cup {st.tab},
                     !.retouched = @ \/ ~Idle("saving")], <<>>)

(* Deviation: what is empty is not sent either.                             *)
buildFilledPayload(tab) ==
    [k \in Item |-> IF k \in TAB_KEYS(tab) /\ st.form[k] \notin {MASKED, ""}
                    THEN st.form[k] ELSE None]

(* What is still masked is not sent; neither is what the tab does not have. *)
buildSavePayload(tab) ==
    [k \in Item |-> IF k \in TAB_KEYS(tab) /\ st.form[k] # MASKED THEN st.form[k] ELSE None]

(* The inputs are valid; an invalid one only shows its error.               *)
saveTab ==
    /\ Loaded /\ st.tab # "mikrotik" /\ Idle("saving") /\ st.tab \in st.dirty
    /\ Do(st, <<[Write("saveTab", {"saving"}, st.q, st.tab, None)
                    EXCEPT !.rows = buildSavePayload(st.tab)]>>)

(* Connecting sends host, port, user and password, not the agent's secret;  *)
(* a masked password is sent as an empty one.                               *)
saveAndConnectMikrotik ==
    /\ Loaded /\ st.tab = "mikrotik" /\ Idle("connectingMik")
    /\ Do([st EXCEPT !.stale = TRUE],
          <<[Write("connect", {"connectingMik"}, st.q, None, None) EXCEPT
                !.rows = [k \in Item |-> IF k \in TAB_KEYS("security") THEN None
                                         ELSE displayValue(k)]]>>)

(* What was sent is now the original; the tab counts as saved also when it  *)
(* was edited since the click.                                              *)
Saved(i) ==
    \/ /\ Ok(i, "saveTab")
       /\ Answer(i, [st EXCEPT !.dirty = @ \ {net[i].item},
                               !.list.rows = IF @ = None THEN None
                                             ELSE [k \in Item |-> IF net[i].rows[k] = None
                                                                  THEN @[k] ELSE net[i].rows[k]]],
                 <<>>)
    \/ /\ Ok(i, "connect")
       /\ \/ Answer(i, [st EXCEPT !.dirty = @ \ {"mikrotik"}], <<>>)
          \/ Answer(i, st, <<>>)    \* saved, but not connected
    \/ Failed(i, "saveTab") /\ Answer(i, st, <<>>)
    \/ Failed(i, "connect") /\ Answer(i, st, <<>>)

(* Tests of the saved SMS provider and of the router, and the reminders.    *)
Try(tab, op, flag) ==
    Loaded /\ st.tab = tab /\ Idle(flag) /\ Do(st, <<Write(op, {flag}, st.q, None, None)>>)
testSms == Try("sms", "testSms", "testingSms")
testMikrotik == Try("mikrotik", "testMik", "testingMik")
sendReminders == Try("sms", "reminders", "sendingReminders")
Tried(i) ==
    /\ Answered(i, "testSms") \/ Answered(i, "testMik") \/ Answered(i, "reminders")
    /\ Answer(i, st, <<>>)

Settings(tab, keys, secrets) ==
    Mount("settings",
          With(Blank([all |-> TRUE]),
               [tab |-> tab, keys |-> keys, secrets |-> secrets, dirty |-> {},
                retouched |-> FALSE, form |-> [k \in Item |-> None]]),
          [k \in Item |-> "old"])

Init ==
    \E k \in Item :
        \/ Settings("sms", [sms |-> Item, mikrotik |-> {}, security |-> {}], {k})
        \/ Settings("mikrotik", [sms |-> {}, mikrotik |-> Item, security |-> {k}], Item)

Next ==
    \/ \E tab \in Tabs : setActiveTab(tab)
    \/ \E k \in Item, v \in Texts : updateSetting(k, v)
    \/ saveTab \/ saveAndConnectMikrotik \/ testSms \/ testMikrotik \/ sendReminders
    \/ \E i \in Calls : fetchSettings(i) \/ Saved(i) \/ Tried(i)
    \/ OtherUser({"old"})

(* A tab that counts as saved shows what is stored, a mask for a secret     *)
(* that is still the one that was there, and never stores the mask; unless  *)
(* it was edited during the save, a save failed, or another user saved.     *)
SavedIsStored ==
    net = <<>> /\ ~st.stale /\ ~st.retouched /\ "sms" \notin st.dirty =>
        \A k \in TAB_KEYS("sms") :
            db[k] = IF st.form[k] = MASKED THEN "old" ELSE st.form[k]

=============================================================================
