---------------------------- MODULE MessageSending ----------------------------
(***************************************************************************)
(* Messages to customers: the handlers SendToOne, SendBulk, SendTemplate   *)
(* and SendReminders send to one recipient after the other and write down  *)
(* afterwards what became of each, in one transaction.  The request may be *)
(* cancelled or the server killed at any point.                            *)
(*                                                                         *)
(* Sources: backend/internal/handler/message_handler.go and                *)
(* backend/internal/repository/message_repo.go.                            *)
(***************************************************************************)
EXTENDS Naturals

CONSTANTS
  Handlers,     (* goroutines that serve requests                          *)
  Recipients,   (* subscriptions; a customer with two is written to twice  *)
  MaxBatches    (* requests that send (a bound)                            *)

Batches == 1..MaxBatches

VARIABLES
  sending,   (* per goroutine: point, batch, those to come, results so far *)
  batches,   (* batches begun: uuid.New never repeats one                  *)
  messages,  (* the table messages: by batch, the status per recipient     *)
  audience,  (* history: per batch, whom it was for                        *)
  asked,     (* history: how often the provider was asked, and             *)
  accepted   (* for whom it took the message, per batch                    *)

vars == <<sending, batches, messages, audience, asked, accepted>>

Status == {"sent", "failed"}

NoBatch == [pc |-> "idle", batch |-> 0, left |-> {}, results |-> <<>>]

Results == UNION {[rs -> Status] : rs \in SUBSET Recipients}

TypeOK ==
  /\ sending \in [Handlers -> [pc : {"idle", "send", "save"}, batch : 0..MaxBatches,
                               left : SUBSET Recipients, results : Results]]
  /\ batches \in 0..MaxBatches
  /\ messages \in [Batches -> Results]
  /\ audience \in [Batches -> SUBSET Recipients]
  /\ asked \in [Batches -> [Recipients -> Nat]]
  /\ accepted \in [Batches -> SUBSET Recipients]

Init ==
  /\ sending = [h \in Handlers |-> NoBatch]
  /\ batches = 0
  /\ messages = [b \in Batches |-> <<>>]
  /\ audience = [b \in Batches |-> {}]
  /\ asked = [b \in Batches |-> [r \in Recipients |-> 0]]
  /\ accepted = [b \in Batches |-> {}]

-----------------------------------------------------------------------------

(* The recipients are read: one, or the subscriptions of the filter.       *)
Begin(h) ==
  /\ sending[h].pc = "idle" /\ batches < MaxBatches
  /\ \E rs \in SUBSET Recipients \ {{}} :
       /\ sending' = [sending EXCEPT ![h] = [pc |-> "send", batch |-> batches + 1,
                                             left |-> rs, results |-> <<>>]]
       /\ audience' = [audience EXCEPT ![batches + 1] = rs]
  /\ batches' = batches + 1
  /\ UNCHANGED <<messages, asked, accepted>>

(* The turn of recipient r, of which the results say status                *)
Turn(h, r, status) ==
  LET results == sending[h].results
  IN  /\ asked' = [asked EXCEPT ![sending[h].batch][r] = @ + 1]
      /\ sending' = [sending EXCEPT
           ![h].left = @ \ {r},
           ![h].pc = IF sending[h].left = {r} THEN "save" ELSE "send",
           ![h].results = [x \in DOMAIN results \cup {r} |->
                             IF x = r THEN status ELSE results[x]]]

Taken(h, r) == accepted' = [accepted EXCEPT ![sending[h].batch] = @ \cup {r}]

(* Deviation: the error of the provider is not looked at.                  *)
SendReminderUnchecked(h) ==
  /\ sending[h].pc = "send"
  /\ \E r \in sending[h].left : /\ Turn(h, r, "sent")
                                /\ Taken(h, r) \/ UNCHANGED accepted
  /\ UNCHANGED <<batches, messages, audience>>

(* One turn of the loop; after the last the results are saved.  A message  *)
(* that failed may have been taken and the answer lost.                    *)
SendReminder(h) ==
  /\ sending[h].pc = "send"
  /\ \E r \in sending[h].left :
       \/ Turn(h, r, "sent") /\ Taken(h, r)
       \/ Turn(h, r, "failed") /\ (Taken(h, r) \/ UNCHANGED accepted)
  /\ UNCHANGED <<batches, messages, audience>>

End(h) == sending' = [sending EXCEPT ![h] = NoBatch]

CreateBatch(h) ==
  /\ sending[h].pc = "save"
  /\ messages' = [messages EXCEPT ![sending[h].batch] = sending[h].results]
  /\ End(h)
  /\ UNCHANGED <<batches, audience, asked, accepted>>

(* Also when the client gave up and the request's context is cancelled     *)
CreateBatchFails(h) ==
  /\ sending[h].pc = "save"
  /\ End(h)
  /\ UNCHANGED <<batches, messages, audience, asked, accepted>>

Restart ==
  /\ \E h \in Handlers : sending[h].pc # "idle"
  /\ sending' = [h \in Handlers |-> NoBatch]
  /\ UNCHANGED <<batches, messages, audience, asked, accepted>>

Send(h) ==
  Begin(h) \/ SendReminder(h) \/ CreateBatch(h) \/ CreateBatchFails(h)

Next == (\E h \in Handlers : Send(h)) \/ Restart

Spec == Init /\ [][Next]_vars

-----------------------------------------------------------------------------
(* Properties                                                              *)

(***************************************************************************)
(* message_handler.go 155-410, message_repo.go 66-88: the history says     *)
(* nothing of a batch, or it has everyone the batch was for, and whom it   *)
(* calls `sent' the provider took the message for; nobody is written to    *)
(* twice, also when the batch is cut short.                                *)
(***************************************************************************)
HistoryIsTrue ==
  \A b \in Batches :
    /\ \A r \in Recipients : asked[b][r] <= 1
    /\ messages[b] # <<>> =>
         /\ DOMAIN messages[b] = audience[b]
         /\ \A r \in audience[b] :
              asked[b][r] = 1 /\ (messages[b][r] = "sent" => r \in accepted[b])

=============================================================================
