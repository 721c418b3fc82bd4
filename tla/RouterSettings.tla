---------------------------- MODULE RouterSettings ----------------------------
(***************************************************************************)
(* The settings of the direct MikroTik client: the rows of the table       *)
(* settings, the client that Manager holds, and the two handlers that save *)
(* settings: SaveAndConnect, which saves and then configures the manager,  *)
(* and UpdateSettings, which only saves.  A restart reads what is stored.  *)
(*                                                                         *)
(* Sources: backend/internal/handler/mikrotik_handler.go,                  *)
(* settings_handler.go, backend/internal/repository/settings_repo.go,      *)
(* backend/internal/mikrotik/manager.go, backend/cmd/server/main.go.       *)
(***************************************************************************)
EXTENDS Naturals

CONSTANTS
  Handlers,    (* goroutines that serve requests                           *)
  Hosts,       (* values of mikrotik_host that are not empty               *)
  Logins,      (* values of port, user and password together               *)
  Empty,       (* the empty host, or an empty user or password             *)
  None,        (* no client                                                *)
  Environment, (* the setting of the environment: MIKROTIK_HOST and so on  *)
  MaxSaves     (* requests that save (a bound)                             *)

Setting == [host : Hosts \cup {Empty}, login : Logins \cup {Empty}]

(* Masked secrets and keys that are not sent leave the row as it is.       *)
Unsent == "unsent"

RouterSettingsAssumption ==
  /\ {Empty, Unsent} \cap (Hosts \cup Logins) = {} /\ Empty # Unsent
  /\ None \notin Setting
  /\ Environment \in Setting
  /\ MaxSaves \in Nat

VARIABLES
  stored,   (* the rows of settings                                        *)
  client,   (* Manager.client                                              *)
  saving,   (* per goroutine, its request: point and values                *)
  saves,    (* requests so far                                             *)
  apart     (* history: why client and rows may differ                     *)

vars == <<stored, client, saving, saves, apart>>

NoSave == [pc |-> "idle", host |-> Unsent, login |-> Unsent]

TypeOK ==
  /\ stored \in Setting
  /\ client \in Setting \cup {None}
  /\ saving \in [Handlers -> [pc : {"idle", "connect", "update", "configure"},
                              host : Hosts \cup {Empty, Unsent},
                              login : Logins \cup {Empty, Unsent}]]
  /\ saves \in 0..MaxSaves
  /\ apart \in BOOLEAN

ClientOf(s) == IF s.host = Empty THEN None ELSE s

(* What is empty in the rows is taken from the environment at the start;   *)
(* Configure has no such second choice.                                    *)
Incomplete(s) == Empty \in {s.host, s.login}

InitialClient(s) ==
  ClientOf([host  |-> IF s.host = Empty THEN Environment.host ELSE s.host,
            login |-> IF s.login = Empty THEN Environment.login ELSE s.login])

Init ==
  /\ stored \in Setting
  /\ client = InitialClient(stored)
  /\ saving = [h \in Handlers |-> NoSave]
  /\ saves = 0
  /\ apart = Incomplete(stored)

-----------------------------------------------------------------------------

Busy == {h \in Handlers : saving[h].pc # "idle"}

(* A request begins; one that begins while another is under way may be     *)
(* overtaken by it.                                                        *)
Begin(h, pc, host, login) ==
  /\ saving[h].pc = "idle"
  /\ saves < MaxSaves /\ saves' = saves + 1
  /\ saving' = [saving EXCEPT ![h] = [pc |-> pc, host |-> host, login |-> login]]
  /\ apart' = (apart \/ Busy # {})
  /\ UNCHANGED <<stored, client>>

SaveAndConnect(h) ==
  \E s \in Setting : Begin(h, "connect", s.host, s.login)

UpdateSettings(h) ==
  \E host \in Hosts \cup {Empty, Unsent}, login \in Logins \cup {Empty, Unsent} :
    (host # Unsent \/ login # Unsent) /\ Begin(h, "update", host, login)

(* Deviation: the masks are stored.                                        *)
WrittenMasks(h) == [host |-> saving[h].host, login |-> saving[h].login]

(* SetMultiple: all keys in one transaction, or none                       *)
Written(h) ==
  [host  |-> IF saving[h].host = Unsent THEN stored.host ELSE saving[h].host,
   login |-> IF saving[h].login = Unsent THEN stored.login ELSE saving[h].login]

End(h) == saving' = [saving EXCEPT ![h] = NoSave]

(* Deviation: the error is not looked at.                                  *)
SetMultipleIgnored(h) ==
  /\ saving[h].pc \in {"connect", "update"}
  /\ IF saving[h].pc = "connect" THEN saving' = [saving EXCEPT ![h].pc = "configure"]
     ELSE End(h)
  /\ UNCHANGED <<stored, client, saves, apart>>

SetMultipleFails(h) ==
  /\ saving[h].pc \in {"connect", "update"}
  /\ End(h)
  /\ UNCHANGED <<stored, client, saves, apart>>

SetMultiple(h) ==
  /\ saving[h].pc \in {"connect", "update"}
  /\ stored' = Written(h)
  /\ IF saving[h].pc = "connect"
     THEN /\ saving' = [saving EXCEPT ![h].pc = "configure"]
          /\ apart' = (apart /\ Busy # {h})
     ELSE End(h) /\ apart' = (apart \/ stored' # stored)
  /\ UNCHANGED <<client, saves>>

Configure(h) ==
  /\ saving[h].pc = "configure"
  /\ client' = ClientOf([host |-> saving[h].host, login |-> saving[h].login])
  /\ End(h)
  /\ UNCHANGED <<stored, saves, apart>>

Restart ==
  /\ client' = InitialClient(stored)
  /\ saving' = [h \in Handlers |-> NoSave]
  /\ apart' = Incomplete(stored)
  /\ UNCHANGED <<stored, saves>>

Save(h) ==
  \/ SaveAndConnect(h) \/ UpdateSettings(h)
  \/ SetMultipleFails(h) \/ SetMultiple(h) \/ Configure(h)

Next == (\E h \in Handlers : Save(h)) \/ Restart

Spec == Init /\ [][Next]_vars

-----------------------------------------------------------------------------
(* Properties                                                              *)

(***************************************************************************)
(* mikrotik_handler.go 90-135, main.go 74-104: when nobody saves, the      *)
(* client in use is the one that is stored; unless two requests that save  *)
(* overlapped, or UpdateSettings changed these rows, or the server started *)
(* with a row empty and took the environment's value for it.               *)
(***************************************************************************)
ClientIsStored == Busy = {} /\ ~apart => client = ClientOf(stored)

=============================================================================
