------------------------------- MODULE Startup -------------------------------
(***************************************************************************)
(* The start of the server: RunMigrations brings the database to the       *)
(* schema of the code, statement by statement, and only then requests are  *)
(* served.  The process may die between any two statements, statements may *)
(* fail, the platform starts it again, and a deployment runs two at once.  *)
(*                                                                         *)
(* Source: backend/internal/database/database.go, called by                *)
(* backend/cmd/server/main.go.                                             *)
(***************************************************************************)
EXTENDS Naturals

CONSTANTS
  Procs,       (* processes of the server                                  *)
  Newest,      (* the migrations are 1..Newest                             *)
  SubsVersion, (* the one that creates the table subscriptions             *)
  Typed,       (* those that create a type besides their table             *)
  Repeatable,  (* those written with IF NOT EXISTS throughout              *)
  Refs,        (* Refs[m]: the migrations whose tables m refers to         *)
  MaxFaults    (* failed statements and killed processes (a bound)         *)

Migrations == 1..Newest

StartupAssumption ==
  /\ Newest \in Nat /\ SubsVersion \in Migrations
  /\ Typed \subseteq Migrations /\ Repeatable \subseteq Migrations \ Typed
  /\ Refs \in [Migrations -> SUBSET Migrations]
  /\ MaxFaults \in Nat

VARIABLES
  tables,    (* whose tables exist, by migration                           *)
  types,     (* whose types exist                                          *)
  recorded,  (* the versions in schema_migrations                          *)
  proc,      (* per process: point, objects left to drop, migration at hand*)
  faults     (* failures so far                                            *)

vars == <<tables, types, recorded, proc, faults>>

Ledger == 0             (* schema_migrations itself                        *)
Foreign == Newest + 1   (* the tables of the project that was there before *)

Down == [pc |-> "down", todo |-> {}, at |-> 1, blind |-> FALSE, shared |-> FALSE]

Starting(p) == proc[p].pc \notin {"down", "serving"}

TypeOK ==
  /\ tables \subseteq Ledger..Foreign
  /\ types \subseteq Typed
  /\ recorded \subseteq Migrations
  /\ proc \in [Procs ->
       [pc : {"down", "look", "list", "drop", "types", "create", "check",
              "execute", "record", "serving"},
        todo : SUBSET (Ledger..Foreign), at : 1..(Newest + 1),
        blind : BOOLEAN, shared : BOOLEAN]]
  /\ faults \in 0..MaxFaults

-----------------------------------------------------------------------------
(* What a database may hold before the first start                         *)

(* An earlier release, whose migrations were the first k.                  *)
Release(k) ==
  /\ tables = Ledger..k /\ types = Typed \cap 1..k /\ recorded = 1..k

(* Nothing, or the tables of another project                               *)
Unused == /\ tables \in {{}, {Foreign}} /\ types = {} /\ recorded = {}

(* All migrations, run by hand before the first deployment                 *)
ByHand == /\ tables = Migrations /\ types = Typed /\ recorded = {}

Init ==
  /\ Unused \/ ByHand \/ \E k \in Migrations : k >= SubsVersion /\ Release(k)
  /\ proc = [p \in Procs |-> Down]
  /\ faults = 0

-----------------------------------------------------------------------------
(* RunMigrations                                                           *)

At(p, pc) == proc[p].pc = pc

Goto(p, pc) == proc' = [proc EXCEPT ![p].pc = pc]

(* log.Fatalf                                                              *)
Exit(p) == proc' = [proc EXCEPT ![p] = Down]

Fault == faults < MaxFaults /\ faults' = faults + 1

NoFault == UNCHANGED faults

db == <<tables, types, recorded>>

(* `blind' and `shared' are history: whether the look failed, and whether  *)
(* another process was starting at the same time.                          *)
Start(p) ==
  LET others == {q \in Procs \ {p} : Starting(q)}
  IN  /\ At(p, "down")
      /\ proc' = [q \in Procs |->
                    IF q = p THEN [Down EXCEPT !.pc = "look",
                                               !.shared = others # {}]
                    ELSE [proc[q] EXCEPT !.shared = @ \/ q \in others]]
      /\ UNCHANGED <<db, faults>>

(* Deviation: it looks for the table of the newest migration.              *)
LookForNewest(p) ==
  /\ At(p, "look")
  /\ \/ /\ Goto(p, IF Newest \in tables THEN "create" ELSE "list")
        /\ NoFault
     \/ /\ proc' = [proc EXCEPT ![p].pc = "list", ![p].blind = TRUE]
        /\ Fault
  /\ UNCHANGED db

(* The error of the query is dropped: then the table counts as missing.    *)
LookForSubscriptions(p) ==
  /\ At(p, "look")
  /\ \/ /\ Goto(p, IF SubsVersion \in tables THEN "create" ELSE "list")
        /\ NoFault
     \/ /\ proc' = [proc EXCEPT ![p].pc = "list", ![p].blind = TRUE]
        /\ Fault
  /\ UNCHANGED db

(* A list that fails is what was read of it so far.                        *)
ListTables(p) ==
  /\ At(p, "list")
  /\ \/ proc' = [proc EXCEPT ![p].pc = "drop", ![p].todo = tables] /\ NoFault
     \/ /\ \E read \in SUBSET tables :
             proc' = [proc EXCEPT ![p].pc = "drop", ![p].todo = read]
        /\ Fault
  /\ UNCHANGED db

(* A table that cannot be dropped is left.                                 *)
DropTable(p) ==
  /\ At(p, "drop")
  /\ \/ /\ proc[p].todo = {}
        /\ proc' = [proc EXCEPT ![p].pc = "types", ![p].todo = Typed]
        /\ UNCHANGED <<db, faults>>
     \/ \E t \in proc[p].todo :
          /\ proc' = [proc EXCEPT ![p].todo = @ \ {t}]
          /\ \/ /\ tables' = tables \ {t}
                /\ recorded' = IF t = Ledger THEN {} ELSE recorded
                /\ UNCHANGED types /\ NoFault
             \/ UNCHANGED db /\ Fault

(* Deviation: the tables went, their types stay.                           *)
DropNoTypes(p) == At(p, "types") /\ Goto(p, "create") /\ UNCHANGED <<db, faults>>

(* CASCADE takes the columns of the type from tables that are still there. *)
DropTypes(p) ==
  /\ At(p, "types")
  /\ \/ proc[p].todo = {} /\ Goto(p, "create") /\ UNCHANGED <<db, faults>>
     \/ \E t \in proc[p].todo :
          /\ proc' = [proc EXCEPT ![p].todo = @ \ {t}]
          /\ \/ types' = types \ {t} /\ NoFault
             \/ UNCHANGED types /\ Fault
          /\ UNCHANGED <<tables, recorded>>

CreateLedger(p) ==
  /\ At(p, "create")
  /\ \/ tables' = tables \cup {Ledger} /\ Goto(p, "check") /\ NoFault
     \/ UNCHANGED tables /\ Exit(p) /\ Fault
  /\ UNCHANGED <<types, recorded>>

(* The loop over the files; after the last one the server listens.         *)
CheckMigration(p) ==
  LET m == proc[p].at
  IN  /\ At(p, "check")
      /\ \/ m > Newest /\ Goto(p, "serving") /\ NoFault
         \/ /\ m \in recorded
            /\ proc' = [proc EXCEPT ![p].at = @ + 1] /\ NoFault
         \/ m \in Migrations \ recorded /\ Ledger \in tables
              /\ Goto(p, "execute") /\ NoFault
         \/ m \in Migrations /\ Ledger \notin tables /\ Exit(p) /\ NoFault
         \/ m \in Migrations /\ Exit(p) /\ Fault
      /\ UNCHANGED db

(* CREATE TABLE and CREATE TYPE fail on what is there already.             *)
Executable(m) ==
  /\ Refs[m] \subseteq tables
  /\ m \in Repeatable \/ m \notin tables \cup types

(* The statements of one file are one transaction.                         *)
ExecuteMigration(p) ==
  LET m == proc[p].at
  IN  /\ At(p, "execute")
      /\ \/ /\ Executable(m)
            /\ tables' = tables \cup {m}
            /\ types' = types \cup (Typed \cap {m})
            /\ Goto(p, "record") /\ NoFault
         \/ UNCHANGED <<tables, types>> /\ ~Executable(m) /\ Exit(p) /\ NoFault
         \/ UNCHANGED <<tables, types>> /\ Exit(p) /\ Fault
      /\ UNCHANGED recorded

(* version is the primary key.                                             *)
RecordMigration(p) ==
  LET m == proc[p].at
      recordable == Ledger \in tables /\ m \notin recorded
  IN  /\ At(p, "record")
      /\ \/ /\ recordable /\ recorded' = recorded \cup {m}
            /\ proc' = [proc EXCEPT ![p].pc = "check", ![p].at = m + 1]
            /\ NoFault
         \/ UNCHANGED recorded /\ ~recordable /\ Exit(p) /\ NoFault
         \/ UNCHANGED recorded /\ Exit(p) /\ Fault
      /\ UNCHANGED <<tables, types>>

Killed(p) == ~At(p, "down") /\ Exit(p) /\ Fault /\ UNCHANGED db

RunMigrations(p) ==
  \/ LookForSubscriptions(p) \/ ListTables(p) \/ DropTable(p) \/ DropTypes(p)
  \/ CreateLedger(p) \/ CheckMigration(p) \/ ExecuteMigration(p)
  \/ RecordMigration(p)

Run(p) == Start(p) \/ RunMigrations(p)

Next == \E p \in Procs : Run(p) \/ Killed(p)

Spec == Init /\ [][Next]_vars

(* docker-compose.yml and the hosting platform restart what has stopped.   *)
Fairness == \A p \in Procs : WF_vars(Run(p))

-----------------------------------------------------------------------------
(* Properties                                                              *)

(* What migration m made is there with all its columns.                    *)
Whole(m) == m \in tables /\ (m \in Typed => m \in types)

(***************************************************************************)
(* database.go 45-77: while the table subscriptions exists, nothing of the *)
(* schema is dropped, except by a process whose look for that table failed *)
(* or which started together with another one.                             *)
(***************************************************************************)
WipeHasACause ==
  [][\A m \in Migrations :
       SubsVersion \in tables /\ Whole(m) /\ ~Whole(m)' =>
         \E p \in Procs : /\ proc[p].pc \in {"drop", "types"}
                          /\ proc[p].blind \/ proc[p].shared]_vars

(* The database from which no start gets to the whole schema: nothing is    *)
(* dropped any more, because the table subscriptions is there or the       *)
(* server runs, and a migration that is not recorded cannot be executed,   *)
(* or one that is recorded is not there.                                   *)
Torn ==
  /\ \A p \in Procs : proc[p].pc \notin {"list", "drop", "types", "record"}
  /\ SubsVersion \in tables \/ \E p \in Procs : At(p, "serving")
  /\ \E m \in Migrations :
       IF m \in recorded THEN ~Whole(m)
       ELSE \/ m \notin Repeatable /\ m \in tables \cup types
            \/ \E r \in Refs[m] : r \in recorded \ tables

(***************************************************************************)
(* database.go 89-126 and the platform's restarts: whatever fails and      *)
(* whenever the process is killed, in the end every process serves on the  *)
(* whole schema, or two of them started at once, or the database is torn:  *)
(* by a failure, or because its schema was made without being recorded.    *)
(***************************************************************************)
ServesUnlessTorn ==
  <>(\/ Torn /\ (faults > 0 \/ recorded = {})
     \/ \E p \in Procs : proc[p].shared
     \/ \A p \in Procs : At(p, "serving") /\ \A m \in Migrations : Whole(m))

=============================================================================
