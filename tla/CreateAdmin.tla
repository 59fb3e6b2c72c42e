---------------------------- MODULE CreateAdmin ----------------------------
(***************************************************************************)
(* The command that creates an administrator: its arguments, its input,    *)
(* its database, the one INSERT and the end of the connection, each of     *)
(* which may fail, while another run of the command and a registration     *)
(* want the same name. Its exit code is all an operator sees.              *)
(***************************************************************************)
EXTENDS Integers

CONSTANTS
  Commands, \* runs of the command
  Names,    \* the names and addresses wanted
  None      \* nothing yet

VARIABLES
  user, \* per name, the row that has it: who made it and what it may do
  run   \* per command, its step, its name, what it said

vars == <<user, run>>

Fresh == [at |-> "parse", name |-> None, code |-> None, message |-> None, made |-> FALSE, lost |-> FALSE]

(* The row createAdmin inserts for run c. *)
Admin(c) == [by |-> c, role |-> "ADMIN", verified |-> TRUE, active |-> TRUE]

CreateAdminAssumption ==
  /\ None \notin Names /\ None \notin Commands /\ "register" \notin Commands
  /\ None \notin {Admin(c) : c \in Commands}

At(c, at) == run[c].at = at
Goto(c, at) == run' = [run EXCEPT ![c].at = at]
Exit(c, code, message) == run' = [run EXCEPT ![c].at = "exit", ![c].code = code, ![c].message = message]

(* parseCreateAdminArguments is strict; --help asks for nothing else. *)
Parse(c) ==
  /\ At(c, "parse")
  /\ \/ Exit(c, 2, "arguments")
     \/ Exit(c, 0, "help")
     \/ \E n \in Names : run' = [run EXCEPT ![c].at = "validate", ![c].name = n]
  /\ UNCHANGED user

(* normalizeAndValidateCreateAdminInput: the argument goes before the       *)
(* environment, so an empty argument hides a good value; and the password   *)
(* must be neither the name nor the address.                                *)
Fields == {"good", "empty", "absent"}
Resolved(argument, env) == IF argument # "absent" THEN argument ELSE env

Validate(c) ==
  /\ At(c, "validate")
  /\ \E argument \in Fields, env \in Fields, same \in BOOLEAN :
       IF Resolved(argument, env) = "good" /\ ~same THEN Goto(c, "config") ELSE Exit(c, 2, "input")
  /\ UNCHANGED user

(* DATABASE_URL, then loadDependencies. *)
Connect(c) ==
  /\ At(c, "config")
  /\ \/ Exit(c, 1, "no database") \/ Exit(c, 1, "failed") \/ Goto(c, "create")
  /\ UNCHANGED user

(* Mutant: the row is made the administrator, whoever had it. *)
CreateOver(c) ==
  /\ At(c, "create")
  /\ user' = [user EXCEPT ![run[c].name] = Admin(c)]
  /\ run' = [run EXCEPT ![c].at = "disconnect", ![c].code = 0, ![c].message = "created", ![c].made = TRUE]

(* createAdmin: one INSERT, refused when the name or the address is taken;  *)
(* its answer may be lost.                                                  *)
Create(c) ==
  /\ At(c, "create")
  /\ \/ /\ user[run[c].name] = None
        /\ user' = [user EXCEPT ![run[c].name] = Admin(c)]
        /\ \/ run' = [run EXCEPT ![c].at = "disconnect", ![c].code = 0, ![c].message = "created", ![c].made = TRUE]
           \/ run' = [run EXCEPT ![c].at = "disconnect", ![c].code = 1, ![c].message = "failed",
                             ![c].made = TRUE, ![c].lost = TRUE]
     \/ /\ run' = [run EXCEPT ![c].at = "disconnect", ![c].code = 1,
                     ![c].message = IF user[run[c].name] # None THEN "duplicate" ELSE "failed"]
        /\ UNCHANGED user

(* A failing disconnect keeps the exit code and says whether it was made. *)
Disconnect(c) ==
  /\ At(c, "disconnect")
  /\ \/ Goto(c, "exit")
     \/ Exit(c, run[c].code, IF run[c].code = 0 THEN "created, do not repeat" ELSE run[c].message)
  /\ UNCHANGED user

(* The command runs again after it ended. *)
Repeat(c) ==
  /\ At(c, "exit") /\ run[c].message # "created"
  /\ run' = [run EXCEPT ![c] = Fresh]
  /\ UNCHANGED user

(* A registration takes a free name, and gives it up when its mail fails. *)
Register(n) ==
  /\ user[n] = None
  /\ user' = [user EXCEPT ![n] = [by |-> "register", role |-> "USER", verified |-> FALSE, active |-> TRUE]]
  /\ UNCHANGED run

Leave(n) ==
  /\ user[n] # None /\ user[n].by = "register"
  /\ user' = [user EXCEPT ![n] = None]
  /\ UNCHANGED run

Init ==
  /\ user = [n \in Names |-> None]
  /\ run = [c \in Commands |-> Fresh]

Next ==
  \/ \E c \in Commands :
       Parse(c) \/ Validate(c) \/ Connect(c) \/ Create(c) \/ Disconnect(c) \/ Repeat(c)
  \/ \E n \in Names : Register(n) \/ Leave(n)

Spec == Init /\ [][Next]_vars

----------------------------------------------------------------------------
(* The exit code tells the truth: a run reports success when and only when   *)
(* it made an administrator who can sign in (or was asked for help), unless  *)
(* the answer to its INSERT was lost; and the command never touches a row    *)
(* that somebody has (runCreateAdminCommand, createAdmin).                   *)
ExitTellsTheTruth ==
  [][/\ \A c \in Commands :
          run'[c].at = "exit" /\ ~At(c, "exit") =>
            /\ run[c].made = ((run'[c].code = 0 /\ run'[c].message # "help") \/ run[c].lost)
            /\ run[c].made => user[run[c].name] = Admin(c)
     /\ \A n \in Names : user[n] # None => user'[n] = user[n] \/ UNCHANGED run]_vars
=============================================================================
