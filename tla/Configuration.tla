--------------------------- MODULE Configuration ---------------------------
(***************************************************************************)
(* Where a node's configuration comes from.  The directory is looked for   *)
(* and its six files are read twice: by validate_args(), which prints the  *)
(* banner, and, after libbarrett has initialised the arm, by wam_main(),   *)
(* which builds the node from it.  The operator may edit a file at any     *)
(* moment.                                                                 *)
(*                                                                         *)
(* What a file says is abstracted to the one thing that is odd about it.   *)
(* "unreadable" is whatever YAML objects to: no file, no syntax, no key,   *)
(* no value of that type.  "odd" is a value out of an optional key's       *)
(* range, which every loader takes.                                        *)
(*                                                                         *)
(* What NodeLife has under the same name has this module's before it here, *)
(* so that one module can reason about both.                               *)
(***************************************************************************)
EXTENDS Integers, Sequences, FiniteSets

CONSTANT MaxEdits  \* bound on the operator's edits

ASSUME ConfigurationAssumption == MaxEdits \in Nat

\* The files, in the order they are read, and what there is to say of each.
Files == <<"teleop", "policy", "logging", "gripper", "handle", "dynamics">>
File == {Files[i] : i \in DOMAIN Files}
Says(f) ==
  {"fine", "unreadable"} \cup
    CASE f = "teleop"   -> {"no routing", "unknown field"}
      [] f = "policy"   -> {"no routing", "unknown field", "unknown type"}
      [] f = "logging"  -> {"unknown field", "odd"}
      [] f = "dynamics" -> {"odd"}
      [] OTHER          -> {}

VARIABLES
  at,      \* where the program is
  world,   \* what get_teleop_config_directory() finds
  dir,     \* the directory it returned
  file,    \* what the files of the directory say
  read,    \* what the load under way has read
  edits

configvars == <<at, world, dir, file, read, edits>>

\* TELEOP_CONFIG_DIR, HOME and its .config/teleop, /etc/teleop.
Worlds == [env : {"unset", "directory", "nonsense"},
           home : {"unset", "empty", "directory"},
           etc : BOOLEAN]

ConfigInit ==
  /\ at = [main |-> "validate_args", in |-> "find"]
  /\ world \in Worlds
  /\ dir = "none"
  /\ file \in {g \in [File -> UNION {Says(f) : f \in File}] :
                 /\ \A f \in File : g[f] \in Says(f)
                 /\ Cardinality({f \in File : g[f] # "fine"}) <= 1}
  /\ read = <<>>
  /\ edits = 0

\* main() ends: refused by validate_args(), or by an exception.
End(how) == at' = [at EXCEPT !.in = how]
HasEnded == at.in \in {"refused", "thrown", "running"}

-----------------------------------------------------------------------------
(* get_teleop_config_directory().                                          *)

\* The first of the three that is a directory; without a HOME to look in, its
\* path cannot be made.
Directory ==
  CASE world.env = "directory"  -> "env"
    [] world.env # "directory" /\ world.home = "unset"     -> "exception"
    [] world.env # "directory" /\ world.home = "directory" -> "home"
    [] world.env # "directory" /\ world.home = "empty" ->
         IF world.etc THEN "etc" ELSE "exception"

FindDirectory ==
  /\ at.in = "find"
  /\ IF Directory = "exception"
     THEN End("thrown") /\ UNCHANGED dir
     ELSE /\ at' = [at EXCEPT !.in = "load"]
          /\ dir' = Directory
  /\ UNCHANGED <<world, file, read, edits>>

-----------------------------------------------------------------------------
(* load_config().                                                          *)

Reading(f) == at.in = "load" /\ Files[Len(read) + 1] = f

\* A file throws, or becomes a part of the Config.
Load(f, rejects) ==
  /\ Reading(f)
  /\ IF file[f] \in rejects
     THEN /\ End(IF at.main = "validate_args" THEN "refused" ELSE "thrown")
          /\ UNCHANGED read
     ELSE /\ read' = Append(read, file[f])
          /\ at' = IF f = "dynamics" THEN [at EXCEPT !.in = "loaded"] ELSE at
  /\ UNCHANGED <<world, dir, file, edits>>

LoadTeleop == Load("teleop", {"unreadable", "no routing"})

LoadPolicy == Load("policy", {"unreadable", "no routing", "unknown type"})

LoadLogging == Load("logging", {"unreadable"})

LoadGripper == Load("gripper", {"unreadable"})

LoadHandle == Load("handle", {"unreadable"})

\* Every key is optional, the file is not.
LoadDynamics == Load("dynamics", {"unreadable"})

LoadFile ==
  LoadTeleop \/ LoadPolicy \/ LoadLogging \/ LoadGripper \/ LoadHandle
    \/ LoadDynamics

Loaded(f) == read[CHOOSE i \in DOMAIN Files : Files[i] = f]

-----------------------------------------------------------------------------
(* What is made of a Config.                                               *)

\* The banner; then libbarrett runs wam_main(), which starts anew.
ValidateArgs ==
  /\ at = [main |-> "validate_args", in |-> "loaded"]
  /\ at' = [main |-> "wam_main", in |-> "find"]
  /\ read' = <<>>
  /\ UNCHANGED <<world, dir, file, edits>>

\* Mutant: the fields of the policy's packet are not looked at.
Mut_Construct ==
  /\ at = [main |-> "wam_main", in |-> "loaded"]
  /\ IF Loaded("teleop") = "unknown field"
     THEN End("thrown") ELSE End("running")
  /\ UNCHANGED <<world, dir, file, read, edits>>

\* The node's handlers throw at a field they do not know.
Construct ==
  /\ at = [main |-> "wam_main", in |-> "loaded"]
  /\ IF "unknown field" \in {Loaded("teleop"), Loaded("policy")}
     THEN End("thrown")
     ELSE End("running")
  /\ UNCHANGED <<world, dir, file, read, edits>>

\* The operator edits a file.
Edit(f) ==
  /\ edits < MaxEdits /\ ~HasEnded
  /\ \E says \in Says(f) : file' = [file EXCEPT ![f] = says]
  /\ edits' = edits + 1
  /\ UNCHANGED <<at, world, dir, read>>

ConfigNext ==
  \/ FindDirectory \/ LoadFile \/ ValidateArgs \/ Construct
  \/ \E f \in File : Edit(f)

ConfigSpec == ConfigInit /\ [][ConfigNext]_configvars

-----------------------------------------------------------------------------
(* Properties.                                                             *)

\* The type invariant: what was read is a beginning of the six files.
ConfigTypeOK ==
  /\ at.main \in {"validate_args", "wam_main"}
  /\ at.in \in {"find", "load", "loaded", "running", "refused", "thrown"}
  /\ world \in Worlds
  /\ dir \in {"none", "env", "home", "etc"}
  /\ \A f \in File : file[f] \in Says(f)
  /\ Len(read) <= Len(Files)
  /\ \A i \in DOMAIN read : read[i] \in Says(Files[i])
  /\ edits \in 0..MaxEdits

\* A node never runs on a file somebody has objected to, be it YAML, the
\* loader or a module's constructor, and be the file edited between the two
\* loads or during one.
RunsOnWhatWasAccepted ==
  at.in = "running" =>
    \A f \in File :
      Loaded(f) \notin {"unreadable", "no routing", "unknown type"}
        /\ (Loaded(f) = "unknown field" => f = "logging")
=============================================================================
