-------------------------- MODULE ProviderSettings --------------------------
(***************************************************************************)
(* Keys and addresses of model providers, which an update sets or removes  *)
(* in the environment of the server, where they are used, and in the .env  *)
(* file of the workspace, which is read only to be written again.          *)
(*                                                                         *)
(* An update changes the environment name by name and stops at a value     *)
(* that is refused, or fails to write the file: what it changed by then    *)
(* stays.  The file has a line for each name, in the order of the names;   *)
(* but a value may hold line breaks, and when the file is read again the   *)
(* further lines of such a value are lines like any others.                *)
(***************************************************************************)
EXTENDS Integers

CONSTANTS
  Name,        \* the keys of providers, and the address of the local server
  Url,         \* the name of that address
  Value,       \* values of names, not empty
  Read,        \* [Value -> what its first line is read as: less quotes and blanks]
  Further,     \* [Value -> [Name -> what its further lines are read as for the name]]
  Bare,        \* [Value -> what is left of its first line in the end]
  Fit,         \* the pairs of a name and a value that are not refused
  Asked,       \* [Name -> its place in a request]
  Listed       \* [Name -> its place in the file]

None == "none"      \* no value, or an empty one
Same == "same"      \* a name that is not mentioned

OneLine(v) == v = None \/ \A n \in Name : Further[v][n] = Same

Core(v) == IF v = None THEN None ELSE Bare[v]

ASSUME SettingsAssumption ==
  /\ Url \in Name /\ None \notin Value /\ Same \notin Value
  /\ Read \in [Value -> Value \cup {None}]
  /\ Further \in [Value -> [Name -> Value \cup {None, Same}]]
  /\ \A v \in Value : OneLine(Read[v]) /\ Core(Read[v]) = Bare[v]
  /\ \A v \in Value, n \in Name : Further[v][n] # Same => OneLine(Further[v][n])
  /\ Asked \in [Name -> Nat] /\ Listed \in [Name -> Nat]
  /\ \A m, n \in Name : m # n => Asked[m] # Asked[n] /\ Listed[m] # Listed[n]
  /\ \A names \in SUBSET Name :
       names # {} => \E m \in names : \A n \in names : Listed[n] =< Listed[m]

VARIABLES
  env,       \* [Name -> value in the environment]
  dotenv,    \* [Name -> value in the .env file, as it was written]
  behind     \* history: names that the file may be wrong about

settings == <<env, dotenv, behind>>

SettingsInit ==
  /\ env = [n \in Name |-> None]
  /\ dotenv = [n \in Name |-> None]
  /\ behind = {}

\* The names whose lines of a file, a first or a further one, assign to n.
Sources(file, n) ==
  {m \in Name : file[m] # None /\ (m = n \/ Further[file[m]][n] # Same)}

\* A file as it is read: the last line of a name counts.
Lines(file) ==
  [n \in Name |->
     IF Sources(file, n) = {} THEN None
     ELSE LET m == CHOOSE m \in Sources(file, n) :
                     \A o \in Sources(file, n) : Listed[o] =< Listed[m]
          IN IF Further[file[m]][n] # Same THEN Further[file[m]][n] ELSE Read[file[m]]]

Parsed == Lines(dotenv)

\* The names that a request changes: an empty address is ignored.
Changed(request) ==
  {n \in Name : request[n] # Same /\ ~(n = Url /\ request[n] = None)}

Refused(request) ==
  {n \in Changed(request) : request[n] # None /\ <<n, request[n]>> \notin Fit}

\* The names that the lines of a request's values go astray for: a value of
\* several lines is cut, and its further lines change other names.
Astray(request) ==
  LET torn == {n \in Changed(request) : ~OneLine(request[n])} IN
  torn \cup {n \in Name : \E m \in torn : Further[request[m]][n] # Same}

Put(values, request, names) ==
  [n \in Name |-> IF n \in names THEN request[n] ELSE values[n]]

\* Mutant: the file gets what the request names, and nothing else.
UpdateForgetting(request) ==
  LET names == Changed(request) IN
  /\ Refused(request) = {}
  /\ env' = Put(env, request, names)
  /\ dotenv' = [n \in Name |-> IF n \in names THEN request[n] ELSE None]
  /\ behind' = (behind \ names) \cup Astray(request)

\* The request is done: the file holds what it held, and what was asked for.
Update(request) ==
  LET names == Changed(request) IN
  /\ Refused(request) = {}
  /\ env' = Put(env, request, names)
  /\ dotenv' = Put(Parsed, request, names)
  /\ behind' = (behind \ names) \cup Astray(request)

\* An address that is not local, or a value that no environment can hold, is
\* refused; the names before it are in the environment.
RefuseValue(request) ==
  \E n \in Refused(request) :
    LET names == {m \in Changed(request) : Asked[m] < Asked[n]} IN
    /\ names \cap Refused(request) = {}
    /\ env' = Put(env, request, names)
    /\ behind' = behind \cup names
    /\ UNCHANGED dotenv

\* The file cannot be written.
FailToSave(request) ==
  LET names == Changed(request) IN
  /\ Refused(request) = {}
  /\ env' = Put(env, request, names)
  /\ behind' = behind \cup names
  /\ UNCHANGED dotenv

\* The server starts again, with the environment it is given: that of the file,
\* or none of it.
Launch(fromFile) ==
  /\ env' = IF fromFile THEN Parsed ELSE [n \in Name |-> None]
  /\ behind' = IF fromFile THEN {} ELSE {n \in Name : Parsed[n] # None}
  /\ UNCHANGED dotenv

Requests == [Name -> Value \cup {Same, None}]

SettingsNext ==
  \E request \in Requests : Update(request) \/ RefuseValue(request) \/ FailToSave(request)

-----------------------------------------------------------------------------
(* Properties                                                              *)

\* The file would be read as what is in use, up to quotes and blanks, except for
\* three kinds of names: those of updates that were refused or failed after they
\* had changed the environment; those that a value of several lines was saved
\* for, or that one of its further lines assigns to; and those of the file when
\* the server was started without it.  Each name is excepted until an update sets
\* it anew.  So no other update loses or revives a value, though each one reads
\* the file and writes it again (settings_api.py, update_provider_settings,
\* _parse_env_file, _write_env_file).
FileLagsOnlyThere ==
  \A n \in Name \ behind : Core(Parsed[n]) = Core(env[n])
=============================================================================
