------------------------------ MODULE StartUp ------------------------------
(***************************************************************************)
(* main and start_redis_server around the module loader: the mode, the     *)
(* path of the configuration file, its lines and those of the command      *)
(* line, and the settings the server is started with.  Every step is a     *)
(* step of ModuleLoader or leaves its variables alone.                     *)
(*                                                                         *)
(* A path is a sequence of symbols: "/", ".", "..", " " and names.  What   *)
(* stands at a path is found by Place, without symbolic links.             *)
(***************************************************************************)
EXTENDS ModuleLoader

CONSTANTS
  Symbol,        \* the elements of paths
  Rule,          \* the other rules of server_config_new: default and accepted values
  Lines,         \* the lines: a name and a value
  File,          \* the lines of the configuration file at each place
  Starts         \* cwd, kind of argv[1], the file it names, the other lines

(* A directory with its "/" at the end: names between slashes. *)
IsDirectory(path) ==
  /\ Len(path) % 2 = 1
  /\ \A i \in 1 .. Len(path) : IF i % 2 = 1 THEN path[i] = "/" ELSE path[i] \notin {"/", ".", ".."}

(* getcwd gives an absolute path without "." and ".."; only that of the    *)
(* root ends with "/".                                                     *)
ASSUME StartAssumption ==
  /\ {"/", ".", "..", " "} \subseteq Symbol
  /\ "load-module" \notin DOMAIN Rule
  /\ File \in [DOMAIN File -> Seq(Lines)]
  /\ \A s \in Starts :
       /\ s.cwd \in Seq(Symbol) /\ s.cwd # <<>>
       /\ s.cwd = <<"/">> \/ IsDirectory(Append(s.cwd, "/"))
       /\ s.file \in Seq(Symbol) /\ s.lines \in Seq(Lines)

VARIABLES
  start,         \* the working directory and the command line
  at,            \* "main", "server", "path", "file", "lines", "argv", "up", "ended"
  relpath, abspath,
  lines,         \* lines not yet read
  config,        \* redis_server->config
  server         \* the settings in redis_server and its parts

bvars == <<start, at, relpath, abspath, lines, config, server>>

BootInit ==
  /\ Init
  /\ start \in Starts
  /\ at = "main" /\ relpath = <<>> /\ abspath = <<>> /\ lines = <<>>
  /\ config = <<>> /\ server = <<>>
-----------------------------------------------------------------------------
(* The place a path leads to, as the names of the directories from the     *)
(* root: what open does with it, one element after the other.              *)
Enter(place, x) ==
  CASE x \in {"/", "."} -> place
    [] x = ".." -> IF place = <<>> THEN <<>> ELSE SubSeq(place, 1, Len(place) - 1)
    [] OTHER -> Append(place, x)

Place(path) ==
  LET walk[i \in 0 .. Len(path)] == IF i = 0 THEN <<>> ELSE Enter(walk[i - 1], path[i])
  IN walk[Len(path)]

IsAbsolute(path) == path # <<>> /\ path[1] = "/"

sds_trim(s) ==
  LET Solid == {i \in 1 .. Len(s) : s[i] # " "}
      first == CHOOSE i \in Solid : \A j \in Solid : i <= j
      last == CHOOSE i \in Solid : \A j \in Solid : j <= i
  IN IF Solid = {} THEN <<>> ELSE SubSeq(s, first, last)
-----------------------------------------------------------------------------
(* main.c *)

(* getMode: all modes but the server's print something and end. *)
main ==
  /\ at = "main"
  /\ at' = IF start.argv1 = "mode" THEN "ended" ELSE "server"
  /\ UNCHANGED <<vars, start, relpath, abspath, lines, config, server>>
-----------------------------------------------------------------------------
(* start_redis_server, up to the configuration *)

init_redis_server ==
  /\ at = "server" /\ command_manager_init
  /\ UNCHANGED bvars

(* server_config_new, then argv[1] is a file unless it begins with "-".    *)
read_argv1 ==
  /\ at = "server" /\ pc = "config"
  /\ config' = [s \in DOMAIN Rule |-> Rule[s].default]
  /\ \/ start.argv1 = "file" /\ at' = "path" /\ relpath' = sds_trim(start.file)
        /\ UNCHANGED lines
     \/ start.argv1 # "file" /\ at' = "argv" /\ lines' = start.lines
        /\ UNCHANGED relpath
  /\ UNCHANGED <<vars, start, abspath, server>>

(* goto fail *)
fail ==
  /\ start_redis_server /\ pc' = "stopped"
  /\ at' = "ended"
  /\ UNCHANGED <<start, relpath, abspath, lines, config, server>>

(* get_absolute_path: an absolute path is taken as it is; a relative one   *)
(* is joined to the working directory.                                     *)
join_cwd ==
  /\ at = "path" /\ abspath = <<>>
  /\ \/ /\ IsAbsolute(relpath)
        /\ abspath' = relpath /\ relpath' = <<>> /\ at' = "file"
     \/ /\ ~IsAbsolute(relpath)
        /\ abspath' = IF start.cwd[Len(start.cwd)] # "/" THEN Append(start.cwd, "/") ELSE start.cwd
        /\ UNCHANGED <<relpath, at>>
  /\ UNCHANGED <<vars, start, lines, config, server>>

(* There is no working directory: the path is NULL and nothing is loaded. *)
getcwd_fails ==
  /\ at = "path" /\ abspath = <<>> /\ ~IsAbsolute(relpath)
  /\ fail

(* Wrong variant: the search for the last "/" begins at that "/". *)
last_removed_none(path) == path

(* The path without its last element: p goes back from before the "/" at   *)
(* the end to the next one.                                                *)
last_removed(path) ==
  LET p == CHOOSE i \in 1 .. Len(path) - 1 :
             path[i] = "/" /\ \A j \in i + 1 .. Len(path) - 1 : path[j] # "/"
  IN IF Len(path) > 1 THEN SubSeq(path, 1, p) ELSE path

StartsWithParent == Len(relpath) >= 2 /\ relpath[1] = ".." /\ relpath[2] = "/"

(* One turn of the loop over the "../" at the start. *)
strip_parent ==
  /\ at = "path" /\ abspath # <<>> /\ StartsWithParent
  /\ relpath' = SubSeq(relpath, 3, Len(relpath))
  /\ abspath' = last_removed(abspath)
  /\ UNCHANGED <<vars, start, at, lines, config, server>>

glue_path ==
  /\ at = "path" /\ abspath # <<>> /\ ~StartsWithParent
  /\ abspath' = abspath \o relpath /\ relpath' = <<>> /\ at' = "file"
  /\ UNCHANGED <<vars, start, lines, config, server>>

(* config_load_file opens the file. *)
config_load_file ==
  /\ at = "file"
  /\ \/ Place(abspath) \notin DOMAIN File /\ fail
     \/ /\ Place(abspath) \in DOMAIN File
        /\ lines' = File[Place(abspath)] /\ at' = "lines"
        /\ UNCHANGED <<vars, start, relpath, abspath, config, server>>

(* A line sets a value its rule accepts, or adds a module. *)
config_set ==
  /\ at \in {"lines", "argv"} /\ lines # <<>>
  /\ lines' = Tail(lines)
  /\ LET l == Head(lines)
     IN \/ /\ l.name \in DOMAIN Rule /\ l.value \in Rule[l.name].accepts
           /\ config' = [config EXCEPT ![l.name] = l.value]
           /\ UNCHANGED vars
        \/ /\ l.name = "load-module" /\ l.value \in Libs
           /\ config_load_modules_add(l.value)
           /\ UNCHANGED config
  /\ UNCHANGED <<start, at, relpath, abspath, server>>

config_refuses ==
  /\ at \in {"lines", "argv"} /\ lines # <<>>
  /\ LET l == Head(lines)
     IN /\ l.name # "load-module"
        /\ l.name \in DOMAIN Rule => l.value \notin Rule[l.name].accepts
  /\ fail

(* attribute_index steps over the file: the other arguments come next. *)
config_load_argv ==
  /\ at = "lines" /\ lines = <<>>
  /\ lines' = start.lines /\ at' = "argv"
  /\ UNCHANGED <<vars, start, relpath, abspath, config, server>>

config_read ==
  /\ at = "argv" /\ lines = <<>>
  /\ start_redis_server /\ pc' = "init"
  /\ at' = "up"
  /\ UNCHANGED <<start, relpath, abspath, lines, config, server>>
-----------------------------------------------------------------------------
(* The rest of start_redis_server: the modules first, then the settings    *)
(* are copied, and start_latte_server serves.                              *)
load_and_serve ==
  /\ at = "up" /\ init_redis_modules
  /\ server' = IF pc' = "serve" THEN config ELSE server
  /\ UNCHANGED <<start, at, relpath, abspath, lines, config>>

LoaderStep ==
  /\ at = "up"
  /\ \/ \E l \in Libs : module_load_command(l)
     \/ redis_module_init \/ create_command \/ onload_gives_up \/ module_loaded
  /\ UNCHANGED bvars

BootNext ==
  \/ main \/ init_redis_server \/ read_argv1
  \/ join_cwd \/ getcwd_fails \/ strip_parent \/ glue_path
  \/ config_load_file \/ config_set \/ config_refuses \/ config_load_argv \/ config_read
  \/ load_and_serve \/ LoaderStep

BootSpec == BootInit /\ [][BootNext]_<<vars, bvars>>
-----------------------------------------------------------------------------
(* Properties *)

(* The file the first argument names from the working directory. *)
Named ==
  LET name == sds_trim(start.file)
  IN IF IsAbsolute(name) THEN name ELSE start.cwd \o <<"/">> \o name

(* The lines the server was given: those of that file, then those of the   *)
(* command line.                                                           *)
Given == (IF start.argv1 = "file" THEN File[Place(Named)] ELSE <<>>) \o start.lines

(* The modules of the first i of them. *)
Modules[i \in 0 .. Len(Given)] ==
  IF i = 0 THEN <<>>
  ELSE IF Given[i].name = "load-module" THEN Append(Modules[i - 1], Given[i].value)
  ELSE Modules[i - 1]

(* What the last of the first i lines about a setting says, or its default *)
Setting(s, i) ==
  LET About == {j \in 1 .. i : Given[j].name = s}
  IN IF About = {} THEN Rule[s].default
     ELSE Given[CHOOSE j \in About : \A k \in About : k <= j].value

(* A server that serves has read the file its first argument names,        *)
(* however many "../" it begins with and however close to the root it      *)
(* starts, loads the modules of all lines in their order, and runs with    *)
(* the last value given for each setting, the command line's after the     *)
(* file's, or its default (server.c:34-59, 116-162).                       *)
ServesWhatWasConfigured ==
  server # <<>> => /\ load_modules = Modules[Len(Given)]
                   /\ \A s \in DOMAIN Rule : server[s] = Setting(s, Len(Given))
=============================================================================
