--------------------------- MODULE MCModuleLoader ---------------------------
(***************************************************************************)
(* The command table of the server, the string module that latte.conf      *)
(* loads, the demo module, and libraries that fail at each check: "clash"  *)
(* declares a command of its own and then SET in upper case, "flags" has a *)
(* flag word of the table that the module API does not know, and "again"   *)
(* gives itself the name of the string module in upper case.               *)
(***************************************************************************)
EXTENDS ModuleLoader

D(name, words) == [name |-> name, words |-> words]
L(kind, module, cmds) == [kind |-> kind, module |-> module, cmds |-> cmds]

Names == {"quit", "module", "ping", "info", "expire", "set", "SET", "get", "hello.test",
  "other.a", "flags.a", "latte", "LATTE", "hello", "clash", "flags"}
LowerOf == [n \in Names |-> CASE n = "SET" -> "set" [] n = "LATTE" -> "latte" [] OTHER -> n]

CommandTable == <<D("quit", {"admin"}), D("module", {"admin", "no-script"}), D("ping", {"admin"}),
  D("info", {"admin"}), D("expire", {"write", "fast"})>>

Libraries == [latte  |-> L("ok", "latte", <<D("set", {"write", "deny-oom"}), D("get", {"readonly"})>>),
              hello  |-> L("ok", "hello", <<D("hello.test", {"readonly"})>>),
              clash  |-> L("ok", "clash", <<D("other.a", {"swap-get"}), D("SET", {"write"})>>),
              flags  |-> L("ok", "flags", <<D("flags.a", {}), D("other.a", {"read-only"})>>),
              again  |-> L("ok", "LATTE", <<>>),
              noexec |-> L("no permission", "hello", <<>>),
              data   |-> L("no onload", "hello", <<>>)]
Paths == DOMAIN Libraries
=============================================================================
