------------------------------ MODULE MCStartUp ------------------------------
(***************************************************************************)
(* Two settings of server_config_new, three configuration files at three   *)
(* depths, and working directories and arguments that meet and miss them.  *)
(***************************************************************************)
EXTENDS TLC, StartUp, MCModuleLoader

Symbols == {"/", ".", "..", " ", "etc", "sub", "latte.conf"}

Rules == [hz   |-> [default |-> 10, accepts |-> {0, 10, 100, 65535}],
          port |-> [default |-> 6379, accepts |-> {0, 6379, 65535}]]

S(name, value) == [name |-> name, value |-> value]

Files == (<<"latte.conf">> :> <<S("port", 65535), S("load-module", "latte")>>)
      @@ (<<"etc", "latte.conf">> :> <<S("load-module", "latte"), S("hz", 100), S("load-module", "hello")>>)
      @@ (<<"etc", "sub", "latte.conf">> :> <<S("hz", 65536)>>)

Line == {S("load-module", l) : l \in Paths}
        \cup {S("hz", 0), S("hz", 10), S("port", 65536), S("hertz", 10)}

AllLines == Line \cup {S("port", 65535), S("hz", 100), S("hz", 65536)}

Cwd == {<<"/">>, <<"/", "etc">>, <<"/", "etc", "/", "sub">>}
Argument == {
  <<"latte.conf">>, <<"..", "/", "latte.conf">>, <<"..", "/", "..", "/", "..", "/", "latte.conf">>,
  <<" ", "..", "/", "etc", "/", "latte.conf", " ">>, <<".", "/", "..", "/", "latte.conf">>,
  <<"/", "etc", "/", "sub", "/", "..", "/", "latte.conf">>, <<" ">>}

Start(cwd, argv1, file, argv) == [cwd |-> cwd, argv1 |-> argv1, file |-> file, lines |-> argv]

StartSet ==
  {Start(<<"/">>, "mode", <<>>, <<>>)}
  \cup {Start(<<"/">>, "setting", <<>>, argv) : argv \in {<<>>} \cup {<<a>> : a \in Line}
                                                        \cup {<<a, b>> : a, b \in Line}}
  \cup {Start(cwd, "file", file, argv) : cwd \in Cwd, file \in Argument,
          argv \in {<<>>, <<S("hz", 0)>>, <<S("load-module", "again")>>}}
=============================================================================
