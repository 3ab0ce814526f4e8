------------------------------- MODULE MCFiles -------------------------------
(***************************************************************************)
(* A small instance of Files: a terminal, a directory of the host with one *)
(* file that exists and one that may be created, and a link to the first.  *)
(***************************************************************************)
EXTENDS Files

Nodes == {"root", "dev", "tty", "dir", "f", "g", "l"}
MCTree ==
    [kind |-> [n \in Nodes |-> CASE n \in {"root", "dev", "dir"} -> "dir" [] n = "tty" -> "tty"
                                 [] n = "l" -> "link" [] n \in {"f", "g"} -> "file"],
     ancestor |-> [n \in Nodes |-> CASE n = "tty" -> "dev" [] n \in {"f", "g", "l"} -> "dir" [] OTHER -> "root"],
     link |-> [n \in Nodes |-> [abs |-> TRUE, names |-> <<"dir", "f">>]],
     access |-> [n \in Nodes |-> [owner |-> IF n \in {"root", "f"} THEN 0 ELSE 1, group |-> 0,
                            modes |-> {"r", "w", "x"} \X {"owner"} \cup {"r", "x"} \X {"other"}]],
     mounted |-> [e \in {<<"root", "dev">>, <<"dev", "tty">>} |-> e[2]],
     entries |-> [e \in {<<"root", "dir">>, <<"dir", "f">>, <<"dir", "g">>, <<"dir", "l">>} |-> e[2]],
     native |-> Nodes \ {"dev", "tty"}, sealed |-> {}]
MCIds == [uid |-> 1, gid |-> 1]
MCData == [n \in {"f", "g"} |-> IF n = "f" THEN <<1>> ELSE Absent]
MCPaths == {[abs |-> FALSE, names |-> <<>>], [abs |-> FALSE, names |-> <<"g">>],
            [abs |-> TRUE, names |-> <<"dir">>], [abs |-> TRUE, names |-> <<"dir", "l">>]}
MCOpenFlags == {{}, {"path", "directory"}, {"write", "create", "exclusive", "cloexec"}, {"update", "append", "truncate", "nonblock"}}
MCStatusFlags == {{}}
MCTexts == {<<>>, <<1>>}
MCSeeks == {<<0, "set">>, <<2, "set">>, <<-1, "set">>, <<-2, "cur">>, <<0, "end">>, <<-1, "end">>}
MCAtFlags == {{}, {"empty", "nofollow"}}
MCWishes == {{"w"}}
=============================================================================
