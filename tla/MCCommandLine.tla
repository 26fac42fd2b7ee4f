---------------------------- MODULE MCCommandLine ----------------------------
(* Lines of every command, with up to MaxNext arguments after its name.    *)
EXTENDS SshConfig

In(e, words, next) == [env |-> e, start |-> [i \in DOMAIN words |-> Word(words[i])], next |-> next]
For(words, next) == In("", words, next)
A == Word("a")
B == Word("b")
One == Word("1")
P == Pair("k", "v")
Both(flags) == {Flag(f) : f \in flags}

(* One that fits each kind of value. *)
MCOthers == {Word("other"), Word("2"), Word("url2"), Pair("other", "2")}

MCTasks == {
  For(<<"exec">>, {A, B, P, Dashes} \cup Both({"--name", "--workdir", "--env", "--help"})),
  For(<<"sandbox", "connect">>, {A, Dashes, Flag("--editor"), Word("cursor"),
                                 FlagIs("--editor", "vscode"), Word("help")}),
  For(<<"sb", "create">>, {A, One, P, Dashes} \cup
                          Both({"--name", "--forward", "--env", "--pids-limit", "-1", "--tty"})),
  For(<<"sandbox", "ls">>, {A, One, FlagIs("--limit", "1"), FlagIs("--ids", "a")} \cup
                           Both({"--ids", "-o", "--output", "--selector"})),
  For(<<"sandbox", "ssh-config">>, {A, B} \cup Both({"--install", "-x"})),
  For(<<"sandbox", "upload">>, {A, B, Flag("-x")}),
  For(<<"sandbox", "template", "create">>, {A, One} \cup Both({"--name", "--cpu", "--provider"})),
  For(<<"ssh-proxy">>, {A, FlagIs("-g", "a"), FlagIs("--name", "b")} \cup
                       Both({"--gateway", "--token", "--sandbox-id", "--name"})),
  For(<<"logs">>, {A, One} \cup Both({"--name", "-n", "-f", "--all", "--since"})),
  For(<<"gw", "add">>, {A, Word("url")} \cup Both({"--name", "--local", "--remote"})),
  For(<<"gateway", "select">>, {A, B}),
  For(<<"gateway", "login">>, {A, Flag("-x")}),
  For(<<"pol", "set">>, {A, B} \cup Both({"--policy", "--global", "-y", "--yes"})),
  For(<<"policy", "get">>, {A, Word("0")} \cup Both({"--rev", "--base", "--full", "--global"})),
  For(<<"policy", "update">>, {A, P} \cup Both({"--add-allow", "--add-deny", "--wait"})),
  For(<<"policy", "list">>, {A, B, Flag("--global")}),
  For(<<"policy", "rm">>, {A, Flag("--global")}),
  For(<<"provider", "create">>, {A, Word("TOKEN"), P, Pair("k", "1")} \cup
                                Both({"--name", "--type", "--credential", "--credential-expires-at"})),
  For(<<"provider", "update">>, {A, Word("TOKEN"), P} \cup Both({"--credential", "--from-existing"})),
  For(<<"provider", "refresh", "configure">>,
      {A, One, Pair("k", "1")} \cup Both({"--credential-key", "--credential-expires-at"})),
  For(<<"provider", "refresh">>, {A, Word("status"), Word("rotate"), Flag("--credential-key")}),
  For(<<"provider">>, {A, Word("profile"), Word("list-profiles"), Word("ls"), Flag("--global")}),
  For(<<"profile", "export">>, {A, FlagIs("--workspace", "a")} \cup Both({"-o", "-f", "--global", "--workspace"})),
  For(<<"profile", "lint">>, {A, B} \cup Both({"-o", "--from", "--global"})),
  For(<<"profile", "delete">>, {A, Flag("--global"), Flag("--workspace")}),
  For(<<"ws", "create">>, {A, Flag("--name")}),
  For(<<"workspace", "member">>, {A, Word("add"), Word("rm"), Word("admin"), Flag("--role"), Flag("--subject")}),
  For(<<"workspace", "member", "add">>, {A, Word("admin")} \cup Both({"--role", "--subject", "--workspace"})),
  For(<<"ws", "member", "rm">>, {A, B, Flag("--role")}),
  For(<<"workspace", "member", "list">>, {A, Flag("--workspace")}),
  For(<<"settings", "set">>, {A, B} \cup Both({"--key", "--value", "--global"})),
  For(<<"settings", "get">>, {A, Flag("--json")}),
  For(<<"settings", "delete">>, {A, B} \cup Both({"--key", "-x"})),
  For(<<"fwd", "start">>, {A, One} \cup Both({"-d", "--background", "-x"})),
  For(<<"forward", "stop">>, {A, One}),
  For(<<"svc", "expose">>, {A, One}),
  For(<<"service">>, {A, B, Word("get"), Word("rm")}),
  For(<<"rule", "get">>, {A, B, Flag("--status")}),
  For(<<"rl", "approve">>, {A, B, Flag("--chunk-id"), Flag("--reason")}),
  For(<<"rule", "reject">>, {A, B, Flag("--chunk-id"), Flag("--reason")}),
  For(<<"rule", "approve-all">>, {A, Flag("--include-security-flagged")}),
  For(<<"inference", "set">>, {A, One} \cup Both({"--provider", "--model", "--timeout"})),
  For(<<"init">>, {A} \cup Both({"--agent", "--force", "-f"})),
  For(<<"doctor">>, {Word("check"), Word("cleanup"), Flag("--yes"), Flag("-y"), Flag("--dry-run")}),
  For(<<"proxy">>, {A} \cup Both({"-l", "--listen", "--policy", "-p"})),
  For(<<"install">>, {A, Flag("--force")}),
  For(<<>>, {A, Word("logs"), Word("url"), FlagIs("-g", "a"), Flag("-g"), Flag("-o"), Flag("--workspace")})
}

(* ... and those that install a host, with the gateway from here and there. *)
SshArgs == {A, Flag("--install")}
MCSshTasks == {
  In("", <<"-g", "b", "sb", "ssh-config">>, SshArgs),
  In("a", <<"-g", "b", "sb", "ssh-config">>, SshArgs),
  In("b", <<"sb", "ssh-config">>, SshArgs),
  In("url2", <<"sb", "ssh-config">>, SshArgs)
}
AllTasks == MCTasks \cup MCSshTasks

MCJobs ==
  {[sandbox |-> s, env |-> "", asked |-> [url |-> "", name |-> n], install |-> TRUE] :
     s \in {A, B}, n \in {"", "b"}}
MCGateways == [current |-> "a", gateways |-> [a |-> "url", b |-> "url2"]]
(* Empty; with a block; and with the Include where only that block has it. *)
Mine == <<Setting, Blank, Host({Word("mine")}), Setting>>
MCUserFiles == {<<>>, Mine, Mine \o <<Include>>}
=============================================================================
