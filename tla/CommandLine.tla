----------------------------- MODULE CommandLine -----------------------------
(***************************************************************************)
(* A cautem command from the line that is typed to the call of its handler *)
(* (Execute and execute in src/internal/app/cli/cli.go, help.go, and       *)
(* ApplyGlobal in src/internal/service/session.go).  Execute takes the     *)
(* global flags off the front, prints a help text when one is asked for,   *)
(* finds the command, parses its arguments and calls its handler.          *)
(*                                                                         *)
(* Usage texts, and the commands that take no arguments, are left out.     *)
(***************************************************************************)
EXTENDS Osargs

CONSTANTS
  Tasks,   \* what users set out to type, and where:
           \* [env : Environs, start : arguments, next : a set of arguments]
  MaxNext, \* how many arguments they type after the start
  Others,  \* arguments they might have typed in the place of one
  Names,   \* names of gateways
  Environs \* what OPENSHELL_GATEWAY may be: a URL, a name, or "" when it is not set

ASSUME LineAssumption ==
  /\ MaxNext \in Nat /\ "" \notin Urls \cup Names /\ Names \cap Urls = {}
  /\ Environs \subseteq Names \cup Urls \cup {""} /\ \A t \in Tasks : t.env \in Environs

ASSUME TaskAssumption == \A t \in Tasks : t.start \in Seq(Args) /\ t.next \subseteq Args

----------------------------------------------------------------------------
(* The commands *)

Is(op, path, grammar) == [op |-> op, path |-> path, grammar |-> grammar]
Top(op, x, g) == Is(op, <<x>>, g)
Sub(op, x, y, g) == Is(op, <<x, y>>, g)
Deep(op, x, y, z, g) == Is(op, <<x, y, z>>, g)
Ls == {"list", "ls"}
Rm == {"delete", "rm"}
NameOnly == Takes(<<"name">>, <<>>)
Anything == Takes(<<>>, <<>>)
General == {"version", "health", "status", "term", "whoami"}

TopCommands ==
  LET doctor == {"doctor", "dr"}
  IN  { Top("health", General, Anything),
        Top("init", {"init"}, InitAgent),
        Top("doctor", doctor, Plain),
        Sub("doctor", doctor, {"check"}, Anything),
        Sub("doctor.cleanup", doctor, {"cleanup"}, DoctorCleanup),
        Top("exec", {"exec"}, SandboxExec),
        Top("logs", {"logs", "lg"}, Logs),
        Top("ssh-proxy", {"ssh-proxy"}, SSHProxy),
        Top("proxy", {"proxy"}, Proxy),
        Top("completions", {"completions"}, Takes(<<"shell">>, <<>>)),
        Top("install", {"install"}, InstallSelf) }

SandboxCommands ==
  LET sb == {"sandbox", "sb"}
  IN  { Sub("sandbox.create", sb, {"create"}, SandboxCreate),
        Sub("sandbox.list", sb, Ls, SandboxList),
        Sub("sandbox.get", sb, {"get", "status"}, NameOnly),
        Sub("sandbox.stop", sb, {"stop"}, NameOnly),
        Sub("sandbox.start", sb, {"start"}, NameOnly),
        Sub("sandbox.rm", sb, {"rm", "remove", "delete"}, NameOnly),
        Sub("exec", sb, {"exec"}, SandboxExec),
        Sub("sandbox.copy", sb, {"upload", "download"}, SandboxTransfer),
        Sub("sandbox.ssh-config", sb, {"ssh-config"}, SandboxSSHConfig),
        Sub("sandbox.connect", sb, {"connect"}, SandboxConnect),
        Deep("template.create", sb, {"template"}, {"create"}, TemplateCreate),
        Deep("template.list", sb, {"template"}, Ls, Anything),
        Deep("template.get", sb, {"template"}, {"get"}, NameOnly),
        Deep("template.rm", sb, {"template"}, Rm, NameOnly),
        Deep("provider.of", sb, {"provider"}, Ls, NameOnly),
        Deep("provider.attach", sb, {"provider"}, {"attach"}, Takes(<<"name", "provider">>, <<>>)),
        Deep("provider.detach", sb, {"provider"}, {"detach"}, Takes(<<"name", "provider">>, <<>>)) }

GatewayCommands ==
  LET gw == {"gateway", "gw"}
  IN  { Sub("gateway.ensure", gw, {"ensure", "status", "info", "list", "ls", "logout"}, Anything),
        Sub("gateway.add", gw, {"add"}, GatewayAdd),
        Sub("gateway.rm", gw, {"remove", "rm", "delete"}, NameOnly),
        Sub("gateway.select", gw, {"select"}, Takes(<<>>, <<"name">>)),
        Sub("gateway.login", gw, {"login"}, Takes(<<>>, <<"token">>)) }

PolicyCommands ==
  LET pol == {"policy", "pol"}
  IN  { Sub("policy.check", pol, {"check"}, Takes(<<>>, <<"path">>)),
        Sub("policy.get", pol, {"get"}, PolicyGet),
        Sub("policy.set", pol, {"set"}, PolicySet),
        Sub("policy.update", pol, {"update"}, PolicyUpdate),
        Sub("policy.list", pol, Ls, PolicyList),
        Sub("policy.rm", pol, Rm, PolicyDelete) }

ProviderCommands ==
  LET provider == {"provider"}
      refresh == {"refresh"}
  IN  { Sub("profile.list", provider, {"list-profiles"}, ProfileScope),
        Sub("provider.create", provider, {"create"}, ProviderCreate),
        Sub("provider.update", provider, {"update"}, ProviderUpdate),
        Sub("provider.get", provider, {"get", "effective"}, NameOnly),
        Sub("provider.rm", provider, Rm, NameOnly),
        Sub("provider.list", provider, Ls, Anything),
        Sub("provider.refresh", provider, refresh, NameOnly),
        Deep("provider.refresh.status", provider, refresh, {"status"}, NameOnly),
        Deep("provider.refresh.configure", provider, refresh, {"configure"}, RefreshConfigure),
        Deep("provider.refresh.key", provider, refresh, {"rotate", "delete"}, RefreshKey) }

ProfileCommands ==
  LET Both(op, words) == { Sub(op, {"profile"}, words, ProfileScope),
                           Deep(op, {"provider"}, {"profile"}, words, ProfileScope) }
  IN  Both("profile.list", Ls) \cup Both("profile.show", {"show", "describe", "export"}) \cup
      Both("profile.file", {"import", "update"}) \cup Both("profile.lint", {"lint"}) \cup
      Both("profile.rm", {"delete"})

WorkspaceCommands ==
  LET ws == {"workspace", "ws"}
      member == {"member"}
  IN  { Sub("workspace.create", ws, {"create"}, WorkspaceCreate),
        Sub("workspace.get", ws, {"get"}, NameOnly),
        Sub("workspace.list", ws, Ls, Anything),
        Sub("workspace.rm", ws, Rm, NameOnly),
        Deep("member.add", ws, member, {"add"}, WorkspaceMember),
        Deep("member.rm", ws, member, {"remove", "rm"}, WorkspaceMember),
        Deep("member.list", ws, member, Ls, MemberList) }

StoreCommands ==
  { Sub("settings.get", {"settings"}, {"get"}, SettingsGet),
    Sub("settings.set", {"settings"}, {"set"}, SettingsSet),
    Sub("settings.rm", {"settings"}, Rm, SettingsDelete),
    Sub("forward.start", {"forward", "fwd"}, {"start"}, ForwardStart),
    Sub("forward.stop", {"forward", "fwd"}, {"stop"}, ForwardStop),
    Sub("forward.list", {"forward", "fwd"}, Ls, Anything),
    Sub("service.expose", {"service", "svc"}, {"expose"}, ServiceExpose),
    Sub("service.list", {"service", "svc"}, Ls, Anything),
    Sub("service.get", {"service", "svc"}, {"get"} \cup Rm, Takes(<<"sandbox">>, <<"service">>)),
    Sub("rule.get", {"rule", "rl"}, {"get"} \cup Ls, RuleGet),
    Sub("rule.history", {"rule", "rl"}, {"history"}, Takes(<<>>, <<"name">>)),
    Sub("rule.approve", {"rule", "rl"}, {"approve"}, RuleAction),
    Sub("rule.reject", {"rule", "rl"}, {"reject"}, RuleAction),
    Sub("rule.approve-all", {"rule", "rl"}, {"approve-all"}, RuleApproveAll),
    Sub("rule.clear", {"rule", "rl"}, {"clear"}, Anything),
    Sub("inference.set", {"inference"}, {"set", "update"}, InferenceSet),
    Sub("inference.show", {"inference"}, {"show"}, Takes(<<>>, <<"path">>)),
    Sub("inference.get", {"inference"}, {"get", "local"} \cup Ls \cup Rm, Anything) }

Commands ==
  TopCommands \cup SandboxCommands \cup GatewayCommands \cup PolicyCommands \cup
  ProviderCommands \cup ProfileCommands \cup WorkspaceCommands \cup StoreCommands

Starts(path, args) ==
  /\ Len(args) >= Len(path)
  /\ \A i \in DOMAIN path : args[i] \in {Word(w) : w \in path[i]}

(* The command is the one that matches most of the first arguments. *)
Matching(args) ==
  LET fit == {c \in Commands : Starts(c.path, args)}
  IN  {c \in fit : \A d \in fit : Len(d.path) <= Len(c.path)}

Matched(args) == CHOOSE c \in Matching(args) : TRUE
After(c, args) == SubSeq(args, Len(c.path) + 1, Len(args))

----------------------------------------------------------------------------
(* What a command is called with *)


(* parseWorkspaceMemberFlags: what no flag gives, the words give in order. *)
Member(r) ==
  LET words == Values(r, "words")
      after == IF Has(r, "--workspace") THEN words ELSE Tail(words)
  IN  [workspace |-> IF Has(r, "--workspace") THEN Value(r, "--workspace") ELSE words[1],
       subject |-> IF Has(r, "--subject") THEN Value(r, "--subject") ELSE after[1],
       role |-> IF Has(r, "--role") THEN Value(r, "--role") ELSE Word("user")]

MemberMissing(r) == {"--workspace", "--subject"} \ {r.groups[i].key : i \in DOMAIN r.groups}
MemberGiven(r) == Len(Given(r, "words")) >= Cardinality(MemberMissing(r))

(* ParseRefreshConfigure: the key may come with the first expiry that names one. *)
Keyed(r) == Picked(Values(r, "--credential-expires-at"), LAMBDA a : a.eq)
CredentialKey(r) ==
  IF Has(r, "--credential-key") \/ Keyed(r) = <<>> THEN Value(r, "--credential-key")
  ELSE Word(Head(Keyed(r)).key)

Inner(r) == Scan(ProfileIO, Values(r, "rest"))
ProfileGiven(op, r) ==
  CASE op = "profile.list" -> ~Has(r, "rest")
    [] op = "profile.rm" -> Len(Given(r, "rest")) = 1
    [] OTHER -> Complete(ProfileIO, Inner(r)) /\ Has(Inner(r), "path")

Profile == {"profile.list", "profile.show", "profile.file", "profile.lint", "profile.rm"}

(* What the parsers and the commands refuse besides. *)
Sensible(op, r) ==
  CASE op = "ssh-proxy" ->
         Has(r, "--token") => /\ Has(r, "--sandbox-id") \/ Has(r, "--name")
                              /\ \/ Has(r, "--gateway") \/ Has(r, "--server")
                                 \/ Has(r, "--gateway-name")
    [] op = "sandbox.connect" ->
         Has(r, "--editor") => /\ Value(r, "--editor") \in {Word("vscode"), Word("cursor")}
                               /\ Command(r) = <<>>
    [] op = "sandbox.list" ->
         ~(Has(r, "--ids") /\ Has(r, "--names")) /\
         (Has(r, "--ids") \/ Has(r, "--names") => ~Has(r, "--output"))
    [] op = "doctor.cleanup" -> ~(Has(r, "--yes") /\ Has(r, "--dry-run"))
    [] op \in {"member.add", "member.rm"} ->
         /\ MemberGiven(r)
         /\ op = "member.add" => Member(r).role \in {Word("user"), Word("admin")}
    [] op = "provider.refresh.configure" -> CredentialKey(r) # NoFlag
    [] op \in Profile -> ProfileGiven(op, r)
    [] OTHER -> TRUE

(* What the parser has found. *)
Fields(g, r) ==
  [key \in {r.groups[i].key : i \in DOMAIN r.groups} |->
     IF key = "--" THEN Command(r) ELSE IF key \in g.many THEN Values(r, key) ELSE Value(r, key)]

(* What is parsed and then not passed on. *)
Unread(op, r) ==
  CASE op = "settings.get" -> {"--global", "--json"}
    [] op = "settings.set" -> {"name", "--global"}
    [] op = "settings.rm" -> {"--global"}
    [] op = "rule.approve" -> {"--reason"}
    [] op = "logs" -> {"-n"}
    [] op = "service.get" -> {"sandbox"}
    [] op = "doctor.cleanup" -> {"--dry-run"}
    [] op = "gateway.login" -> IF Value(r, "token").dash THEN {"token"} ELSE {}
    [] op = "ssh-proxy" -> IF Has(r, "--gateway") THEN {"--server"} ELSE {}
    [] op = "policy.set" -> {"--yes"} \cup IF Has(r, "--global") THEN {"name", "--wait"} ELSE {}
    [] op = "policy.list" -> IF Has(r, "--global") THEN {"name"} ELSE {}
    [] op = "policy.get" ->
         IF Has(r, "--global") THEN {"name", "--rev", "view"}
         ELSE IF Value(r, "--rev") \notin {NoFlag, Word("0")} THEN {"view"}
         ELSE {"--rev"} \cup IF Value(r, "view") = Flag("--base") THEN {} ELSE {"view"}
    [] OTHER -> {}

(* Pairs that are kept in a map: the last one with a name counts. *)
Mapped == {"pair", "secret", "expiry"}
AsMap(pairs) ==
  [k \in {pairs[i].key : i \in DOMAIN pairs} |-> Last(Picked(pairs, LAMBDA a : a.key = k))]

(* A value as it is passed on. *)
Handed(op, g, key, value) ==
  IF op = "provider.refresh.configure" /\ key = "--credential-expires-at"
  THEN Word(IF value.eq THEN value.val ELSE value.key)
  ELSE IF op = "sandbox.list" /\ key \in g.bare THEN Flag(key)
  ELSE IF key \in g.many /\ Must(g, key) \in Mapped THEN AsMap(value) ELSE value

Passed(op, g, r) ==
  [key \in DOMAIN Fields(g, r) \ Unread(op, r) |-> Handed(op, g, key, Fields(g, r)[key])]

Removed(r) == [key \in {"workspace", "subject"} |-> Member(r)[key]]

Meaning(op, g, r) ==
  CASE op = "member.add" -> Member(r)
    [] op = "member.rm" -> Removed(r)
    [] op = "provider.refresh.configure" -> <<Passed(op, g, r), CredentialKey(r)>>
    [] op = "profile.show" -> <<Value(r, "scope"), Fields(ProfileIO, Inner(r))>>
    [] op = "profile.file" -> <<Value(r, "scope"), Value(Inner(r), "path")>>
    [] op = "profile.lint" -> Value(Inner(r), "path")
    [] OTHER -> Passed(op, g, r)

----------------------------------------------------------------------------
(* Execute *)

(* global.Parse and ApplyGlobal.  A flag without a value at the end of the  *)
(* line is passed over; a URL takes the place of a name, unless it is given *)
(* with "=".                                                                *)
Applied(gateway, gr) ==
  LET value == ValueOf(gr).key
  IN  IF gr.key # "--gateway" THEN gateway
      ELSE IF value \notin Urls THEN [gateway EXCEPT !.name = value]
      ELSE [url |-> value, name |-> IF Len(gr.args) = 2 THEN "" ELSE gateway.name]

FromEnviron(env) ==
  [url |-> IF env \in Urls THEN env ELSE "", name |-> IF env \in Urls THEN "" ELSE env]

GatewayAsked(env, globals) ==
  LET after[n \in 0 .. Len(globals.groups)] ==
        IF n = 0 THEN FromEnviron(env) ELSE Applied(after[n - 1], globals.groups[n])
  IN  after[Len(globals.groups)]

(* wantsHelp *)
HelpWords == {Flag("-h"), Flag("--help"), Word("help")}
WantsHelp(args) == \E i \in DOMAIN args : args[i] \in HelpWords

(* What follows the global flags. *)
Rest(typed) ==
  LET r == Scan(Globals, typed) IN IF InCommand(r) THEN Last(r.groups).args ELSE <<>>

(* What comes of a line: a help text, a list of commands, an error, or a   *)
(* handler called with what it needs.                                      *)
Ends(how) == [how |-> how, op |-> "", meaning |-> <<>>, groups |-> <<>>]

Called(args) ==
  IF Matching(args) = {} THEN Ends("refused")
  ELSE LET c == Matched(args)
           r == Scan(c.grammar, After(c, args))
       IN  IF Complete(c.grammar, r) /\ Sensible(c.op, r)
           THEN [how |-> "called", op |-> c.op, meaning |-> Meaning(c.op, c.grammar, r),
                 groups |-> r.groups]
           ELSE Ends("refused")

Executed(typed) ==
  LET args == Rest(typed)
  IN  IF WantsHelp(args) THEN Ends("help")
      ELSE IF args = <<>> THEN Ends("banner") ELSE Called(args)

----------------------------------------------------------------------------
(* A user types a line *)

VARIABLES
  task,    \* what the user sets out to type
  line,    \* what has been typed
  outcome  \* what has come of it

typing == <<task, line, outcome>>
Typing == Ends("")

Init ==
  /\ task \in Tasks
  /\ line = task.start
  /\ outcome = Typing

Type(a) ==
  /\ outcome = Typing /\ Len(line) < Len(task.start) + MaxNext
  /\ line' = Append(line, a)
  /\ UNCHANGED <<task, outcome>>

Enter ==
  /\ outcome = Typing
  /\ outcome' = Executed(line)
  /\ UNCHANGED <<task, line>>

Next == Enter \/ \E a \in task.next : Type(a)
Spec == Init /\ [][Next]_typing

----------------------------------------------------------------------------
(* Properties *)

Flattened(groups) == FlattenSeq([i \in DOMAIN groups |-> groups[i].args])

(* A line with one argument left out, or with another in its place. *)
Without(args, k) == SubSeq(args, 1, k - 1) \o SubSeq(args, k + 1, Len(args))
Instead(args, k, a) == [args EXCEPT ![k] = a]

(* What the k-th argument has become: nothing, the start of an option, the  *)
(* end of a group or a part of the command.                                 *)
ReadTo(c, args, k) == Scan(c.grammar, SubSeq(args, 1, k))
PassedOver(c, args, k) == ReadTo(c, args, k) = ReadTo(c, args, k - 1)
GroupOf(c, args, k) == Last(ReadTo(c, args, k).groups)
IsBare(c, gr) == gr.args[1].dash /\ gr.args[1].key \in c.grammar.bare /\ Key(c.grammar, gr.args[1].key) = gr.key

Edits(c, args, k) ==
  LET gr == GroupOf(c, args, k)
      a == args[k]
  IN  IF IsBare(c, gr) THEN {Without(args, k)}
      ELSE IF Len(gr.args) = 1 /\ gr.key # "--" /\ a.dash /\ a.eq
      THEN {Instead(args, k, FlagIs(a.key, b.key)) : b \in {o \in Others : o.key # a.val}}
      ELSE {Instead(args, k, b) : b \in Others \ {a}}

(* The same option is given again, in another group. *)
GivenAgain(c, args, k) ==
  LET gr == GroupOf(c, args, k)
      n == Len(ReadTo(c, args, k).groups)
      groups == Scan(c.grammar, args).groups
  IN  \E i \in DOMAIN groups :
        /\ i # n /\ groups[i].key = gr.key /\ (i > n \/ IsBare(c, gr))
        /\ gr.key \in c.grammar.many =>
             /\ Must(c.grammar, gr.key) \in Mapped
             /\ ValueOf(groups[i]).key = ValueOf(gr).key

(* The options that are parsed and make no difference: settings have one    *)
(* scope whatever --global says, get no --json and set no name; approve     *)
(* has no reason, logs no number of lines, service get and delete no        *)
(* sandbox; --dry-run and --yes ask for what is done anyway; lint is for no *)
(* workspace, and a member is removed whatever the role.  Beside --global   *)
(* policy has no name, no --wait and no revision, and a view only without   *)
(* revision; --gateway hides --server; login skips a dash.  What            *)
(* parseProfileIO makes of the words left to it is not looked into.         *)
Excused(op, gr, r) ==
  \/ <<op, gr.key>> \in
       {<<"settings.get", "--global">>, <<"settings.get", "--json">>, <<"settings.set", "--global">>,
        <<"settings.set", "name">>, <<"settings.rm", "--global">>, <<"rule.approve", "--reason">>,
        <<"logs", "-n">>, <<"service.get", "sandbox">>, <<"doctor.cleanup", "--dry-run">>,
        <<"policy.set", "--yes">>, <<"profile.lint", "scope">>, <<"member.rm", "--role">>}
  \/ op \in {"policy.get", "policy.set", "policy.list"} /\ Has(r, "--global")
  \/ op = "policy.get" /\ gr.key = "view"
  \/ op = "ssh-proxy" /\ gr.key = "--server" /\ Has(r, "--gateway")
  \/ op = "gateway.login" /\ ValueOf(gr).dash
  \/ op \in Profile /\ gr.key = "rest"

TooManyWords(sofar, r) == Len(Given(sofar, "words")) > Cardinality(MemberMissing(r))


(* Options may be typed in any order, before or after the words: neighbours *)
(* of different kinds can change places and the handler is called with the  *)
(* same.                                                                    *)
Moves(c, gr) == gr.key # "--" /\ \A i \in DOMAIN (c.grammar.lead \o c.grammar.then) :
                                   gr.key # (c.grammar.lead \o c.grammar.then)[i]

Exchanged(groups, i) ==
  [j \in DOMAIN groups |-> IF j = i THEN groups[i + 1] ELSE IF j = i + 1 THEN groups[i] ELSE groups[j]]

OrderFree ==
  outcome.how = "called" =>
    LET args == Rest(line)
        c == Matched(args)
        gs == outcome.groups
    IN  \A i \in 1 .. Len(gs) - 1 :
          Moves(c, gs[i]) /\ Moves(c, gs[i + 1]) /\ gs[i].key # gs[i + 1].key =>
            LET other == Called(SubSeq(args, 1, Len(c.path)) \o Flattened(Exchanged(gs, i)))
            IN  other.op = outcome.op /\ other.meaning = outcome.meaning

(* A line that hands a command to a sandbox runs it: "cautem exec [--name]   *)
(* NAME -- COMMAND [ARG ...]" (src/internal/app/cli/help.go:268).            *)
CommandsRun ==
  outcome.how = "help" =>
    LET handed == [Nothing EXCEPT !.groups = Called(Rest(line)).groups] IN Command(handed) = <<>>
=============================================================================
