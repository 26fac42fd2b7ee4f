------------------------------- MODULE Osargs -------------------------------
(***************************************************************************)
(* The arguments of the cautem commands: the parsers of                    *)
(* src/internal/osargs, src/internal/providerflags, src/internal/global    *)
(* and those that src/internal/app/cli/cli.go has in line.                 *)
(*                                                                         *)
(* Every parser is the same loop with its own tables.  The tables are the  *)
(* grammars below, the loop is Scan.  An argument is not a string but what *)
(* the parsers tell apart of one: whether it begins with a dash, and what  *)
(* is before and after its first "=".  No argument is the empty string.    *)
(*                                                                         *)
(* A definition introduced by "Variant:" is a deliberately wrong version   *)
(* of the one after it, used by nothing.                                   *)
(***************************************************************************)
EXTENDS Naturals, Sequences, FiniteSets, SequencesExt

CONSTANTS
  HostEnv,  \* names of the variables set in the environment of the command
  Urls,     \* words that look like the URL of a gateway
  Numbers   \* words that are positive numbers

Arg(dash, key, eq, val) == [dash |-> dash, key |-> key, eq |-> eq, val |-> val]
Word(w) == Arg(FALSE, w, FALSE, "")
Pair(k, v) == Arg(FALSE, k, TRUE, v)
Flag(f) == Arg(TRUE, f, FALSE, "")
FlagIs(f, v) == Arg(TRUE, f, TRUE, v)
Dashes == Flag("--")

Args == [dash : BOOLEAN, key : STRING, eq : BOOLEAN, val : STRING]

Times == Numbers \cup {"0", "-1"}

(* What an option's value must be.  A time is written as a number. *)
Fits(kind, a) ==
  CASE kind = "any" -> TRUE
    [] kind = "url" -> ~a.eq /\ a.key \in Urls
    [] kind = "pair" -> a.eq
    [] kind = "positive" -> ~a.eq /\ a.key \in Numbers
    [] kind = "natural" -> ~a.eq /\ a.key \in Numbers \cup {"0"}
    [] kind = "nonzero" -> ~a.eq /\ a.key \in Numbers \cup {"-1"}
    [] kind = "number" -> ~a.eq /\ a.key \in Times
    [] kind = "secret" -> a.eq \/ a.key \in HostEnv
    [] kind = "expiry" -> a.eq /\ a.val \in Times
    [] kind = "time" -> IF a.eq THEN a.val \in Times ELSE a.key \in Times

----------------------------------------------------------------------------
(* Grammars *)

No == [k \in {} |-> "any"]
All(keys, kind) == [k \in keys |-> kind]

(* lead and then: arguments taken as they come, the first of them required; *)
(* value and bare: the flags, with those that also take "=" and those that  *)
(* are another's name; slot and words: where other words go, and how many;  *)
(* sep: "--" ends the arguments; must: what values must be; many: options   *)
(* that add up; needs: of each of these sets one must be given; lax: what   *)
(* the parser does not know is ignored; once: no flag is given twice, no    *)
(* value begins with a dash.                                                *)
Plain ==
  [lead |-> <<>>, then |-> <<>>, value |-> {}, bare |-> {}, eq |-> {}, same |-> No,
   slot |-> "name", words |-> "none", sep |-> FALSE, must |-> No, many |-> {},
   needs |-> {}, lax |-> FALSE, once |-> FALSE]

(* A command that looks at its first arguments only. *)
Takes(lead, then) == [Plain EXCEPT !.lead = lead, !.then = then, !.lax = TRUE]

GatewayAdd ==
  [Plain EXCEPT !.lead = <<"endpoint">>, !.must = All({"endpoint"}, "url"),
     !.value = {"--name", "--remote", "--oidc-issuer", "--oidc-client-id", "--oidc-audience",
                "--oidc-scopes"},
     !.bare = {"--local", "--oidc-allow-insecure-http"}]

PolicySet ==
  [Plain EXCEPT !.value = {"--policy"}, !.bare = {"--wait", "--global", "--yes", "-y"},
     !.same = All({"-y"}, "--yes"), !.words = "once",
     !.needs = {{"--policy"}, {"--global", "name"}}]

PolicyGet ==
  [Plain EXCEPT !.value = {"--rev"}, !.must = All({"--rev"}, "natural"),
     !.bare = {"--full", "--effective", "--base", "--global"},
     !.same = All({"--full", "--effective", "--base"}, "view"), !.words = "once",
     !.needs = {{"--global", "name"}}]

PolicyUpdate ==
  LET specs == {"--add-endpoint", "--add-allow", "--add-deny", "--binary"}
  IN  [Plain EXCEPT !.lead = <<"name">>, !.value = specs, !.many = specs, !.bare = {"--wait"}]

PolicyList ==
  [Plain EXCEPT !.bare = {"--global"}, !.words = "last", !.needs = {{"--global", "name"}}]

PolicyDelete == [Plain EXCEPT !.bare = {"--global"}, !.lax = TRUE, !.needs = {{"--global"}}]

ForwardStart ==
  [Plain EXCEPT !.lead = <<"port">>, !.bare = {"-d", "--background"},
     !.same = All({"-d"}, "--background"), !.words = "once", !.needs = {{"name"}}]

ForwardStop == Takes(<<"port">>, <<"name">>)
ServiceExpose == Takes(<<"sandbox", "port">>, <<"service">>)
SandboxTransfer == Takes(<<"name", "path">>, <<"dest">>)

SettingsSet ==
  [Plain EXCEPT !.value = {"--key", "--value"}, !.bare = {"--global"}, !.words = "once",
     !.needs = {{"--key"}, {"--value"}}]

SettingsGet == [Plain EXCEPT !.bare = {"--global", "--json"}, !.words = "last"]

SettingsDelete ==
  [Plain EXCEPT !.value = {"--key"}, !.bare = {"--global"}, !.slot = "--key",
     !.words = "first", !.lax = TRUE, !.needs = {{"--key"}}]

InferenceSet ==
  [Plain EXCEPT !.value = {"--provider", "--model", "--timeout"}, !.bare = {"--no-verify"},
     !.must = All({"--timeout"}, "natural"), !.needs = {{"--provider"}, {"--model"}}]

Logs ==
  [Plain EXCEPT !.value = {"-n", "--since", "--source", "--level", "--name"},
     !.bare = {"--tail", "--follow", "-f", "--all"},
     !.same = All({"--follow", "-f"}, "--tail"), !.must = All({"-n"}, "natural"),
     !.slot = "--name", !.words = "once", !.needs = {{"--all", "--name"}}]

SandboxExec ==
  [Plain EXCEPT !.value = {"--name", "--workdir", "--env"}, !.must = All({"--env"}, "pair"),
     !.many = {"--env"}, !.slot = "--name", !.words = "command", !.sep = TRUE,
     !.needs = {{"--name"}, {"--"}}]

SSHProxy ==
  LET flags == {"--gateway", "--server", "--gateway-name", "-g", "--sandbox-id", "--token",
                "--name"}
  IN  [Plain EXCEPT !.value = flags, !.eq = flags, !.same = All({"-g"}, "--gateway-name"),
         !.slot = "--name", !.words = "once", !.needs = {{"--token", "--name"}}]

SandboxConnect ==
  [Plain EXCEPT !.value = {"--editor"}, !.eq = {"--editor"}, !.words = "once", !.sep = TRUE,
     !.needs = {{"name"}}]

SandboxSSHConfig ==
  [Plain EXCEPT !.bare = {"--install"}, !.words = "once", !.needs = {{"name"}}]

SandboxCreate ==
  LET adding == {"--label", "--cdi", "--provider", "--env", "--forward"}
  IN  [Plain EXCEPT
         !.value = adding \cup
           {"--name", "--image", "--workspace", "--policy", "--display", "--display-port",
            "--gateway", "--from", "--editor", "--upload", "--cpu", "--memory",
            "--pids-limit", "--template", "--driver-config-json", "--approval-mode"},
         !.bare = {"--i-know", "--no-proxy", "--no-harden", "--open-display", "--gpu",
                   "--no-volume", "--no-host-internal", "--auto-providers",
                   "--no-auto-providers", "--no-credential-warnings", "--detach",
                   "--no-keep", "--tty"},
         !.many = adding, !.sep = TRUE,
         !.must = All({"--label", "--env"}, "pair") @@ All({"--pids-limit"}, "nonzero") @@
                  All({"--display-port", "--forward", "--cpu"}, "positive")]

SandboxList ==
  LET values == {"--limit", "--offset", "--selector", "-o", "--output"}
      bare == {"--ids", "--names", "--all-workspaces"}
  IN  [Plain EXCEPT !.value = values, !.bare = bare, !.eq = values \cup bare, !.once = TRUE,
         !.same = All({"-o"}, "--output"), !.must = All({"--limit", "--offset"}, "natural")]

TemplateCreate ==
  [Plain EXCEPT !.value = {"--name", "--image", "--from", "--policy", "--cpu", "--memory",
                           "--pids-limit", "--provider"},
     !.many = {"--provider"}, !.needs = {{"--name"}},
     !.must = All({"--cpu"}, "number") @@ All({"--pids-limit"}, "nonzero")]

ProviderCreate ==
  [Plain EXCEPT !.value = {"--name", "--type", "--config", "--credential-expires-at", "--env",
                           "--credential"},
     !.bare = {"--from-existing", "--from-oidc-token", "--from-gcloud-adc",
               "--runtime-credentials"},
     !.many = {"--config", "--credential-expires-at", "--env", "--credential"},
     !.must = All({"--config"}, "pair") @@ All({"--credential-expires-at"}, "expiry") @@
              All({"--credential"}, "secret"),
     !.needs = {{"--name"}, {"--type"}}]

ProviderUpdate ==
  [Plain EXCEPT !.lead = <<"name">>, !.value = {"--credential"}, !.many = {"--credential"},
     !.must = All({"--credential"}, "secret"), !.bare = {"--from-existing"}]

RefreshConfigure ==
  [Plain EXCEPT !.lead = <<"name">>,
     !.value = {"--credential-key", "--strategy", "--material", "--credential-expires-at"},
     !.many = {"--material"},
     !.must = All({"--material"}, "pair") @@ All({"--credential-expires-at"}, "time")]

RefreshKey ==
  [Plain EXCEPT !.lead = <<"name">>, !.value = {"--credential-key"},
     !.needs = {{"--credential-key"}}]

(* parseProfileScope takes its flags out of the arguments, wherever they     *)
(* are, and leaves the others to parseProfileIO.                             *)
ProfileScope ==
  [Plain EXCEPT !.value = {"--workspace"}, !.eq = {"--workspace"}, !.bare = {"--global"},
     !.same = All({"--workspace", "--global"}, "scope"), !.slot = "rest", !.words = "any",
     !.many = {"rest"}]

ProfileIO ==
  LET path == {"-f", "--file", "--url", "--from"}
  IN  [Plain EXCEPT !.value = path \cup {"-o", "--output"},
         !.same = All(path, "path") @@ All({"-o"}, "--output"),
         !.slot = "path", !.words = "first"]

WorkspaceCreate ==
  [Plain EXCEPT !.value = {"--name"}, !.slot = "--name", !.words = "once",
     !.needs = {{"--name"}}]

WorkspaceMember ==
  [Plain EXCEPT !.value = {"--workspace", "--subject", "--role"}, !.slot = "words",
     !.words = "list", !.many = {"words"}]

MemberList ==
  [Plain EXCEPT !.value = {"--workspace"}, !.slot = "--workspace", !.words = "last",
     !.needs = {{"--workspace"}}]

RuleGet == [Plain EXCEPT !.value = {"--status"}, !.words = "last"]
RuleApproveAll == [Plain EXCEPT !.bare = {"--include-security-flagged"}, !.words = "once"]

RuleAction ==
  [Plain EXCEPT !.value = {"--chunk-id", "--reason"}, !.slot = "--chunk-id",
     !.words = "first", !.needs = {{"--chunk-id"}}]

InitAgent ==
  [Plain EXCEPT !.value = {"--agent", "--dir"}, !.bare = {"--force", "-f"},
     !.same = All({"-f"}, "--force"), !.needs = {{"--agent"}}]

DoctorCleanup ==
  [Plain EXCEPT !.bare = {"--yes", "-y", "--dry-run"}, !.same = All({"-y"}, "--yes")]

Proxy ==
  [Plain EXCEPT !.value = {"--listen", "-l", "--policy", "-p", "--ca-out", "--gateway",
                           "--sandbox", "--log-dir"},
     !.same = [f \in {"-l", "-p"} |-> IF f = "-l" THEN "--listen" ELSE "--policy"],
     !.needs = {{"--policy"}}]

InstallSelf == [Plain EXCEPT !.bare = {"--force"}]

(* The flags before the command; the command is what follows them. *)
Globals ==
  LET flags == {"-g", "--gateway", "--workspace", "-o", "--output"}
  IN  [Plain EXCEPT !.value = flags, !.eq = flags, !.words = "stop",
         !.same = All({"-g"}, "--gateway") @@ All({"-o"}, "--output")]

----------------------------------------------------------------------------
(* The loop *)

(* What has been read: the arguments in groups, one for each option, word   *)
(* or command; a flag that waits for its value; whether an error ended it.  *)
NoFlag == Word("")
Nothing == [groups |-> <<>>, open |-> NoFlag, refused |-> FALSE]

Group(key, args) == [key |-> key, args |-> args]

(* The elements of a sequence that pass a test, in their order. *)
Picked(s, Passes(_)) == FlattenSeq([i \in DOMAIN s |-> IF Passes(s[i]) THEN <<s[i]>> ELSE <<>>])

Given(r, key) == Picked(r.groups, LAMBDA gr : gr.key = key)
Has(r, key) == Given(r, key) # <<>>
Taken(r, key, args) == [r EXCEPT !.groups = Append(@, Group(key, args)), !.open = NoFlag]
Refuse(r) == [r EXCEPT !.refused = TRUE]
InCommand(r) == r.groups # <<>> /\ Last(r.groups).key = "--"

Key(g, f) == IF f \in DOMAIN g.same THEN g.same[f] ELSE f
Must(g, key) == IF key \in DOMAIN g.must THEN g.must[key] ELSE "any"

TakeValue(g, r, key, args, value) ==
  IF Fits(Must(g, key), value) THEN Taken(r, key, args) ELSE Refuse(r)

Repeats(g, r, a) ==
  g.once /\ \E i \in DOMAIN r.groups : r.groups[i].args[1].key = a.key

(* Variant: flags are read only before the first word. *)
ReadFlagBefore(g, r, a) ==
  IF Has(r, g.slot) \/ Repeats(g, r, a) THEN Refuse(r)
  ELSE IF a.key \in g.bare THEN Taken(r, Key(g, a.key), <<a>>)
  ELSE IF a.eq THEN TakeValue(g, r, Key(g, a.key), <<a>>, Word(a.val))
  ELSE [r EXCEPT !.open = a]

ReadFlag(g, r, a) ==
  IF Repeats(g, r, a) THEN Refuse(r)
  ELSE IF a.key \in g.bare THEN Taken(r, Key(g, a.key), <<a>>)
  ELSE IF a.eq THEN TakeValue(g, r, Key(g, a.key), <<a>>, Word(a.val))
  ELSE [r EXCEPT !.open = a]

ReadWord(g, r, a) ==
  IF g.words \in {"last", "list", "any"} \/ ~Has(r, g.slot) THEN Taken(r, g.slot, <<a>>)
  ELSE IF g.words = "command" THEN Taken(r, "--", <<a>>)
  ELSE IF g.words = "first" THEN r ELSE Refuse(r)

Known(g, a) == a.dash /\ a.key \in g.value \cup g.bare /\ (a.eq => a.key \in g.eq)
Accepts(g, a) == g.words = "any" \/ (g.words \notin {"none", "stop"} /\ ~a.dash)

(* One round of the loop. *)
Read(g, r, a) ==
  LET n == Len(r.groups)
      first == g.lead \o g.then
  IN  IF r.refused THEN r
      ELSE IF r.open # NoFlag
      THEN IF g.once /\ a.dash THEN Refuse(r)
           ELSE TakeValue(g, r, Key(g, r.open.key), <<r.open, a>>, a)
      ELSE IF InCommand(r) THEN [r EXCEPT !.groups[n].args = Append(@, a)]
      ELSE IF n < Len(first) THEN TakeValue(g, r, first[n + 1], <<a>>, a)
      ELSE IF g.sep /\ a = Dashes THEN Taken(r, "--", <<a>>)
      ELSE IF Known(g, a) THEN ReadFlag(g, r, a)
      ELSE IF Accepts(g, a) THEN ReadWord(g, r, a)
      ELSE IF g.words = "stop" THEN Taken(r, "--", <<a>>)
      ELSE IF g.lax THEN r ELSE Refuse(r)

Scan(g, args) ==
  LET after[n \in 0 .. Len(args)] == IF n = 0 THEN Nothing ELSE Read(g, after[n - 1], args[n])
  IN  after[Len(args)]

(* What the parser makes of the groups *)

(* The arguments after "--", or from the second word on. *)
Command(r) ==
  IF ~InCommand(r) THEN <<>>
  ELSE LET args == Last(r.groups).args IN IF args[1] = Dashes THEN Tail(args) ELSE args

ValueOf(gr) ==
  IF gr.key = "--" THEN gr.args
  ELSE IF Len(gr.args) = 2 THEN gr.args[2]
  ELSE IF gr.args[1].dash /\ gr.args[1].eq THEN Word(gr.args[1].val) ELSE gr.args[1]

Values(r, key) == LET given == Given(r, key) IN [i \in DOMAIN given |-> ValueOf(given[i])]

(* The last one counts. *)
Value(r, key) == IF Has(r, key) THEN Last(Values(r, key)) ELSE NoFlag

Complete(g, r) ==
  /\ ~r.refused /\ r.open = NoFlag
  /\ Len(r.groups) >= Len(g.lead)
  /\ \A keys \in g.needs :
       \E key \in keys : IF key = "--" THEN Command(r) # <<>> ELSE Has(r, key)
=============================================================================
