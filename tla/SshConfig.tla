------------------------------ MODULE SshConfig ------------------------------
(***************************************************************************)
(* How a sandbox becomes a host for ssh(1): cautem sandbox ssh-config and  *)
(* connect (src/internal/service/ssh_connect.go), which write a Host block *)
(* into a file of cautem's and an Include of it into the user's own        *)
(* (src/internal/sshconfig/sshconfig.go), and the command ssh runs to reach *)
(* the host, cautem ssh-proxy.                                             *)
(*                                                                         *)
(* One terminal types the command lines of CommandLine; others are given   *)
(* jobs.  Each replaces whole files, with nothing locked; the gateways are *)
(* changed by other commands meanwhile (see GatewayConfig).                *)
(*                                                                         *)
(* A file is a sequence of lines without the blank ones at its end.  Of a  *)
(* block only the Host line and what comes of its ProxyCommand are kept.   *)
(* Quoting is left out.                                                    *)
(***************************************************************************)
EXTENDS CommandLine

CONSTANTS
  Terminals,
  Typist,     \* the terminal whose user types
  Jobs,       \* what the others do: [sandbox, env, asked, install]
  Gateways,   \* the gateways file at first
  UserFiles,  \* what the user may write as their file
  MaxChanges  \* how often the gateways and the user's file are changed

Blank == [kind |-> "blank"]
Include == [kind |-> "include"]
Setting == [kind |-> "setting"]
Host(names) == [kind |-> "host", names |-> names]
ProxyCommand(called, for) == [kind |-> "proxy", called |-> called, for |-> for]

(* What a user writes, who may put the Include anywhere themselves. *)
OwnLine == {Blank, Setting, Include, [kind |-> "match"]} \cup [kind : {"host"}, names : SUBSET Args]

(* No gateway is called "help": a command that names it prints a help text. *)
ASSUME SshAssumption ==
  /\ Typist \in Terminals /\ MaxChanges \in Nat
  /\ "help" \notin Names \cup Urls
  /\ DOMAIN Gateways.gateways \subseteq Names
  /\ \A n \in DOMAIN Gateways.gateways : Gateways.gateways[n] \in Urls
  /\ \A j \in Jobs : /\ j.sandbox \in Args \ HelpWords
                     /\ j.env \in Environs /\ j.asked.url \in Urls \cup {""}
  /\ UserFiles \subseteq Seq(OwnLine)

VARIABLES
  conf,    \* the gateways file: the one selected, or "", and the URL of each
  managed, \* the file of Host blocks
  user,    \* the user's own file
  pc,      \* where a terminal's command is
  job,     \* what it was called with: the sandbox, the gateway, --install
  url,     \* the gateway it has found
  block,   \* the Host block it has rendered
  seen,    \* the file it has read
  changes, \* how many changes have been made
  moved,   \* auxiliary: the <<name, URL>> of gateways that have had another URL since
  raced,   \* auxiliary: sandboxes whose block somebody wrote over who had not read it
  byUser,  \* auxiliary: the user's file is as the user wrote it
  outdated \* auxiliary: the installers that were done before the user wrote it

command == <<pc, job, url, block, seen>>
histories == <<raced, byUser, outdated>>
vars == <<typing, conf, managed, user, command, changes, moved, histories>>

----------------------------------------------------------------------------
(* sshconfig *)

IsBlockStart(l) == l.kind \in {"host", "match"}
IsHostLineFor(l, alias) == l.kind = "host" /\ alias \in l.names

Least(S, otherwise) == IF S = {} THEN otherwise ELSE CHOOSE i \in S : \A j \in S : i <= j
Trimmed(lines) ==
  LET kept == {i \in DOMAIN lines : lines[i] # Blank}
  IN  SubSeq(lines, 1, IF kept = {} THEN 0 ELSE CHOOSE i \in kept : \A j \in kept : j <= i)

UpsertHostBlock(lines, alias, new) ==
  LET start == Least({i \in DOMAIN lines : IsHostLineFor(lines[i], alias)}, 0)
      next == Least({i \in DOMAIN lines : i > start /\ IsBlockStart(lines[i])}, Len(lines) + 1)
      old == Trimmed(SubSeq(lines, start, next - 1))
  IN  IF start = 0
      THEN IF Trimmed(lines) = <<>> THEN new ELSE Trimmed(lines) \o <<Blank>> \o new
      ELSE Trimmed(SubSeq(lines, 1, start - 1) \o new
                   \o SubSeq(lines, start + Len(old), Len(lines)))

FirstBlock(lines) == Least({i \in DOMAIN lines : IsBlockStart(lines[i])}, Len(lines) + 1)

(* Variant: the Include goes to the end of the file. *)
EnsureIncludeAppends(lines) == IF Include \in ToSet(lines) THEN lines ELSE Trimmed(lines) \o <<Include>>

(* Variant: the Include takes the place of the first Host line. *)
EnsureIncludeOver(lines) ==
  IF Include \in ToSet(lines) THEN lines
  ELSE SubSeq(lines, 1, FirstBlock(lines) - 1) \o <<Include>>
       \o SubSeq(lines, FirstBlock(lines) + 1, Len(lines))

(* The Include goes before the first block, or else to the end. *)
EnsureInclude(lines) ==
  LET first == FirstBlock(lines)
  IN  IF Include \in ToSet(lines) THEN lines
      ELSE IF first > Len(lines) THEN Trimmed(lines) \o <<Include>>
      ELSE SubSeq(lines, 1, first - 1) \o <<Include, Blank>> \o SubSeq(lines, first, Len(lines))

----------------------------------------------------------------------------
(* The gateway *)

UrlOf(c, name) == IF name \in DOMAIN c.gateways THEN c.gateways[name] ELSE ""

(* currentGatewayURL: the environment goes before a name given with -g. *)
CurrentGatewayURL(c, e, asked) ==
  IF asked.url # "" THEN asked.url
  ELSE IF e \in Urls THEN e
  ELSE IF e # "" THEN UrlOf(c, e)
  ELSE IF asked.name # "" THEN UrlOf(c, asked.name)
  ELSE UrlOf(c, c.current)

(* resolveGatewayURL, for what ssh-proxy was called with. *)
ResolveGatewayURL(c, e, given) ==
  IF "--server" \in DOMAIN given THEN given["--server"].key
  ELSE IF "--gateway-name" \in DOMAIN given THEN UrlOf(c, given["--gateway-name"].key)
  ELSE CurrentGatewayURL(c, e, FromEnviron(e))

ByName(name) == <<Flag("--gateway-name"), Word(name)>>
ByUrl(u) == <<Flag("--server"), Word(u)>>

\* Variant: a name that was asked for is taken without a look at its URL.
AskedByName(c, asked, u) ==
  IF asked.name \in DOMAIN c.gateways THEN {ByName(asked.name)}
  ELSE IF c.current # "" THEN {ByName(c.current)} ELSE {ByUrl(u)}

(* proxyGatewayArgs: a name for the URL, if one has it.  The file is loaded *)
(* a second time; when it cannot be read, the URL does.                     *)
ProxyGatewayArgs(c, asked, u) ==
  LET having == {n \in DOMAIN c.gateways : c.gateways[n] = u}
      names == IF asked.name \in having THEN {asked.name}
               ELSE IF c.current \in having THEN {c.current} ELSE having
  IN  {ByUrl(u) : n \in IF names = {} THEN {""} ELSE {}} \cup {ByName(n) : n \in names}

----------------------------------------------------------------------------
(* A terminal.  Nothing makes a command go on: that it fails to read or     *)
(* write a file, or is killed, is that it takes no further step.            *)

SshCommands == {"sandbox.ssh-config", "sandbox.connect"}

NoTask == [env |-> "", start |-> <<>>, next |-> {}]
Idle == [sandbox |-> NoFlag, env |-> "", asked |-> FromEnviron(""), install |-> FALSE]

SshInit ==
  /\ Init
  /\ conf = Gateways /\ managed = <<>> /\ user \in UserFiles
  /\ pc = [t \in Terminals |-> "idle"] /\ job = [t \in Terminals |-> Idle]
  /\ url = [t \in Terminals |-> ""]
  /\ block = [t \in Terminals |-> <<>>] /\ seen = [t \in Terminals |-> <<>>]
  /\ changes = 0 /\ moved = {} /\ raced = {} /\ byUser = TRUE /\ outdated = {}

Goto(t, step) == pc' = [pc EXCEPT ![t] = step]

(* What SandboxSSHConfig and SandboxConnect are called with.  Without      *)
(* --install or --editor the block is printed, or given to ssh(1) at once. *)
Asked(parsed) ==
  [sandbox |-> parsed.meaning["name"], env |-> task.env,
   asked |-> GatewayAsked(task.env, Scan(Globals, line)),
   install |-> {"--install", "--editor"} \cap DOMAIN parsed.meaning # {}]

Call(t, j) ==
  /\ pc[t] = "idle"
  /\ job' = [job EXCEPT ![t] = j]
  /\ Goto(t, "resolve")
  /\ UNCHANGED <<conf, managed, user, url, block, seen, changes, moved, histories>>

(* What was typed is dropped when the command goes on from it. *)
TypedCall ==
  /\ outcome.how = "called" /\ outcome.op \in SshCommands
  /\ Call(Typist, Asked(outcome))
  /\ line' = <<>> /\ outcome' = Ends("gone") /\ task' = NoTask

Resolve(t) ==
  /\ pc[t] = "resolve"
  /\ LET u == CurrentGatewayURL(conf, job[t].env, job[t].asked) IN
       /\ url' = [url EXCEPT ![t] = u]
       /\ Goto(t, IF u = "" THEN "failed" ELSE "render")
  /\ UNCHANGED <<typing, conf, managed, user, job, block, seen, changes, moved, histories>>

(* What comes of the command line of proxyCommandFor. *)
SSHProxyFor(gateway, sandbox) ==
  Executed(<<Word("ssh-proxy")>> \o gateway \o <<Flag("--name"), sandbox>>)

(* RenderHostBlock *)
Render(t) ==
  /\ pc[t] = "render"
  /\ \E gateway \in ProxyGatewayArgs(conf, job[t].asked, url[t]) \cup {ByUrl(url[t])} :
       block' = [block EXCEPT ![t] =
         <<Host({job[t].sandbox}), Setting,
           ProxyCommand(SSHProxyFor(gateway, job[t].sandbox), url[t])>>]
  /\ url' = [url EXCEPT ![t] = ""]
  /\ Goto(t, IF job[t].install THEN "managed" ELSE "done")
  /\ UNCHANGED <<typing, conf, managed, user, job, seen, changes, moved, histories>>

(* Install: the managed file first. *)
ReadManaged(t) ==
  /\ pc[t] = "managed"
  /\ seen' = [seen EXCEPT ![t] = managed]
  /\ Goto(t, "upsert")
  /\ UNCHANGED <<typing, conf, managed, user, job, url, block, changes, moved, histories>>

Sandboxes(lines) == UNION {lines[i].names : i \in {j \in DOMAIN lines : lines[j].kind = "host"}}

WriteManaged(t) ==
  /\ pc[t] = "upsert"
  /\ managed' = UpsertHostBlock(seen[t], job[t].sandbox, block[t])
  /\ raced' = (raced \cup (Sandboxes(managed) \ Sandboxes(seen[t]))) \ {job[t].sandbox}
  /\ seen' = [seen EXCEPT ![t] = <<>>]
  /\ Goto(t, "user")
  /\ UNCHANGED <<typing, conf, user, job, url, block, changes, moved, byUser, outdated>>

ReadUser(t) ==
  /\ pc[t] = "user"
  /\ IF EnsureInclude(user) = user
     THEN Goto(t, "done") /\ UNCHANGED seen
     ELSE Goto(t, "include") /\ seen' = [seen EXCEPT ![t] = user]
  /\ UNCHANGED <<typing, conf, managed, user, job, url, block, changes, moved, histories>>

WriteUser(t) ==
  /\ pc[t] = "include"
  /\ user' = EnsureInclude(seen[t])
  /\ seen' = [seen EXCEPT ![t] = <<>>]
  /\ Goto(t, "done")
  /\ byUser' = FALSE
  /\ UNCHANGED <<typing, conf, managed, job, url, block, changes, moved, raced, outdated>>

----------------------------------------------------------------------------
(* Meanwhile *)

(* Other commands change the gateways (see GatewayConfig); the user writes *)
(* their own file anew, with or without the Include.                       *)
Change ==
  /\ pc[Typist] # "idle" /\ changes < MaxChanges
  /\ changes' = changes + 1
  /\ UNCHANGED <<typing, managed, command, raced>>

Reconfigure(new) ==
  /\ Change
  /\ conf' = new
  /\ moved' = moved \cup {<<n, UrlOf(conf, n)>> : n \in {m \in DOMAIN conf.gateways :
                                                           UrlOf(new, m) # UrlOf(conf, m)}}
  /\ UNCHANGED <<user, byUser, outdated>>

AddGateway(n, u) ==
  Reconfigure([current |-> n, gateways |-> [m \in DOMAIN conf.gateways \cup {n} |->
                                              IF m = n THEN u ELSE conf.gateways[m]]])

SelectGateway(n) ==
  /\ n \in DOMAIN conf.gateways
  /\ Reconfigure([current |-> n, gateways |-> conf.gateways])

RemoveGateway(n) ==
  /\ n \in DOMAIN conf.gateways
  /\ Reconfigure([current |-> IF conf.current = n THEN "" ELSE conf.current,
                  gateways |-> [m \in DOMAIN conf.gateways \ {n} |-> conf.gateways[m]]])

EditUser(lines) ==
  /\ Change
  /\ user' = lines /\ byUser' = TRUE
  /\ outdated' = outdated \cup {t \in Terminals : pc[t] = "done" /\ job[t].install}
  /\ UNCHANGED <<conf, moved>>

Step(t) ==
  \/ Resolve(t) \/ Render(t) \/ ReadManaged(t) \/ WriteManaged(t) \/ ReadUser(t) \/ WriteUser(t)

SshNext ==
  \/ Next /\ UNCHANGED <<conf, managed, user, command, changes, moved, histories>>
  \/ TypedCall
  \/ \E t \in Terminals \ {Typist}, j \in Jobs :
       pc[Typist] # "idle" /\ Call(t, j) /\ UNCHANGED typing
  \/ \E t \in Terminals : Step(t)
  \/ \E n \in Names : SelectGateway(n) \/ RemoveGateway(n) \/ \E u \in Urls : AddGateway(n, u)
  \/ \E lines \in UserFiles : EditUser(lines)

SshSpec == SshInit /\ [][SshNext]_vars

----------------------------------------------------------------------------
(* Properties *)

(* What ssh(1) makes of the files: the first ProxyCommand in a block for    *)
(* the host, of the files included before the first block.                  *)
Section(lines, i) ==
  LET starts == {j \in 1 .. i : IsBlockStart(lines[j])}
  IN  IF starts = {} THEN {} ELSE lines[CHOOSE j \in starts : \A k \in starts : k <= j].names

Proxies(lines, sandbox) ==
  {i \in DOMAIN lines : lines[i].kind = "proxy" /\ sandbox \in Section(lines, i)}

Included == \E i \in DOMAIN user : user[i] = Include /\ i < FirstBlock(user)

(* ssh and an editor find the host that was installed for them, once, with  *)
(* a command an installer made for it, which names that sandbox: whatever   *)
(* was in the files and whoever wrote to them.  Two things take it away,    *)
(* and nothing else: an installer that wrote over a block it had not read,  *)
(* and the user, who has written their file since or had written the        *)
(* Include in it below a block of their own, where it holds for that block's *)
(* hosts only and EnsureInclude leaves it.                                  *)
InstalledFound ==
  \A t \in Terminals :
    LET s == job[t].sandbox
        found == {managed[i] : i \in Proxies(managed, s)}
    IN  pc[t] = "done" /\ job[t].install =>
          /\ Included \/ t \in outdated \/ (byUser /\ Include \in ToSet(user))
          /\ s \notin raced => /\ Cardinality(Proxies(managed, s)) = 1
                              /\ \E u \in Terminals : block[u] # <<>> /\ found = {block[u][3]}
                              /\ \A proxy \in found : proxy.called.meaning["--name"] = s

(* Nothing the user wrote in their file is lost or moved, unless they wrote *)
(* it after an installer had read the file.                                 *)
OwnLines(lines) == Picked(lines, LAMBDA l : l \notin {Include, Blank})
UserLinesKept ==
  [][\A t \in Terminals :
       pc[t] = "include" /\ pc'[t] = "done" /\ seen[t] = user => OwnLines(user') = OwnLines(user)]_vars

(* A host leads to the gateway that was the current one when its block was  *)
(* made, or to none: "a ProxyCommand that may run without this shell's      *)
(* environment" (ssh_connect.go), and with another gateway selected.  Only  *)
(* a name that was given another URL since leads there.                     *)
NamedMoved(proxy) ==
  /\ "--gateway-name" \in DOMAIN proxy.called.meaning
  /\ <<proxy.called.meaning["--gateway-name"].key, proxy.for>> \in moved

AliasReaches ==
  LET printed == {block[t][3] : t \in {u \in Terminals : block[u] # <<>>}}
      written == {managed[i] : i \in {j \in DOMAIN managed : managed[j].kind = "proxy"}}
  IN  \A proxy \in printed \cup written, e \in Environs :
        /\ proxy.called.how = "called" /\ proxy.called.op = "ssh-proxy"
        /\ \/ ResolveGatewayURL(conf, e, proxy.called.meaning) \in {proxy.for, ""}
           \/ NamedMoved(proxy)
=============================================================================
