---------------------------- MODULE GatewayConfig ----------------------------
(***************************************************************************)
(* The file of gateways a user's CLI commands share                        *)
(* (src/internal/storage/gwconfig), and the commands that edit it:         *)
(* gateway add, select, remove, login, logout and ensure                   *)
(* (src/internal/service app.go, parity.go, gateway_login.go,              *)
(* gateway_ensure.go, session.go).  Each command loads the whole file,     *)
(* edits its copy and replaces the file by renaming a new one over it;     *)
(* nothing locks the file in between.                                      *)
(*                                                                         *)
(* A token is represented by the URL of the gateway that issued it.  Of    *)
(* the OIDC settings only their presence is kept.                          *)
(*                                                                         *)
(* A definition introduced by "Variant:" is a deliberately wrong version   *)
(* of the one after it, used by nothing.                                   *)
(***************************************************************************)
EXTENDS Naturals

CONSTANTS
  Commands,   \* invocations of the CLI
  Names,      \* names of gateways
  Urls,       \* their endpoints
  Local,      \* localGatewayName
  LocalUrl,   \* localGatewayURL
  OidcUrls,   \* external: endpoints whose gateway announces an OIDC issuer
  Jobs,       \* what the invocations are asked to do
  None

Edits == [op : {"add", "select", "remove", "token", "bundle", "logout"},
          name : Names \cup {None}, url : Urls \cup {None}, oidc : BOOLEAN]
(* override is the gateway given with -g or in the environment. *)
Job == [kind : {"edit", "login", "ensure"}, edit : Edits, override : Urls \cup {None}]

ASSUME ConfigAssumption ==
  /\ Local \in Names /\ LocalUrl \in Urls /\ OidcUrls \subseteq Urls
  /\ None \notin Names /\ None \notin Urls /\ None \notin Commands
  /\ Jobs \subseteq Job
  /\ \A j \in Jobs : /\ j.edit.op \in {"add", "select", "remove", "logout"}
                     /\ j.edit.op = "add" => j.edit.name \in Names /\ j.edit.url \in Urls

Entry == [url : Urls \cup {None}, token : Urls \cup {None}, oidc : BOOLEAN]
Configs == [current : Names \cup {None}, gateways : UNION {[S -> Entry] : S \in SUBSET Names}]

VARIABLES
  conf,  \* the file
  up,    \* external: the endpoints where a gateway answers /healthz
  job,   \* what a command was asked to do
  pc,    \* where it is
  edit,  \* the edit of the file it is about to make
  seen,  \* the copy of the file it edits
  \* History, for the properties:
  moved, \* the issuers of logins that were told another gateway than the
         \* selected one, or whose gateway was changed or deselected by
         \* another command while their user logged in
  placed \* the ensure whose addition of the local gateway reached the file,
         \* when no other command has written the file since

vars == <<conf, up, job, pc, edit, seen, moved, placed>>

Listed(cfg) == DOMAIN cfg.gateways
ZeroEntry == [url |-> None, token |-> None, oidc |-> FALSE]
Lookup(cfg, name) == IF name \in Listed(cfg) THEN cfg.gateways[name] ELSE ZeroEntry
Stored(cfg, name, entry) ==
  [cfg EXCEPT !.gateways = [n \in Listed(cfg) \cup {name} |->
                              IF n = name THEN entry ELSE cfg.gateways[n]]]

CurrentIsListed(cfg) == cfg.current = None \/ cfg.current \in Listed(cfg)
OwnToken(entry) == entry.token \in {None, entry.url}

NoEdit == [op |-> "logout", name |-> None, url |-> None, oidc |-> FALSE]
Empty == [current |-> None, gateways |-> [n \in {} |-> ZeroEntry]]

(* The file is absent, or earlier commands left some gateways in it. *)
Init ==
  /\ conf \in {cfg \in Configs : /\ CurrentIsListed(cfg)
                                 /\ \A n \in Listed(cfg) : /\ cfg.gateways[n].url \in Urls
                                                           /\ OwnToken(cfg.gateways[n])}
  /\ up \in SUBSET Urls
  /\ moved = {} /\ placed = None
  /\ job = [c \in Commands |-> [kind |-> "edit", edit |-> NoEdit, override |-> None]]
  /\ pc = [c \in Commands |-> "idle"]
  /\ edit = [c \in Commands |-> NoEdit]
  /\ seen = [c \in Commands |-> Empty]

Goto(c, step) == pc' = [pc EXCEPT ![c] = step]
Ended(c) == pc[c] \in {"ok", "failed", "killed"}

----------------------------------------------------------------------------
(* The edits *)

\* Variant: a gateway keeps its token when it moves to another URL.
KeptAlways(prev, url) == prev.token

(* GatewayAddParsed keeps the token of an entry with the same URL ... *)
Kept(prev, url) == IF prev.url = url THEN prev.token ELSE None
(* ... and its OIDC issuer, when none is given. *)
Added(cfg, name, url, oidc) ==
  LET prev == Lookup(cfg, name)
  IN [Stored(cfg, name, [url |-> url, token |-> Kept(prev, url),
                         oidc |-> oidc \/ (prev.url = url /\ prev.oidc)])
        EXCEPT !.current = name]

\* Variant: the removed gateway stays selected.
RemovedSelected(cfg, name) ==
  [cfg EXCEPT !.gateways = [n \in Listed(cfg) \ {name} |-> cfg.gateways[n]]]

Removed(cfg, name) ==
  [current |-> IF cfg.current = name THEN None ELSE cfg.current,
   gateways |-> [n \in Listed(cfg) \ {name} |-> cfg.gateways[n]]]

WithToken(cfg, name, token) ==
  Stored(cfg, name, [Lookup(cfg, name) EXCEPT !.token = token])

(* GatewayLogin stores the token under the gateway that is current when it *)
(* loads the file, storeOIDCBundle under the one the login began with.     *)
Edited(cfg, e) ==
  CASE e.op = "add" -> Added(cfg, e.name, e.url, e.oidc)
    [] e.op = "select" -> [cfg EXCEPT !.current = e.name]
    [] e.op = "remove" -> Removed(cfg, e.name)
    [] e.op = "token" -> WithToken(cfg, cfg.current, e.url)
    [] e.op = "bundle" -> WithToken(cfg, e.name, e.url)
    [] e.op = "logout" -> WithToken(cfg, cfg.current, None)

Refused(cfg, e) ==
  \/ e.op \in {"select", "remove"} /\ e.name \notin Listed(cfg)
  \/ e.op \in {"token", "logout"} /\ cfg.current = None

----------------------------------------------------------------------------
(* The commands *)

(* currentGatewayURL. *)
Resolved(c) ==
  IF job[c].override # None THEN job[c].override ELSE Lookup(conf, conf.current).url

FirstStep(j) == IF j.kind = "edit" THEN "load" ELSE j.kind
Start(c, j) ==
  /\ pc[c] = "idle"
  /\ job' = [job EXCEPT ![c] = j]
  /\ edit' = [edit EXCEPT ![c] = j.edit]
  /\ Goto(c, FirstStep(j))
  /\ UNCHANGED <<conf, up, seen, moved, placed>>

SelectLocal == [NoEdit EXCEPT !.op = "select", !.name = Local]
AddLocal == [NoEdit EXCEPT !.op = "add", !.name = Local, !.url = LocalUrl]
\* Variant: ensure repeats its edits without a check.
EditDoneAgain(c, outcome) ==
  IF job[c].kind = "ensure"
  THEN /\ Goto(c, "load")
       /\ edit' = [edit EXCEPT ![c] = IF edit[c].op = "add" THEN SelectLocal ELSE AddLocal]
  ELSE Goto(c, outcome) /\ UNCHANGED edit

(* GatewayEnsure goes on from GatewayAdd to GatewaySelect and then checks, *)
(* whatever came of them.                                                  *)
EditDone(c, outcome) ==
  IF job[c].kind = "ensure"
  THEN IF edit[c].op = "add"
       THEN Goto(c, "load") /\ edit' = [edit EXCEPT ![c] = SelectLocal]
       ELSE Goto(c, "check") /\ UNCHANGED edit
  ELSE Goto(c, outcome) /\ UNCHANGED edit

(* The copy a command edited is gone when it has saved it, or died. *)
Discard(c) == seen' = [seen EXCEPT ![c] = Empty]

(* gwconfig.Load, and the checks made on what was loaded. *)
Load(c) ==
  /\ pc[c] = "load"
  /\ IF Refused(conf, edit[c])
     THEN EditDone(c, "failed") /\ UNCHANGED seen
     ELSE Goto(c, "save") /\ seen' = [seen EXCEPT ![c] = conf] /\ UNCHANGED edit
  /\ UNCHANGED <<conf, up, job, moved, placed>>

(* The gateway the token of a login is stored with, the selected one for   *)
(* GatewayLogin, and its address.                                          *)
Holder(cfg, e) == IF e.op = "bundle" THEN e.name ELSE cfg.current
HolderUrl(cfg, e) == Lookup(cfg, Holder(cfg, e)).url

(* The logins under way for whose token the file names another address. *)
LoggingIn(c) == pc[c] \in {"browser", "load"} /\ edit[c].op \in {"token", "bundle"}
Stranded(cfg) ==
  {edit[c].url : c \in {d \in Commands : LoggingIn(d) /\ HolderUrl(cfg, edit[d]) # edit[d].url}}

(* gwconfig.Save: securefile.WriteAtomic renames a new file over the old.  *)
Save(c) ==
  /\ pc[c] = "save"
  /\ conf' = Edited(seen[c], edit[c])
  /\ moved' = moved \cup Stranded(conf')
  /\ placed' = IF edit[c] = AddLocal \/ placed = c THEN c ELSE None
  /\ EditDone(c, "ok")
  /\ Discard(c)
  /\ UNCHANGED <<up, job>>

SaveFails(c) ==
  /\ pc[c] = "save"
  /\ EditDone(c, "failed")
  /\ Discard(c)
  /\ UNCHANGED <<conf, up, job, moved, placed>>

(* GatewayLoginInteractive: with an issuer, configured or announced by the *)
(* gateway, the browser goes to the identity provider of the entry ...     *)
UsesOidc(entry) == entry.oidc \/ entry.url \in up \cap OidcUrls
LoginOidc(c) ==
  /\ pc[c] = "login"
  /\ conf.current # None
  /\ LET entry == Lookup(conf, conf.current) IN
       /\ UsesOidc(entry)
       /\ edit' = [edit EXCEPT ![c] = [NoEdit EXCEPT !.op = "bundle", !.name = conf.current,
                                                     !.url = entry.url]]
  /\ Goto(c, "browser")
  /\ UNCHANGED <<conf, up, job, seen, moved, placed>>

(* ... and without one the gateway's address is looked up once more ...    *)
LoginLocal(c) ==
  /\ pc[c] = "login"
  /\ conf.current # None
  /\ ~UsesOidc(Lookup(conf, conf.current))
  /\ Goto(c, "resolve")
  /\ UNCHANGED <<conf, up, job, edit, seen, moved, placed>>
LoginResolve(c) ==
  /\ pc[c] = "resolve"
  /\ Resolved(c) # None
  /\ edit' = [edit EXCEPT ![c] = [NoEdit EXCEPT !.op = "token", !.url = Resolved(c)]]
  /\ Goto(c, "browser")
  /\ moved' = IF Resolved(c) = Lookup(conf, conf.current).url THEN moved
              ELSE moved \cup {Resolved(c)}
  /\ UNCHANGED <<conf, up, job, seen, placed>>

NoGateway(c) ==
  /\ \/ pc[c] = "login" /\ conf.current = None
     \/ pc[c] = "resolve" /\ Resolved(c) = None
  /\ Goto(c, "failed")
  /\ UNCHANGED <<conf, up, job, edit, seen, moved, placed>>

(* ... where the user logs in, in the browser or by the direct call that   *)
(* follows a failed one, or does not, for up to minutes.                   *)
LoggedIn(c) ==
  /\ pc[c] = "browser"
  /\ \/ Goto(c, "load")
     \/ Goto(c, "failed")
  /\ UNCHANGED <<conf, up, job, edit, seen, moved, placed>>

\* Variant: a gateway that is configured is not asked.
HealthyIfKnown(url) == url # None

(* Healthz answers. *)
Healthy(url) == url \in up

(* GatewayEnsure: nothing to do, or the local port answers already, or a   *)
(* local gateway is started.                                               *)
EnsureHealthy(c) ==
  /\ pc[c] = "ensure"
  /\ Healthy(Resolved(c))
  /\ Goto(c, "ok")
  /\ UNCHANGED <<conf, up, job, edit, seen, moved, placed>>

(* Something else than a gateway may listen on the local port. *)
EnsureExisting(c) ==
  /\ pc[c] = "ensure"
  /\ ~Healthy(Resolved(c))
  /\ edit' = [edit EXCEPT ![c] = AddLocal]
  /\ Goto(c, "load")
  /\ UNCHANGED <<conf, up, job, seen, moved, placed>>
EnsureNotListening(c) ==
  /\ pc[c] = "ensure"
  /\ ~Healthy(Resolved(c)) /\ LocalUrl \notin up
  /\ Goto(c, "spawn")
  /\ UNCHANGED <<conf, up, job, edit, seen, moved, placed>>

(* After the file was edited: the first time for a listening port, where a *)
(* failed check goes on to start a gateway, later for a started one.       *)
EnsureCheck(c) ==
  /\ pc[c] = "check"
  /\ Goto(c, IF LocalUrl \in up THEN "ok" ELSE "spawn")
  /\ UNCHANGED <<conf, up, job, edit, seen, moved, placed>>

(* There is no binary, it does not start, or it is not ready in time. *)
Spawn(c) ==
  /\ pc[c] = "spawn"
  /\ \/ /\ up' = up \cup {LocalUrl}
        /\ edit' = [edit EXCEPT ![c] = AddLocal]
        /\ Goto(c, "load")
     \/ Goto(c, "failed") /\ UNCHANGED <<up, edit>>
  /\ UNCHANGED <<conf, job, seen, moved, placed>>

Killed(c) ==
  /\ pc[c] # "idle" /\ ~Ended(c)
  /\ Goto(c, "killed")
  /\ Discard(c)
  /\ UNCHANGED <<conf, up, job, edit, moved, placed>>

Step(c) ==
  \/ Load(c) \/ Save(c) \/ SaveFails(c)
  \/ LoginOidc(c) \/ LoginLocal(c) \/ LoginResolve(c) \/ NoGateway(c) \/ LoggedIn(c)
  \/ EnsureHealthy(c) \/ EnsureExisting(c) \/ EnsureNotListening(c) \/ EnsureCheck(c)
  \/ Spawn(c)

Next == \E c \in Commands : (\E j \in Jobs : Start(c, j)) \/ Step(c) \/ Killed(c)

SafetySpec == Init /\ [][Next]_vars
Spec == SafetySpec /\ \A c \in Commands : WF_vars(Step(c))

----------------------------------------------------------------------------
(* Properties *)

(* Every variable has its type. *)
TypeOK ==
  /\ conf \in Configs
  /\ up \in SUBSET Urls
  /\ moved \in SUBSET (Urls \cup {None}) /\ placed \in Commands \cup {None}
  /\ job \in [Commands -> Job]
  /\ pc \in [Commands -> {"idle", "load", "save", "login", "resolve", "browser", "ensure",
                          "check", "spawn", "ok", "failed", "killed"}]
  /\ edit \in [Commands -> Edits]
  /\ seen \in [Commands -> Configs]

(* The selected gateway is in the file, whatever commands ran at once, for *)
(* GatewayLogin and GatewayLogout write an entry under the selected name   *)
(* unasked.                                                                *)
CurrentListed == CurrentIsListed(conf)

(* The token of an entry was issued by the gateway at the entry's URL, so  *)
(* that gatewayTokenForURL "resolves the bearer for a gateway URL"         *)
(* (session.go): whatever other commands overwrite, a token strays only    *)
(* when its login was given another gateway with -g, or when the gateway   *)
(* it was for was moved, removed or deselected while its user logged in.   *)
TokensAtHome ==
  \A n \in Listed(conf) : OwnToken(conf.gateways[n]) \/ conf.gateways[n].token \in moved

(* "GatewayEnsure makes sure a reachable gateway is selected"              *)
(* (gateway_ensure.go): it ends well at once when the gateway that the     *)
(* next call uses answers, and later, whatever failed on the way, only     *)
(* when the local one answers, which is then selected unless the addition  *)
(* could not be saved or another command has written the file since.       *)
EnsuredReachable ==
  [][\A c \in Commands :
       job[c].kind = "ensure" /\ pc[c] # "ok" /\ pc'[c] = "ok" =>
         IF pc[c] = "ensure" THEN Resolved(c)' \in up'
         ELSE placed' = c => Lookup(conf, conf.current).url' \in up']_vars

(* Every command ends. *)
CommandsEnd == \A c \in Commands : pc[c] # "idle" ~> Ended(c)
=============================================================================
