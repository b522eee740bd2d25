-------------------------------- MODULE Access --------------------------------
(* Who may talk to an instance.  The MCP server (mcp_server.py) signs clients in *)
(* with OAuth and keeps their tokens in memory and in oauth_tokens.json, which   *)
(* the web processes edit too; the static key of a client without a browser is a *)
(* column of ai_config that the web pages and `job-squire configure` change; a   *)
(* browser's session carries the stamp of its account (auth.py).                 *)
(*                                                                               *)
(* The MCP server is one event loop: a handler runs to its end but for the       *)
(* `await` of the request's body.  The web application is two processes.         *)
(*                                                                               *)
(* What the server draws at random is never drawn twice: client ids, codes,      *)
(* tokens and static keys are numbered in the order they are drawn.              *)
EXTENDS Naturals, FiniteSets, Sequences

CONSTANTS
    Requests,                       \* the POST requests the MCP server can have open
    Web,                            \* the web processes
    Browsers,
    Terminals,                      \* where `job-squire configure` is run
    MaxClients, MaxAttempts, MaxFailures,   \* _MAX_CLIENTS, _REGISTER_MAX_PER_WINDOW,
                                            \* _LOGIN_MAX_FAILURES
    Parts,                          \* which parts of the model behaviours are about
    MaxBegun,                       \* a bound of the model, for each part
    MaxFaults,                      \* and one for all of them
    None

Kinds == {"register", "authorize", "token", "revoke"}

ASSUME AccessAssumption ==
    /\ None \notin Nat \cup Kinds
    /\ Parts \subseteq {"oauth", "static", "account"}
    /\ MaxClients \in Nat /\ MaxAttempts \in Nat /\ MaxFailures \in Nat
    /\ MaxBegun \in [Parts -> Nat] /\ MaxFaults \in Nat
    /\ IsFiniteSet(Requests) /\ Requests # {}

VARIABLES
    part,       \* which of the three a behaviour is about: they share no state but `enabled`
    enabled,    \* AIConfig.mcp_enabled
    req,        \* what each open request does once its body is read, None when not open
    clients,    \* _clients
    known,      \* the number of client ids drawn so far
    attempts,   \* registrations within the window
    failures,   \* failed logins within the window
    codes,      \* the live codes of _codes
    codeOf,     \* the client each code was drawn for
    tokens,     \* the keys of _tokens
    fresh,      \* _tokens was loaded less than _TOKENS_CACHE_TTL ago
    blind,      \* ghost: the file could not be read then, and _tokens is empty for it
    file,       \* the tokens in oauth_tokens.json
    owner,      \* the client of each token drawn so far, in the order drawn
    expired,    \* the tokens whose 30 days are over
    edit,       \* what each web process has read of the file, and revokes
    revoked,    \* ghost: the tokens whose revocation was confirmed
    recent,     \* ghost: those a web process revoked since `fresh` became true
    murky,      \* ghost: tokens concerned by a write that failed, or that was made over a
                \* file other than the one read: a newer one, or one a read has failed on
    earned,     \* ghost: the code each token was given for, in the same order
    key,        \* mcp_api_key_enc, decrypted
    minted,     \* the number of static keys drawn so far
    lapsed,     \* the key's expiry has passed
    allow,      \* mcp_api_key_allow_network
    network,    \* DEPLOY_MODE is "network"
    tailnet,    \* tailscale.json has Serve on for this instance
    lastUsed,   \* mcp_api_key_last_used_at is set
    due,        \* the last stamp is older than _LAST_USED_WRITE_THROTTLE
    stamping,   \* a verified call is about to commit its stamp
    row,        \* what each web process has read of ai_config, and is to do with the key
    query,      \* the token in mcp.json: a static key, 0 for one set by hand, None
    cli,        \* the `configure` in progress in each terminal
    told,       \* ghost: the key a `configure` printed last, while it is the one in force
    crossed,    \* ghost: another terminal's `configure`, overtaken, has set mcp.json since
    used,       \* ghost: the static keys a call was served with
    overtaken,  \* ghost: the stamp in the row is of a call with another key
    password,   \* the password of the account
    stamp,      \* User.session_token
    session,    \* the stamp in each browser's cookie, None when signed out
    form,       \* the login or password form a web process is working on
    by,         \* ghost: the password each browser's session was begun with
    begun, faults

oauth == <<req, clients, known, attempts, failures, codes, codeOf, owner, expired, earned>>
store == <<tokens, fresh, blind, file, edit, revoked, recent, murky>>
inRow == <<key, lapsed, lastUsed, overtaken>>
printed == <<told, crossed>>
server == <<due, stamping, used>>
host == <<network, tailnet>>
static == <<inRow, minted, allow, host, server, row, query, cli, printed>>
account == <<password, stamp, session, form, by>>
vars == <<part, enabled, oauth, store, static, account, begun, faults>>

Optional(S) == S \cup {None}
NoEdit == [read |-> None, off |-> {}]
NoForm == [b |-> None, kind |-> "none", stamp |-> 0, password |-> 0]
NoRow == [op |-> "none", key |-> FALSE, lapsed |-> FALSE, used |-> FALSE, allow |-> FALSE]
IdleCli == [pc |-> "idle", op |-> "none", allow |-> None, key |-> None, seen |-> 0]

Drawn == 1..Len(owner)

TypeOK ==
    /\ part \in Parts /\ enabled \in BOOLEAN
    /\ req \in [Requests -> Optional(Kinds)]
    /\ clients \subseteq 1..known
    /\ attempts \in Nat /\ failures \in 0..MaxFailures
    /\ codes \subseteq 1..Len(codeOf) /\ codeOf \in Seq(1..known)
    /\ owner \in Seq(1..known) /\ earned \in Seq(1..Len(codeOf)) /\ Len(earned) = Len(owner)
    /\ \A S \in {tokens, file, expired, revoked, recent, murky} : S \subseteq Drawn
    /\ {fresh, blind} \subseteq BOOLEAN
    /\ \A w \in Web : edit[w] # NoEdit => edit[w].read \subseteq Drawn
    /\ minted \in Nat /\ key \in Optional(1..minted)
    /\ {lapsed, allow, network, tailnet, lastUsed, due, overtaken, crossed} \subseteq BOOLEAN
    /\ stamping \in Optional(1..minted) /\ query \in Optional(0..minted)
    /\ told \in Optional(1..minted) /\ used \subseteq 1..minted
    /\ \A w \in Web : row[w].op \in {"none", "generate", "revoke", "on", "off"}
    /\ \A c \in Terminals :
          cli[c].pc \in {"idle", "read", "allow", "write", "query", "revoke", "clear"}
    /\ {password, stamp} \subseteq Nat
    /\ session \in [Browsers -> 0..stamp]
    /\ {begun, faults} \subseteq Nat

Init ==
    /\ part \in Parts /\ enabled = TRUE
    /\ req = [r \in Requests |-> None] /\ clients = {} /\ known = 0
    /\ attempts = 0 /\ failures = 0
    /\ codes = {} /\ codeOf = <<>> /\ owner = <<>> /\ earned = <<>>
    /\ tokens = {} /\ fresh = FALSE /\ blind = FALSE /\ file = {} /\ expired = {}
    /\ edit = [w \in Web |-> NoEdit] /\ revoked = {} /\ recent = {} /\ murky = {}
    /\ key = None /\ minted = 0 /\ lapsed = FALSE /\ allow = FALSE
    /\ network \in BOOLEAN /\ (part # "static" => ~network) /\ tailnet = FALSE
    /\ lastUsed = FALSE /\ due = TRUE /\ stamping = None
    /\ row = [w \in Web |-> NoRow] /\ query = None /\ cli = [c \in Terminals |-> IdleCli]
    /\ told = None /\ crossed = FALSE /\ used = {} /\ overtaken = FALSE
    /\ password = 1 /\ stamp = 1 /\ session = [b \in Browsers |-> 0]
    /\ form = [w \in Web |-> NoForm] /\ by = [b \in Browsers |-> 0]
    /\ begun = 0 /\ faults = 0

-----------------------------------------------------------------------------
Fault == faults < MaxFaults /\ faults' = faults + 1
NoFault == UNCHANGED faults
Begin == begun < MaxBegun[part] /\ begun' = begun + 1
Running == UNCHANGED begun

-----------------------------------------------------------------------------
(* The MCP server: requests with a body *)

\* Slip: the number of registered clients is not looked at.
RateOnly == attempts < MaxAttempts

\* _handle_register() looks at both limits before it awaits the body.
MayRegister == attempts < MaxAttempts /\ Cardinality(clients) < MaxClients

\* asgi_app() answers 404 while the connector is switched off.
Open(r, kind) ==
    /\ req[r] = None /\ enabled
    /\ kind = "register" => MayRegister
    /\ req' = [req EXCEPT ![r] = kind]
    /\ Begin /\ NoFault
    /\ UNCHANGED <<enabled, clients, known, attempts, failures, codes, codeOf, owner, expired,
                   earned, store, static, account>>

Handles(r, kind) == req[r] = kind /\ req' = [req EXCEPT ![r] = None]

\* A body that is too large, malformed or refused: nothing is kept.
Refuse(r) ==
    /\ req[r] # None /\ req' = [req EXCEPT ![r] = None]
    /\ UNCHANGED <<enabled, clients, known, attempts, failures, codes, codeOf, owner, expired,
                   earned, store, static, account, begun, faults>>

Register(r) ==
    /\ Handles(r, "register")
    /\ attempts' = attempts + 1
    /\ known' = known + 1 /\ clients' = clients \cup {known'}
    /\ UNCHANGED <<enabled, failures, codes, codeOf, owner, expired, earned, store, static,
                   account, begun, faults>>

LoginOk == failures < MaxFailures

\* _handle_authorize_post(): a wrong password counts, a right one forgets the failures
\* and draws a code for a registered client.
Authorize(r) ==
    /\ Handles(r, "authorize") /\ LoginOk
    /\ \E c \in clients :
          \/ /\ failures' = failures + 1
             /\ UNCHANGED <<codes, codeOf>>
          \/ /\ failures' = 0
             /\ codeOf' = Append(codeOf, c)
             /\ codes' = codes \cup {Len(codeOf')}
    /\ UNCHANGED <<enabled, clients, known, attempts, owner, expired, earned, store, static,
                   account, begun, faults>>

\* _save_tokens(): the whole of memory over the file, without its expired tokens; an
\* OSError is only logged.
Save(new, changed) ==
    /\ tokens' = new
    /\ \/ /\ file' = new \ expired /\ blind' = FALSE
          /\ murky' = murky \cup (((tokens \ file) \cup (file \ tokens)) \ expired)
          /\ NoFault
       \/ Fault /\ UNCHANGED <<file, blind>> /\ murky' = murky \cup changed

\* The code is taken whether or not the rest of the request is right.
Take(d) == codes' = codes \ {d}

\* Slip: the earlier tokens of the client stay.
NotReplaced(c) == {}

\* The tokens a new one for this client replaces.
Replaced(c) == {t \in tokens : owner[t] = c}

\* _handle_token(): a live code whose verifier is right is turned into a token that
\* replaces the client's earlier ones.  A code that expired or with another verifier
\* is gone all the same.
Token(r) ==
    /\ Handles(r, "token")
    /\ \E d \in codes :
          /\ Take(d)
          /\ \/ LET c == codeOf[d]
                    t == Len(owner) + 1
                IN /\ owner' = Append(owner, c) /\ earned' = Append(earned, d)
                   /\ Save((tokens \ Replaced(c)) \cup {t}, Replaced(c) \cup {t})
                   /\ revoked' = revoked \cup Replaced(c)
             \/ UNCHANGED <<owner, earned, tokens, blind, file, murky, revoked, faults>>
    /\ UNCHANGED <<enabled, clients, known, attempts, failures, codeOf, expired, fresh, edit,
                   recent, static, account, begun>>

\* _handle_revoke(): a token that memory holds; the answer is 200 for any other too, one
\* that a failed read has hidden from memory among them.
Revoke(r) ==
    /\ Handles(r, "revoke")
    /\ \E t \in tokens :
          /\ Save(tokens \ {t}, {t})
          /\ revoked' = revoked \cup {t}
    /\ UNCHANGED <<enabled, clients, known, attempts, failures, codes, codeOf, owner, expired,
                   earned, fresh, edit, recent, static, account, begun>>

-----------------------------------------------------------------------------
(* The MCP server: calls of tools, time, restarts *)

\* Slip: memory is never loaded again.
Remembered == tokens

\* _refresh_tokens_cache(): what the tokens are when a call looks at them.
Loaded == IF fresh THEN tokens ELSE file \ expired

Accepted == IF enabled THEN Loaded \ expired ELSE {}

\* A call with a bearer that is not the static key.  A file that cannot be read, or not
\* parsed, reads as one without tokens; the next save replaces it.
Call ==
    /\ enabled
    /\ \/ tokens' = Loaded /\ blind' = (fresh /\ blind) /\ NoFault
       \/ ~fresh /\ tokens' = {} /\ blind' = TRUE /\ Fault
    /\ fresh' = TRUE
    /\ Begin
    /\ UNCHANGED <<enabled, oauth, file, edit, revoked, recent, murky, static, account>>

\* The cache's two seconds, a token's thirty days, the windows of the two limits.
CacheAges ==
    /\ fresh /\ fresh' = FALSE /\ recent' = {}
    /\ UNCHANGED <<enabled, oauth, tokens, blind, file, edit, revoked, murky, static, account,
                   begun, faults>>

TokenAges(t) ==
    /\ t \notin expired /\ Begin
    /\ expired' = expired \cup {t}
    /\ UNCHANGED <<enabled, req, clients, known, attempts, failures, codes, codeOf, owner,
                   earned, store, static, account, faults>>

WindowAges ==
    /\ \/ attempts > 0 /\ attempts' = attempts - 1 /\ UNCHANGED failures
       \/ failures > 0 /\ failures' = failures - 1 /\ UNCHANGED attempts
    /\ UNCHANGED <<enabled, req, clients, known, codes, codeOf, owner, expired, earned, store,
                   static, account, begun, faults>>

\* Clients, codes and limits are in memory only; the tokens are loaded again, if the file
\* can be read.
Restart ==
    /\ Fault
    /\ req' = [r \in Requests |-> None] /\ clients' = {} /\ attempts' = 0 /\ failures' = 0
    /\ codes' = {}
    /\ \/ tokens' = file \ expired /\ blind' = FALSE
       \/ tokens' = {} /\ blind' = TRUE
    /\ fresh' = FALSE /\ recent' = {}
    /\ due' = TRUE /\ stamping' = None
    /\ UNCHANGED <<enabled, known, codeOf, owner, expired, earned, file, edit, revoked, murky,
                   inRow, minted, allow, host, used, row, query, cli, printed, account, begun>>

-----------------------------------------------------------------------------
(* The web processes: the connector and its tokens *)

SetEnabled ==
    /\ enabled' = ~enabled /\ Begin
    /\ UNCHANGED <<oauth, store, static, account, faults>>

\* "Revoke" and "Revoke all" of the settings page: the file is read, then written.  In a
\* file that cannot be read there is no token to revoke, and "Revoke all" empties it.
EditRead(w) ==
    /\ edit[w] = NoEdit /\ Begin
    /\ \/ /\ NoFault
          /\ \E off \in {{t} : t \in file} \cup {file} :
                edit' = [edit EXCEPT ![w] = [read |-> file, off |-> off]]
       \/ /\ Fault
          /\ edit' = [edit EXCEPT ![w] = [read |-> {}, off |-> {}]]
    /\ UNCHANGED <<enabled, oauth, tokens, fresh, blind, file, revoked, recent, murky, static,
                   account>>

\* Slip: the tokens that stay are written, the one to revoke with them.
WriteBack(w) == edit[w].read

\* What the file holds after the revocation.
Kept(w) == edit[w].read \ edit[w].off

EditWrite(w) ==
    /\ edit[w] # NoEdit
    /\ \/ /\ file' = Kept(w)
          /\ murky' = murky \cup (edit[w].read \ file) \cup (file \ edit[w].read)
          /\ revoked' = revoked \cup edit[w].off /\ recent' = recent \cup edit[w].off
          /\ NoFault
       \/ Fault /\ UNCHANGED <<file, murky, revoked, recent>>
    /\ edit' = [edit EXCEPT ![w] = NoEdit]
    /\ UNCHANGED <<enabled, oauth, tokens, fresh, blind, static, account, begun>>

-----------------------------------------------------------------------------
(* The static key *)

KeyWorks == key # None /\ ~lapsed

\* verify_static_token(): also refused on a network instance without the opt-in.
UseKey ==
    /\ enabled /\ KeyWorks /\ (network => allow)
    /\ used' = used \cup {key}
    /\ stamping = None
    /\ stamping' = IF due THEN key ELSE None
    /\ due' = FALSE
    /\ Begin
    /\ UNCHANGED <<enabled, oauth, store, inRow, minted, allow, host, row, query, cli, printed,
                   account, faults>>

\* The stamp goes to the one row, whatever key is in it by now.
StampKey ==
    /\ stamping # None
    /\ lastUsed' = TRUE /\ stamping' = None
    /\ overtaken' = (stamping # key)
    /\ UNCHANGED <<enabled, oauth, store, key, minted, lapsed, allow, host, due, used, row,
                   query, cli, printed, account, begun, faults>>

\* The throttle's five minutes, the key's expiry.
KeyAges ==
    /\ \/ ~due /\ due' = TRUE /\ UNCHANGED <<lapsed, told>>
       \/ key # None /\ ~lapsed /\ lapsed' = TRUE /\ told' = None /\ UNCHANGED due
    /\ Begin
    /\ UNCHANGED <<enabled, oauth, store, key, lastUsed, overtaken, minted, allow, host,
                   stamping, used, row, query, cli, crossed, account, faults>>

\* settings_mcp_api_key() reads the row: generate, revoke, or the opt-in for the network.
WebRead(w, op) ==
    /\ row[w] = NoRow /\ Begin
    /\ row' = [row EXCEPT ![w] = [op |-> op, key |-> key # None, lapsed |-> lapsed,
                                  used |-> lastUsed, allow |-> allow]]
    /\ UNCHANGED <<enabled, oauth, store, inRow, minted, allow, host, server, query, cli,
                   printed, account, faults>>

\* The UPDATE leaves out a column whose new value is the one that was read: what others
\* have written to it since stays.
Cleared(r) ==
    /\ lastUsed' = (lastUsed /\ ~r.used)
    /\ lapsed' \in {FALSE, lapsed /\ ~r.lapsed}
    /\ overtaken' = (lastUsed' /\ (key' # key \/ overtaken))

\* Its commit.  A transient error loses it: the retried commit has nothing to write.
WebCommit(w) ==
    /\ row[w] # NoRow /\ row' = [row EXCEPT ![w] = NoRow]
    /\ \/ /\ row[w].op = "generate" /\ NoFault
          /\ minted' = minted + 1 /\ key' = minted' /\ Cleared(row[w])
          /\ told' = None /\ UNCHANGED allow
       \/ /\ row[w].op = "revoke" /\ NoFault
          /\ key' = (IF row[w].key THEN None ELSE key) /\ Cleared(row[w])
          /\ told' = (IF row[w].key THEN None ELSE told) /\ UNCHANGED <<minted, allow>>
       \/ /\ row[w].op \in {"on", "off"} /\ NoFault
          /\ allow' = (IF row[w].allow = (row[w].op = "on") THEN allow ELSE row[w].op = "on")
          /\ UNCHANGED <<inRow, minted, told>>
       \/ Fault /\ UNCHANGED <<inRow, minted, allow, told>>
    /\ UNCHANGED <<enabled, oauth, store, host, server, query, cli, crossed, account, begun>>

Tailnet ==
    /\ ~network /\ tailnet' = ~tailnet /\ Begin
    /\ UNCHANGED <<enabled, oauth, store, inRow, minted, allow, network, server, row, query,
                   cli, printed, account, faults>>

-----------------------------------------------------------------------------
(* job-squire configure *)

CliTo(c, pc) == cli' = [cli EXCEPT ![c].pc = pc]
CliEnd(c) == cli' = [cli EXCEPT ![c] = IdleCli]

\* --mcp-token, --allow-network alone, or --token.
Configure(c, op, a) ==
    /\ cli[c] = IdleCli /\ Begin
    /\ cli' = [cli EXCEPT ![c] = [pc |-> CASE op = "allow" -> "allow"
                                            [] op = "manual" -> "query"
                                            [] OTHER -> "read",
                                  op |-> op, allow |-> a, key |-> None, seen |-> 0]]
    /\ op = "allow" => a # None
    /\ UNCHANGED <<enabled, oauth, store, inRow, minted, allow, host, server, row, query,
                   printed, account, faults>>

\* The opt-in in force once this command has set its own.
Effective(c) == IF cli[c].allow # None THEN cli[c].allow ELSE allow

\* `generate` refuses to replace a key that works, `rotate` wants one.
Wanted(c) == (cli[c].op = "generate") = ~KeyWorks

\* The check is passed.  Ghost `seen`: no key up to this one was in force and worked then.
CliChecked(c, pc) ==
    cli' = [cli EXCEPT ![c] = [@ EXCEPT !.pc = pc,
                                        !.seen = IF key = None THEN minted ELSE key - 1]]

\* read_state() and the refusals that follow it.
CliRead(c) ==
    /\ cli[c].pc = "read"
    /\ \/ cli[c].op = "revoke" /\ CliTo(c, "revoke") /\ NoFault
       \/ /\ cli[c].op # "revoke" /\ Wanted(c)
          /\ (network \/ tailnet) => Effective(c)
          /\ CliChecked(c, IF cli[c].allow # None THEN "allow" ELSE "write") /\ NoFault
       \/ /\ cli[c].op # "revoke" /\ ~(Wanted(c) /\ ((network \/ tailnet) => Effective(c)))
          /\ CliEnd(c) /\ NoFault
       \/ CliEnd(c) /\ Fault
    /\ UNCHANGED <<enabled, oauth, store, inRow, minted, allow, host, server, row, query,
                   printed, account, begun>>

\* A command in the container that fails may have done its work: it has 30 seconds.
CliAllow(c) ==
    /\ cli[c].pc = "allow"
    /\ \/ /\ allow' = cli[c].allow /\ NoFault
          /\ IF cli[c].op = "allow" THEN CliEnd(c) ELSE CliTo(c, "write")
       \/ allow' \in {allow, cli[c].allow} /\ Fault /\ CliEnd(c)
    /\ UNCHANGED <<enabled, oauth, store, inRow, minted, host, server, row, query, printed,
                   account, begun>>

\* The program in the container puts a key, or none, in the row: one statement, whatever
\* the row holds by now.
Put(k) ==
    /\ key' = k /\ lapsed' = FALSE /\ told' = None
    /\ lastUsed' = FALSE /\ overtaken' = FALSE

CliWrite(c) ==
    /\ cli[c].pc = "write"
    /\ minted' = minted + 1
    /\ \/ /\ Put(minted') /\ NoFault
          /\ cli' = [cli EXCEPT ![c] = [@ EXCEPT !.pc = "query", !.key = minted']]
       \/ Put(minted') /\ CliEnd(c) /\ Fault
       \/ CliEnd(c) /\ Fault /\ UNCHANGED <<inRow, told>>
    /\ UNCHANGED <<enabled, oauth, store, allow, host, server, row, query, crossed, account,
                   begun>>

\* Slip: an entry that has a token keeps it.
KeepToken(t) == query' = IF query = None THEN t ELSE query

\* set_instance(): the token replaces the one of an earlier `configure`.
SetToken(t) == query' = t

\* set_instance() with the new key or the operator's token; mcp.json may be unreadable.
\* The key is printed, be it replaced by now or not.
CliQuery(c) ==
    /\ cli[c].pc = "query" /\ CliEnd(c)
    /\ \/ /\ cli[c].op = "manual" /\ NoFault
          /\ SetToken(0) /\ told' = None /\ UNCHANGED crossed
       \/ /\ cli[c].op # "manual" /\ NoFault
          /\ SetToken(cli[c].key)
          /\ IF key = cli[c].key /\ ~lapsed
             THEN told' = key /\ crossed' = FALSE
             ELSE told' = told /\ crossed' = TRUE
       \/ Fault /\ UNCHANGED <<query, printed>>
    /\ UNCHANGED <<enabled, oauth, store, inRow, minted, allow, host, server, row, account,
                   begun>>

CliRevoke(c) ==
    /\ cli[c].pc = "revoke"
    /\ \/ Put(None) /\ CliTo(c, "clear") /\ NoFault
       \/ Put(None) /\ CliEnd(c) /\ Fault
       \/ CliEnd(c) /\ Fault /\ UNCHANGED <<inRow, told>>
    /\ UNCHANGED <<enabled, oauth, store, minted, allow, host, server, row, query, crossed,
                   account, begun>>

CliClear(c) ==
    /\ cli[c].pc = "clear" /\ CliEnd(c) /\ query' = None
    /\ crossed' = TRUE
    /\ UNCHANGED <<enabled, oauth, store, inRow, minted, allow, host, server, row, told,
                   account, begun, faults>>

-----------------------------------------------------------------------------
(* Accounts: auth.py *)

\* load_user(): a cookie whose stamp is not the account's is signed out.
SignedIn(b) == session[b] = stamp

\* login(): the account is read and the password compared.
LoginRead(w, b) ==
    /\ form[w] = NoForm /\ ~SignedIn(b) /\ Begin
    /\ form' = [form EXCEPT ![w] = [b |-> b, kind |-> "login", stamp |-> stamp,
                                    password |-> password]]
    /\ UNCHANGED <<enabled, oauth, store, static, password, stamp, session, by, faults>>

\* Slip: the account is read again for the cookie.
StampNow(w) == stamp

\* login_user() puts the stamp of the account as it was read into the cookie.
StampRead(w) == form[w].stamp

LoginDone(w) ==
    /\ form[w].kind = "login" /\ form' = [form EXCEPT ![w] = NoForm]
    /\ session' = [session EXCEPT ![form[w].b] = StampRead(w)]
    /\ by' = [by EXCEPT ![form[w].b] = form[w].password]
    /\ UNCHANGED <<enabled, oauth, store, static, password, stamp, begun, faults>>

\* account(): the session and the current password are checked, then both are replaced.
ChangeRead(w, b) ==
    /\ form[w] = NoForm /\ SignedIn(b) /\ Begin
    /\ form' = [form EXCEPT ![w] = [b |-> b, kind |-> "change", stamp |-> stamp,
                                    password |-> password]]
    /\ UNCHANGED <<enabled, oauth, store, static, password, stamp, session, by, faults>>

ChangeDone(w) ==
    /\ form[w].kind = "change" /\ form' = [form EXCEPT ![w] = NoForm]
    /\ password' = password + 1 /\ stamp' = stamp + 1
    /\ session' = [session EXCEPT ![form[w].b] = stamp']
    /\ by' = [by EXCEPT ![form[w].b] = password']
    /\ UNCHANGED <<enabled, oauth, store, static, begun, faults>>

Logout(b) ==
    /\ SignedIn(b) /\ Begin
    /\ session' = [session EXCEPT ![b] = 0]
    /\ UNCHANGED <<enabled, oauth, store, static, password, stamp, form, by, faults>>

-----------------------------------------------------------------------------
OAuth ==
    \/ \E r \in Requests :
          \/ \E kind \in Kinds : Open(r, kind)
          \/ Refuse(r) \/ Register(r) \/ Authorize(r) \/ Token(r) \/ Revoke(r)
    \/ Call \/ CacheAges \/ WindowAges \/ Restart \/ SetEnabled
    \/ \E t \in Drawn : TokenAges(t)
    \/ \E w \in Web : EditRead(w) \/ EditWrite(w)

StaticKey ==
    \/ UseKey \/ StampKey \/ KeyAges \/ Tailnet
    \/ \E w \in Web :
          \/ \E op \in {"generate", "revoke", "on", "off"} : WebRead(w, op)
          \/ WebCommit(w)
    \/ \E c \in Terminals :
          \/ \E op \in {"generate", "rotate", "revoke", "allow", "manual"},
                a \in Optional(BOOLEAN) : Configure(c, op, a)
          \/ CliRead(c) \/ CliAllow(c) \/ CliWrite(c) \/ CliQuery(c) \/ CliRevoke(c)
          \/ CliClear(c)

Accounts ==
    \/ \E w \in Web :
          \/ LoginDone(w) \/ ChangeDone(w)
          \/ \E b \in Browsers : LoginRead(w, b) \/ ChangeRead(w, b)
    \/ \E b \in Browsers : Logout(b)

Next ==
    /\ UNCHANGED part
    /\ \/ part = "oauth" /\ OAuth
       \/ part = "static" /\ StaticKey
       \/ part = "account" /\ Accounts

Spec == Init /\ [][Next]_vars

-----------------------------------------------------------------------------
\* A revocation confirmed by the settings page or by /oauth/revoke holds: from two
\* seconds later on (mcp_server.py:204-213) the token is refused, after restarts too,
\* unless a write that failed or overlapped another process's concerned it.
RevokedRefused == Accepted \cap (revoked \ murky) \subseteq recent

\* A client that was given a token goes on being served, after restarts too: until it is
\* revoked, replaced or expires the token is on disk, and it is accepted but for the two
\* seconds after a read of the file that failed.
GrantedServed ==
    \A t \in Drawn \ (revoked \cup expired \cup murky) :
        t \in file /\ (enabled /\ (fresh => ~blind) => t \in Accepted)

\* Signing in again replaces a client's token, in memory and on disk, whatever the web
\* processes wrote in between.
OneTokenPerClient ==
    \A s, t \in Drawn :
        ({s, t} \subseteq tokens \/ {s, t} \subseteq file) /\ owner[s] = owner[t] => s = t

\* Each token was earned by a login of its own: a code is good for one.
CodeUsedOnce ==
    \A s, t \in Drawn : earned[s] = earned[t] => s = t

\* _MAX_CLIENTS and the rate limit are looked at before the body is awaited: requests
\* that are open at once pass them by their number less one, and by no more.
RegistrationBounded ==
    LET open == Cardinality({r \in Requests : req[r] = "register"})
        slack == Cardinality(Requests) - 1
    IN /\ Cardinality(clients) <= MaxClients + slack
       /\ attempts <= MaxAttempts + slack
       /\ open > 0 => Cardinality(clients) + open <= MaxClients + Cardinality(Requests)

\* The key `configure` printed is the one the instance takes and the one mcp.json holds,
\* until the key expires or somebody else sets or revokes it or sets a token by hand.  A
\* second terminal whose key was replaced before it got to mcp.json puts it there all the
\* same.
PrintedKeyWorks == told # None => key = told /\ ~lapsed /\ (query = told \/ crossed)

\* "Last used" on the settings page is about the key that is shown, not an earlier one,
\* unless that one's call was stamped while the key was being replaced: after it was, or
\* between what the page had read and what it wrote.
LastUsedIsOfThisKey == lastUsed /\ ~overtaken => key \in used

\* `generate` never replaces a key that `configure` printed and that still works, but for
\* one that was drawn in another terminal after it had looked, or had expired by then.
GenerateKeepsKey ==
    [][\A c \in Terminals :
          cli[c].op = "generate" /\ cli[c].pc = "write" /\ key' # key /\ cli'[c] # cli[c]
              => told = None \/ told > cli[c].seen]_vars

\* A session in force was begun with, or has set, the password in force: whoever knew
\* only an earlier one is signed out, one who was signing in at that moment too
\* (auth.py:80-87).
SessionKnowsPassword == \A b \in Browsers : SignedIn(b) => by[b] = password

\* A token that was granted is served until it is revoked, replaced or expires; it was
\* earned by a code of its own and is the only one of its client
\* (mcp_server.py:1269-1344).  Writes that failed or overlapped, or that followed a failed
\* read, excuse a loss.
TokensRight == TypeOK /\ GrantedServed /\ OneTokenPerClient /\ CodeUsedOnce

\* The key an operator was told is the one in force, until somebody changes it on
\* purpose, and "last used" is about that key.
KeyRight == [](PrintedKeyWorks /\ LastUsedIsOfThisKey) /\ GenerateKeepsKey
=============================================================================
