---------------------------- MODULE AccessProofs ----------------------------
(***************************************************************************)
(* Theorems about Access, for any number of open requests, web processes,  *)
(* browsers and faults.  The three parts of the module are proved apart.   *)
(***************************************************************************)
EXTENDS Access, SequenceTheorems, FiniteSetTheorems, TLAPS

(* The values of edits, of what a web process has read, of a command and of *)
(* forms.                                                                   *)
Edits == [read : {None} \cup SUBSET Nat, off : SUBSET Nat]
Rows == [op : {"none", "generate", "revoke", "on", "off"}, key : BOOLEAN, lapsed : BOOLEAN,
         used : BOOLEAN, allow : BOOLEAN]
Commands == [pc : {"idle", "read", "allow", "write", "query", "revoke", "clear"},
             op : {"none", "generate", "rotate", "revoke", "allow", "manual"},
             allow : Optional(BOOLEAN), key : Optional(Nat), seen : Nat]
Forms == {NoForm} \cup [b : Browsers, kind : {"login", "change"}, stamp : Nat, password : Nat]

(* The registrations whose body is awaited; each has passed both limits, so *)
(* they are counted with the clients and attempts there are.               *)
Waiting == {r \in Requests : req[r] = "register"}

Limits ==
    LET slack == Cardinality(Requests) - 1
    IN  /\ Cardinality(clients) <= MaxClients + slack
        /\ attempts <= MaxAttempts + slack
        /\ Cardinality(Waiting) > 0 =>
             /\ Cardinality(clients) + Cardinality(Waiting) <= MaxClients + slack
             /\ attempts + Cardinality(Waiting) <= MaxAttempts + slack

(* The tokens.  Held: what was given and not taken back is in the file, and *)
(* in memory unless the file could not be read.  Single: a client has one.  *)
(* Spent: a code was used once, and is no longer live.  Gone: what was      *)
(* revoked has left the file, and memory when it is loaded again.           *)
Alone(S) == \A s, t \in S : owner[s] = owner[t] => s = t

Held ==
    /\ Drawn \ (revoked \cup expired \cup murky) \subseteq file
    /\ blind \/ Drawn \ (revoked \cup expired \cup murky) \subseteq tokens

Single == /\ Alone(tokens) /\ Alone(file)
          /\ \A w \in Web : edit[w] # NoEdit => Alone(edit[w].read)
Spent == /\ CodeUsedOnce
         /\ \A t \in Drawn : earned[t] \notin codes

Gone == /\ file \cap (revoked \ murky) = {}
        /\ fresh => tokens \cap (revoked \ murky) \subseteq recent

(* A stamp in the making is about a key that was used; a `generate` that    *)
(* has passed its check will replace only a key drawn since, or one that    *)
(* had expired.                                                             *)
KeyInv ==
    /\ PrintedKeyWorks /\ LastUsedIsOfThisKey
    /\ stamping # None => stamping \in used
    /\ \A c \in Terminals :
          cli[c].op = "generate" /\ cli[c].pc \in {"allow", "write"} /\ key # None
              => key > cli[c].seen

(* A form has read the password that goes with the stamp it has read.       *)
FormsKnow ==
    /\ SessionKnowsPassword
    /\ \A w \in Web : form[w].kind # "none" =>
          /\ form[w].stamp <= stamp
          /\ form[w].stamp = stamp => form[w].password = password

-----------------------------------------------------------------------------
(* A sequence over the first m numbers is one over the first n, n >= m, and *)
(* may have one of those appended.                                          *)
LEMMA Wider ==
    ASSUME NEW m \in Nat, NEW n \in Nat, m <= n, NEW s \in Seq(1 .. m)
    PROVE  s \in Seq(1 .. n)
<1>1. s \in [1 .. Len(s) -> 1 .. n] /\ Len(s) \in Nat
  OBVIOUS
<1> QED
  BY <1>1, SeqDef

(* A sequence with one more element.                                       *)
LEMMA OneMore ==
    ASSUME NEW S, NEW s \in Seq(S), NEW e \in S
    PROVE  /\ Append(s, e) \in Seq(S)
           /\ Len(Append(s, e)) = Len(s) + 1
           /\ Append(s, e)[Len(s) + 1] = e
           /\ \A i \in 1 .. Len(s) : Append(s, e)[i] = s[i]
  BY AppendProperties

-----------------------------------------------------------------------------
(* The type invariant, by part: TypeOK, with the values of what it leaves   *)
(* open.                                                                    *)
StoreOK ==
    /\ owner \in Seq(1..known) /\ earned \in Seq(1..Len(codeOf)) /\ Len(earned) = Len(owner)
    /\ clients \subseteq 1..known /\ known \in Nat
    /\ codes \subseteq 1..Len(codeOf) /\ codeOf \in Seq(1..known)
    /\ tokens \subseteq Drawn /\ file \subseteq Drawn /\ expired \subseteq Drawn
    /\ revoked \subseteq Drawn /\ recent \subseteq Drawn /\ murky \subseteq Drawn
    /\ fresh \in BOOLEAN /\ blind \in BOOLEAN
    /\ edit \in [Web -> Edits]
    /\ \A w \in Web : edit[w] # NoEdit =>
          edit[w].read \subseteq Drawn /\ edit[w].off \subseteq edit[w].read
RequestsOK ==
    /\ req \in [Requests -> Optional(Kinds)]
    /\ attempts \in Nat /\ failures \in 0..MaxFailures
CommandOK(d, n) ==
    /\ d \in Commands /\ d.key \in Optional(1 .. n) /\ d.seen <= n
    /\ d.pc = "allow" => d.allow # None
StaticOK ==
    /\ minted \in Nat /\ key \in Optional(1..minted)
    /\ lapsed \in BOOLEAN /\ allow \in BOOLEAN /\ network \in BOOLEAN /\ tailnet \in BOOLEAN
    /\ lastUsed \in BOOLEAN /\ due \in BOOLEAN /\ overtaken \in BOOLEAN /\ crossed \in BOOLEAN
    /\ stamping \in Optional(1..minted) /\ query \in Optional(0..minted)
    /\ told \in Optional(1..minted) /\ used \subseteq 1..minted
    /\ row \in [Web -> Rows]
    /\ cli \in [Terminals -> Commands] /\ \A c \in Terminals : CommandOK(cli[c], minted)
AccountOK ==
    /\ password \in Nat /\ stamp \in Nat \ {0}
    /\ session \in [Browsers -> 0..stamp]
    /\ form \in [Web -> Forms]
    /\ \A w \in Web : form[w].kind # "none" => form[w].stamp <= stamp
    /\ by \in [Browsers -> Nat]
RestOK ==
    /\ part \in Parts /\ enabled \in BOOLEAN
    /\ begun \in Nat /\ faults \in Nat
TypesOK == StoreOK /\ RequestsOK /\ StaticOK /\ AccountOK /\ RestOK

(* The strengthened types imply the type invariant that the run checks.    *)
LEMMA TypesAreOK == ASSUME TypesOK PROVE TypeOK
<1>1. \A c \in Terminals :
         cli[c].pc \in {"idle", "read", "allow", "write", "query", "revoke", "clear"}
  BY DEF TypesOK, StaticOK, Commands
<1>2. \A w \in Web : row[w].op \in {"none", "generate", "revoke", "on", "off"}
  BY DEF TypesOK, StaticOK, Rows
<1> QED
  BY <1>1, <1>2 DEF TypesOK, StoreOK, RequestsOK, StaticOK, AccountOK, RestOK, TypeOK

(* The types hold at the start.                                            *)
LEMMA InitTypes == Init => TypesOK
<1> SUFFICES ASSUME Init PROVE TypesOK
  OBVIOUS
<1> USE AccessAssumption DEF Optional
<1>1. StoreOK
  <2>1. /\ owner = <<>> /\ earned = <<>> /\ codeOf = <<>> /\ known = 0 /\ clients = {}
        /\ codes = {} /\ tokens = {} /\ file = {} /\ expired = {} /\ revoked = {}
        /\ recent = {} /\ murky = {} /\ fresh = FALSE /\ blind = FALSE
        /\ edit = [w \in Web |-> NoEdit]
    BY DEF Init
  <2>2. NoEdit \in Edits
    BY DEF NoEdit, Edits
  <2>3. edit \in [Web -> Edits] /\ \A w \in Web : edit[w] = NoEdit
    BY <2>1, <2>2
  <2>4. /\ owner \in Seq(1..known) /\ codeOf \in Seq(1..known) /\ Len(owner) = 0 /\ Len(codeOf) = 0
    BY <2>1
  <2>5. earned \in Seq(1..Len(codeOf)) /\ Len(earned) = 0
    BY <2>1
  <2> QED
    BY <2>1, <2>3, <2>4, <2>5 DEF StoreOK, Drawn
<1>2. RequestsOK
  BY DEF Init, RequestsOK
<1>3. StaticOK
  <2>1. cli = [c \in Terminals |-> IdleCli] /\ row = [w \in Web |-> NoRow]
    BY DEF Init
  <2>2. /\ IdleCli \in Commands /\ IdleCli.pc # "allow" /\ IdleCli.key = None
        /\ IdleCli.seen = 0
    BY DEF IdleCli, Commands
  <2>5. NoRow \in Rows
    BY DEF NoRow, Rows
  <2>3. /\ minted = 0 /\ key = None /\ stamping = None /\ query = None /\ told = None /\ used = {}
    BY DEF Init
  <2>4. /\ lapsed \in BOOLEAN /\ allow \in BOOLEAN /\ network \in BOOLEAN /\ tailnet \in BOOLEAN
        /\ lastUsed \in BOOLEAN /\ due \in BOOLEAN /\ overtaken \in BOOLEAN
        /\ crossed \in BOOLEAN
    BY DEF Init
  <2> QED
    BY <2>1, <2>2, <2>3, <2>4, <2>5 DEF StaticOK, CommandOK
<1>4. AccountOK
  <2>1. NoForm.kind = "none"
    BY DEF NoForm
  <2> QED
    BY <2>1 DEF Init, AccountOK, Forms
<1>5. RestOK
  BY DEF Init, RestOK
<1> QED
  BY <1>1, <1>2, <1>3, <1>4, <1>5 DEF TypesOK

(* The requests, and what every part of the server counts. *)
LEMMA RequestsStep ==
    ASSUME RequestsOK, RestOK, OAuth
    PROVE  RequestsOK' /\ enabled' \in BOOLEAN /\ begun' \in Nat /\ faults' \in Nat
<1> DEFINE G == RequestsOK' /\ enabled' \in BOOLEAN /\ begun' \in Nat /\ faults' \in Nat
<1> USE AccessAssumption
    DEF RequestsOK, RestOK, Optional, Handles, Begin, Fault, NoFault, store, static, account, oauth
<1>1. ASSUME NEW r \in Requests, NEW kind \in Kinds, Open(r, kind) PROVE G
  BY <1>1 DEF Open
<1>2. ASSUME NEW r \in Requests, Refuse(r) \/ Register(r) \/ Authorize(r) PROVE G
  BY <1>2 DEF Refuse, Register, Authorize, LoginOk
<1>3. ASSUME NEW r \in Requests, Token(r) \/ Revoke(r) PROVE G
  BY <1>3 DEF Token, Revoke, Save
<1>4. ASSUME Call PROVE G
  BY <1>4 DEF Call
<1>5. ASSUME CacheAges PROVE G
  BY <1>5 DEF CacheAges
<1>6. ASSUME SetEnabled PROVE G
  BY <1>6 DEF SetEnabled
<1>7. ASSUME WindowAges PROVE G
  BY <1>7 DEF WindowAges
<1>8. ASSUME Restart PROVE G
  BY <1>8 DEF Restart
<1>9. ASSUME NEW t \in Drawn, TokenAges(t) PROVE G
  BY <1>9 DEF TokenAges
<1>10. ASSUME NEW w \in Web, EditRead(w) \/ EditWrite(w) PROVE G
  BY <1>10 DEF EditRead, EditWrite
<1> QED BY <1>1, <1>2, <1>3, <1>4, <1>5, <1>6, <1>7, <1>8, <1>9, <1>10 DEF OAuth

(* What saving the store does to the tokens and to the file.               *)
LEMMA Saved ==
    ASSUME StoreOK, NEW new, NEW changed, Save(new, changed)
    PROVE  /\ tokens' = new
           /\ file' \subseteq new \cup file
           /\ murky' \subseteq murky \cup tokens \cup file \cup changed
           /\ blind' \in {blind, FALSE}
  BY DEF Save

(* The token a code is turned into is new, and replaces its client's.      *)
Issued(d) ==
    /\ owner' = Append(owner, codeOf[d]) /\ earned' = Append(earned, d)
    /\ Save((tokens \ Replaced(codeOf[d])) \cup {Len(owner) + 1},
            Replaced(codeOf[d]) \cup {Len(owner) + 1})
    /\ revoked' = revoked \cup Replaced(codeOf[d])

(* What a request for a token does, whether it is answered with one or     *)
(* not.                                                                    *)
LEMMA TokenCases ==
    ASSUME StoreOK, NEW r \in Requests, Token(r)
    PROVE  /\ UNCHANGED <<codeOf, expired, fresh, edit, recent, enabled>>
           /\ \E d \in codes :
                /\ codes' = codes \ {d}
                /\ Issued(d) \/ UNCHANGED <<owner, earned, tokens, blind, file, murky, revoked>>
  BY DEF Token, Take, Issued

(* What the server and the web processes do to their sets keeps the types.  *)
LEMMA StoreStep ==
    ASSUME StoreOK, OAuth PROVE StoreOK'
<1>0. /\ Len(owner) \in Nat /\ Len(codeOf) \in Nat /\ Len(earned) \in Nat
      /\ Drawn = 1 .. Len(owner)
  BY DEF StoreOK, Drawn
<1> USE <1>0 DEF StoreOK, Optional, Handles, Drawn, Begin
<1>1. ASSUME NEW r \in Requests, NEW kind \in Kinds, Open(r, kind) PROVE StoreOK'
  BY <1>1 DEF Open, store
<1>2. ASSUME NEW r \in Requests, Refuse(r) PROVE StoreOK'
  BY <1>2 DEF Refuse, store
<1>3. ASSUME NEW r \in Requests, Register(r) PROVE StoreOK'
  <2>1. known' = known + 1 /\ clients' = clients \cup {known'}
    BY <1>3 DEF Register
  <2>2. owner \in Seq(1..known') /\ codeOf \in Seq(1..known')
    BY <2>1, Wider
  <2>3. /\ owner' = owner /\ earned' = earned /\ codeOf' = codeOf /\ codes' = codes
        /\ expired' = expired /\ UNCHANGED store
    BY <1>3 DEF Register
  <2>4. clients' \subseteq 1 .. known' /\ known' \in Nat
    BY <2>1
  <2>5. owner' \in Seq(1..known') /\ codeOf' \in Seq(1..known') /\ earned' \in Seq(1..Len(codeOf'))
    BY <2>2, <2>3
  <2>6. /\ Len(earned') = Len(owner') /\ codes' \subseteq 1 .. Len(codeOf')
        /\ expired' \subseteq 1 .. Len(owner')
    BY <2>3
  <2>7. UNCHANGED <<tokens, file, revoked, recent, murky, fresh, blind, edit>>
    BY <2>3 DEF store
  <2> QED
    BY <2>3, <2>4, <2>5, <2>6, <2>7
<1>4. ASSUME NEW r \in Requests, Authorize(r) PROVE StoreOK'
  <2>1. PICK c \in clients :
           \/ codeOf' = codeOf /\ codes' = codes
           \/ codeOf' = Append(codeOf, c) /\ codes' = codes \cup {Len(codeOf')}
    BY <1>4 DEF Authorize
  <2>2. /\ codeOf' \in Seq(1..known) /\ Len(codeOf') \in Nat /\ Len(codeOf) <= Len(codeOf')
        /\ codes' \subseteq 1 .. Len(codeOf')
    <3>1. CASE codeOf' = codeOf /\ codes' = codes
      BY <3>1
    <3>2. CASE codeOf' = Append(codeOf, c) /\ codes' = codes \cup {Len(codeOf')}
      <4>1. Append(codeOf, c) \in Seq(1..known) /\ Len(Append(codeOf, c)) = Len(codeOf) + 1
        BY OneMore
      <4> QED
        BY <3>2, <4>1
    <3> QED
      BY <2>1, <3>1, <3>2
  <2>3. earned \in Seq(1..Len(codeOf'))
    BY <2>2, Wider
  <2> QED
    BY <1>4, <2>2, <2>3 DEF Authorize, store
<1>5. ASSUME NEW r \in Requests, Token(r) PROVE StoreOK'
  <2>0. UNCHANGED <<known, clients, codeOf, expired, fresh, edit, recent>>
    BY <1>5 DEF Token
  <2>1. PICK d \in codes :
           /\ codes' = codes \ {d}
           /\ Issued(d) \/ UNCHANGED <<owner, earned, tokens, blind, file, murky, revoked>>
    BY <1>5, TokenCases
  <2>2. codes' \subseteq codes
    BY <2>1
  <2>3. CASE UNCHANGED <<owner, earned, tokens, blind, file, murky, revoked>>
    BY <2>0, <2>2, <2>3
  <2>4. CASE Issued(d)
    <3> DEFINE n == Len(owner) + 1
               gone == Replaced(codeOf[d])
    <3>1. codeOf[d] \in 1 .. known
      OBVIOUS
    <3>2. /\ owner' \in Seq(1..known) /\ Len(owner') = n
          /\ earned' \in Seq(1..Len(codeOf)) /\ Len(earned') = Len(earned) + 1
      BY <2>4, <3>1, OneMore DEF Issued
    <3>3. /\ tokens' = (tokens \ gone) \cup {n} /\ revoked' = revoked \cup gone
          /\ file' \subseteq tokens' \cup file
          /\ murky' \subseteq murky \cup tokens \cup file \cup (gone \cup {n})
          /\ blind' \in BOOLEAN
      BY <2>4, Saved DEF Issued
    <3>4. gone \subseteq tokens
      BY DEF Replaced
    <3>5. Drawn \subseteq 1 .. Len(owner') /\ n \in 1 .. Len(owner')
      BY <3>2
    <3>6. /\ tokens' \subseteq 1 .. Len(owner') /\ file' \subseteq 1 .. Len(owner')
          /\ revoked' \subseteq 1 .. Len(owner') /\ murky' \subseteq 1 .. Len(owner')
      BY <3>3, <3>4, <3>5
    <3>7. /\ recent' \subseteq 1 .. Len(owner') /\ expired' \subseteq 1 .. Len(owner')
          /\ \A w \in Web : edit'[w] # NoEdit =>
                edit'[w].read \subseteq 1 .. Len(owner') /\ edit'[w].off \subseteq edit'[w].read
      BY <2>0, <3>5
    <3> QED
      BY <2>0, <2>2, <3>2, <3>3, <3>6, <3>7
  <2> QED
    BY <2>1, <2>3, <2>4
<1>6. ASSUME NEW r \in Requests, Revoke(r) PROVE StoreOK'
  <2>1. PICK t \in tokens : Save(tokens \ {t}, {t}) /\ revoked' = revoked \cup {t}
    BY <1>6 DEF Revoke
  <2>2. /\ tokens' = tokens \ {t}
        /\ file' \subseteq tokens' \cup file
        /\ murky' \subseteq murky \cup tokens \cup file \cup {t}
        /\ blind' \in BOOLEAN
    BY <2>1, Saved
  <2> QED
    BY <1>6, <2>1, <2>2 DEF Revoke
<1>7. ASSUME Call PROVE StoreOK'
  BY <1>7 DEF Call, Loaded, oauth
<1>8. ASSUME CacheAges \/ SetEnabled PROVE StoreOK'
  BY <1>8 DEF CacheAges, SetEnabled, oauth, store
<1>9. ASSUME WindowAges PROVE StoreOK'
  BY <1>9 DEF WindowAges, store
<1>10. ASSUME Restart PROVE StoreOK'
  BY <1>10 DEF Restart
<1>11. ASSUME NEW t \in Drawn, TokenAges(t) PROVE StoreOK'
  BY <1>11 DEF TokenAges, store
<1>12. ASSUME NEW w \in Web, EditRead(w) PROVE StoreOK'
  <2>1. PICK read \in {file, {}}, off \in SUBSET file :
           off \subseteq read /\ edit' = [edit EXCEPT ![w] = [read |-> read, off |-> off]]
    <3>1. CASE \E off \in {{t} : t \in file} \cup {file} :
                  edit' = [edit EXCEPT ![w] = [read |-> file, off |-> off]]
      BY <3>1
    <3>2. CASE edit' = [edit EXCEPT ![w] = [read |-> {}, off |-> {}]]
      BY <3>2
    <3> QED
      BY <1>12, <3>1, <3>2 DEF EditRead
  <2>3. [read |-> read, off |-> off] \in Edits
    BY DEF Edits
  <2>4. edit'[w] = [read |-> read, off |-> off] /\ \A v \in Web \ {w} : edit'[v] = edit[v]
    BY <2>1
  <2>5. edit' \in [Web -> Edits]
    BY <2>1, <2>3
  <2>6. UNCHANGED <<oauth, tokens, fresh, blind, file, revoked, recent, murky>>
    BY <1>12 DEF EditRead
  <2>7. UNCHANGED <<owner, earned, known, clients, codes, codeOf, expired>>
    BY <2>6 DEF oauth
  <2>8. ASSUME NEW v \in Web, edit'[v] # NoEdit
        PROVE  edit'[v].read \subseteq Drawn /\ edit'[v].off \subseteq edit'[v].read
    <3>1. CASE v = w
      BY <2>1, <2>4, <3>1
    <3>2. CASE v # w
      BY <2>4, <2>8, <3>2
    <3> QED
      BY <3>1, <3>2
  <2> QED
    BY <2>5, <2>6, <2>7, <2>8
<1>13. ASSUME NEW w \in Web, EditWrite(w) PROVE StoreOK'
  <2>1. /\ edit' = [edit EXCEPT ![w] = NoEdit] /\ NoEdit \in Edits
        /\ edit[w].read \subseteq Drawn /\ edit[w].off \subseteq Drawn
    BY <1>13 DEF EditWrite, NoEdit, Edits
  <2>2. edit' \in [Web -> Edits] /\ edit'[w] = NoEdit /\ \A v \in Web \ {w} : edit'[v] = edit[v]
    BY <2>1
  <2>3. /\ file' \subseteq Drawn /\ murky' \subseteq Drawn
        /\ revoked' \subseteq Drawn /\ recent' \subseteq Drawn
    BY <1>13, <2>1 DEF EditWrite, Kept
  <2> QED
    BY <1>13, <2>2, <2>3 DEF EditWrite, oauth
<1> QED
  BY <1>1, <1>2, <1>3, <1>4, <1>5, <1>6, <1>7, <1>8, <1>9, <1>10, <1>11, <1>12, <1>13 DEF OAuth

-----------------------------------------------------------------------------
(* The three parts share nothing but a restart's effect on the stamping. *)
LEMMA OAuthFrame ==
    ASSUME OAuth
    PROVE  /\ UNCHANGED account
           /\ \/ UNCHANGED static
              \/ /\ due' = TRUE /\ stamping' = None
                 /\ UNCHANGED <<inRow, minted, allow, host, used, row, query, cli, printed>>
  BY DEF OAuth, Open, Refuse, Register, Authorize, Token, Revoke, Call, CacheAges, WindowAges,
         Restart, SetEnabled, TokenAges, EditRead, EditWrite, server

(* The steps on the static key touch nothing else.                         *)
LEMMA StaticFrame ==
    ASSUME StaticKey
    PROVE  UNCHANGED <<enabled, oauth, store, account>>
  BY DEF StaticKey, UseKey, StampKey, KeyAges, WebRead, WebCommit, Tailnet, Configure,
         CliRead, CliAllow, CliWrite, CliQuery, CliRevoke, CliClear

(* The steps on the accounts touch nothing else.                           *)
LEMMA AccountsFrame ==
    ASSUME Accounts
    PROVE  UNCHANGED <<enabled, oauth, store, static, faults>>
  BY DEF Accounts, LoginDone, ChangeDone, LoginRead, ChangeRead, Logout

(* What a command becomes, alone among those of all terminals.             *)
LEMMA CommandStep ==
    ASSUME cli \in [Terminals -> Commands], \A c \in Terminals : CommandOK(cli[c], minted),
           minted \in Nat, minted' \in Nat, minted <= minted',
           NEW c \in Terminals, NEW d, cli' = [cli EXCEPT ![c] = d], CommandOK(d, minted')
    PROVE  /\ cli' \in [Terminals -> Commands] /\ \A e \in Terminals : CommandOK(cli'[e], minted')
           /\ cli'[c] = d /\ \A e \in Terminals \ {c} : cli'[e] = cli[e]
<1>1. d \in Commands
  BY DEF CommandOK
<1>2. cli'[c] = d /\ \A e \in Terminals \ {c} : cli'[e] = cli[e]
  OBVIOUS
<1>3. cli' \in [Terminals -> Commands]
  BY <1>1
<1>4. CommandOK(cli'[c], minted')
  BY <1>2
<1>5. ASSUME NEW e \in Terminals \ {c} PROVE CommandOK(cli'[e], minted')
  <2>1. /\ cli'[e] \in Commands /\ cli'[e].key \in Optional(1 .. minted)
        /\ cli'[e].seen <= minted /\ (cli'[e].pc = "allow" => cli'[e].allow # None)
    BY <1>2 DEF CommandOK
  <2>2. cli'[e].key \in Optional(1 .. minted') /\ cli'[e].seen \in Nat
    BY <2>1 DEF Optional, Commands
  <2> QED
    BY <2>1, <2>2 DEF CommandOK
<1> QED
  BY <1>2, <1>3, <1>4, <1>5

(* A command that moves on with another of its fields changed.             *)
LEMMA CommandChanged ==
    ASSUME NEW d \in Commands, NEW q, NEW n
    PROVE  /\ [d EXCEPT !.pc = q, !.seen = n]
                 = [pc |-> q, op |-> d.op, allow |-> d.allow, key |-> d.key, seen |-> n]
           /\ [d EXCEPT !.pc = q, !.key = n]
                 = [pc |-> q, op |-> d.op, allow |-> d.allow, key |-> n, seen |-> d.seen]
<1>1. [d EXCEPT !.pc = q]
         = [pc |-> q, op |-> d.op, allow |-> d.allow, key |-> d.key, seen |-> d.seen]
  BY DEF Commands
<1> DEFINE e == [pc |-> q, op |-> d.op, allow |-> d.allow, key |-> d.key, seen |-> d.seen]
<1>2. /\ [e EXCEPT !.seen = n]
            = [pc |-> q, op |-> d.op, allow |-> d.allow, key |-> d.key, seen |-> n]
      /\ [e EXCEPT !.key = n]
            = [pc |-> q, op |-> d.op, allow |-> d.allow, key |-> n, seen |-> d.seen]
  OBVIOUS
<1> HIDE DEF e
<1>3. [d EXCEPT !.pc = q] = e
  BY <1>1 DEF e
<1> QED
  BY <1>2, <1>3, Zenon

(* A command goes on at another place, or ends.                            *)
LEMMA CommandMoves ==
    ASSUME StaticOK, NEW c \in Terminals, UNCHANGED minted,
           \/ CliEnd(c)
           \/ \E q \in {"idle", "read", "allow", "write", "query", "revoke", "clear"} :
                 /\ q = "allow" => cli[c].allow # None
                 /\ CliTo(c, q) \/ CliChecked(c, q)
    PROVE  /\ cli' \in [Terminals -> Commands] /\ \A e \in Terminals : CommandOK(cli'[e], minted')
           /\ \A e \in Terminals \ {c} : cli'[e] = cli[e]
<1>1. /\ cli[c] \in Commands /\ CommandOK(cli[c], minted) /\ minted \in Nat
      /\ key \in Optional(1 .. minted)
  BY DEF StaticOK
<1>s. /\ cli \in [Terminals -> Commands] /\ \A e \in Terminals : CommandOK(cli[e], minted)
      /\ minted' \in Nat /\ minted <= minted'
  BY <1>1 DEF StaticOK
<1>2. CASE CliEnd(c)
  <2>1. CommandOK(IdleCli, minted')
    BY <1>1 DEF CommandOK, IdleCli, Commands, Optional
  <2>2. cli' = [cli EXCEPT ![c] = IdleCli]
    BY <1>2 DEF CliEnd
  <2> QED
    BY <1>1, <1>s, <2>1, <2>2, CommandStep
<1>3. ASSUME NEW q \in {"idle", "read", "allow", "write", "query", "revoke", "clear"},
             q = "allow" => cli[c].allow # None, CliTo(c, q) \/ CliChecked(c, q)
      PROVE  /\ cli' \in [Terminals -> Commands] /\ \A e \in Terminals : CommandOK(cli'[e], minted')
             /\ \A e \in Terminals \ {c} : cli'[e] = cli[e]
  <2>1. PICK n \in 0 .. minted :
            cli' = [cli EXCEPT ![c] = [pc |-> q, op |-> cli[c].op, allow |-> cli[c].allow,
                                       key |-> cli[c].key, seen |-> n]]
    <3>1. CASE CliTo(c, q)
      <4>1. cli[c].seen \in 0 .. minted
        BY <1>1 DEF CommandOK, Commands
      <4>2. cli' = [cli EXCEPT ![c] = [pc |-> q, op |-> cli[c].op, allow |-> cli[c].allow,
                                       key |-> cli[c].key, seen |-> cli[c].seen]]
        <5>1. [cli[c] EXCEPT !.pc = q] = [pc |-> q, op |-> cli[c].op, allow |-> cli[c].allow,
                                          key |-> cli[c].key, seen |-> cli[c].seen]
          BY <1>1 DEF Commands
        <5>2. cli' = [cli EXCEPT ![c] = [cli[c] EXCEPT !.pc = q]]
          BY <3>1 DEF CliTo
        <5> QED
          BY <5>1, <5>2
      <4> QED
        BY <4>1, <4>2
    <3>2. CASE CliChecked(c, q)
      <4> DEFINE n == IF key = None THEN minted ELSE key - 1
      <4>1. n \in 0 .. minted
        BY <1>1 DEF Optional
      <4>2. cli' = [cli EXCEPT ![c] = [cli[c] EXCEPT !.pc = q, !.seen = n]]
        BY <3>2 DEF CliChecked
      <4> HIDE DEF n
      <4>3. cli' = [cli EXCEPT ![c] = [pc |-> q, op |-> cli[c].op, allow |-> cli[c].allow,
                                       key |-> cli[c].key, seen |-> n]]
        <5>1. [cli[c] EXCEPT !.pc = q, !.seen = n]
                 = [pc |-> q, op |-> cli[c].op, allow |-> cli[c].allow, key |-> cli[c].key,
                    seen |-> n]
          BY <1>1, CommandChanged
        <5>2. cli' = [cli EXCEPT ![c] = [cli[c] EXCEPT !.pc = q, !.seen = n]]
          BY <4>2
        <5> QED
          BY <5>1, <5>2
      <4> QED
        BY <4>1, <4>3
    <3> QED
      BY <1>3, <3>1, <3>2
  <2> DEFINE d == [pc |-> q, op |-> cli[c].op, allow |-> cli[c].allow, key |-> cli[c].key,
                   seen |-> n]
  <2>2. d \in Commands
    BY <1>1 DEF Commands
  <2>3. CommandOK(d, minted')
    BY <1>1, <1>3, <2>2 DEF CommandOK
  <2>4. cli' = [cli EXCEPT ![c] = d]
    BY <2>1
  <2> HIDE DEF d
  <2> QED
    BY <1>1, <1>s, <2>3, <2>4, CommandStep
<1> QED
  BY <1>2, <1>3

(* Commands that stay as they are suit a row with more keys.               *)
LEMMA CommandsStay ==
    ASSUME StaticOK, cli' = cli, minted' \in Nat, minted <= minted'
    PROVE  cli' \in [Terminals -> Commands] /\ \A e \in Terminals : CommandOK(cli'[e], minted')
<1> SUFFICES ASSUME NEW e \in Terminals PROVE CommandOK(cli'[e], minted')
  BY DEF StaticOK
<1>1. /\ cli[e] \in Commands /\ cli[e].key \in Optional(1 .. minted) /\ minted \in Nat
      /\ cli[e].seen <= minted /\ (cli[e].pc = "allow" => cli[e].allow # None)
  BY DEF StaticOK, CommandOK
<1>2. cli[e].key \in Optional(1 .. minted') /\ cli[e].seen \in Nat
  BY <1>1 DEF Optional, Commands
<1> QED
  BY <1>1, <1>2 DEF CommandOK

(* The steps on the static key keep its types.                             *)
LEMMA StaticStep ==
    ASSUME StaticOK, RestOK, StaticKey
    PROVE  StaticOK' /\ begun' \in Nat /\ faults' \in Nat
<1> DEFINE G == StaticOK' /\ begun' \in Nat /\ faults' \in Nat
           C == cli' \in [Terminals -> Commands] /\ \A e \in Terminals : CommandOK(cli'[e], minted')
<1> USE DEF Begin, Fault, NoFault, Running, Optional, inRow, printed, server, host
<1>0. begun \in Nat /\ faults \in Nat /\ minted \in Nat
  BY DEF RestOK, StaticOK
<1> USE <1>0
\* A key, or none, is put in the row.
<1>p. ASSUME NEW k, Put(k)
      PROVE  /\ key' = k /\ lapsed' \in BOOLEAN /\ told' = None /\ lastUsed' \in BOOLEAN
             /\ overtaken' \in BOOLEAN
  BY <1>p DEF Put
<1>c. ASSUME UNCHANGED <<cli, minted>> PROVE C
  BY <1>c, CommandsStay
<1>1. ASSUME UseKey PROVE G
  <2>1. key \in 1 .. minted
    BY <1>1 DEF UseKey, KeyWorks, StaticOK
  <2>2. used' \subseteq 1 .. minted /\ stamping' \in Optional(1 .. minted) /\ due' = FALSE
    BY <1>1, <2>1 DEF UseKey, StaticOK
  <2>3. UNCHANGED <<key, minted, lapsed, allow, network, tailnet, lastUsed, row, query, cli,
                    told, crossed, overtaken>> /\ begun' \in Nat /\ faults' = faults
    BY <1>1 DEF UseKey
  <2>4. C
    BY <1>c, <2>3
  <2> QED
    BY <2>2, <2>3, <2>4, ZenonT(60) DEF StaticOK
<1>2. ASSUME StampKey PROVE G
  <2>1. C
    BY <1>2, <1>c DEF StampKey
  <2> QED
    BY <1>2, <2>1 DEF StampKey, StaticOK
<1>3. ASSUME KeyAges PROVE G
  <2>1. /\ lapsed' \in BOOLEAN /\ due' \in BOOLEAN /\ told' \in Optional(1 .. minted)
    <3>1. CASE due' = TRUE /\ UNCHANGED <<lapsed, told>>
      BY <3>1 DEF StaticOK
    <3>2. CASE lapsed' = TRUE /\ told' = None /\ UNCHANGED due
      BY <3>2 DEF StaticOK
    <3> QED
      BY <1>3, <3>1, <3>2 DEF KeyAges
  <2>2. UNCHANGED <<key, minted, allow, network, tailnet, lastUsed, stamping, row, query, cli,
                    used, overtaken, crossed>> /\ begun' \in Nat /\ faults' = faults
    BY <1>3 DEF KeyAges
  <2>3. C
    BY <1>c, <2>2
  <2> QED
    BY <2>1, <2>2, <2>3 DEF StaticOK
<1>4. ASSUME NEW w \in Web, NEW op \in {"generate", "revoke", "on", "off"}, WebRead(w, op)
      PROVE  G
  <2> DEFINE new == [op |-> op, key |-> key # None, lapsed |-> lapsed, used |-> lastUsed,
                     allow |-> allow]
  <2>1. row' = [row EXCEPT ![w] = new]
    BY <1>4 DEF WebRead
  <2>2. new \in Rows
    BY DEF Rows, StaticOK
  <2> HIDE DEF new
  <2>3. row' \in [Web -> Rows]
    BY <2>1, <2>2 DEF StaticOK
  <2>4. UNCHANGED <<inRow, minted, allow, host, server, query, cli, printed, faults>>
        /\ begun' \in Nat
    BY <1>4 DEF WebRead
  <2>5. C
    BY <1>c, <2>4
  <2> QED
    BY <2>3, <2>4, <2>5 DEF StaticOK
<1>5. ASSUME NEW w \in Web, WebCommit(w) PROVE G
  <2>1. /\ UNCHANGED <<network, tailnet, due, stamping, used, query, cli, crossed, begun>>
        /\ row' = [row EXCEPT ![w] = NoRow] /\ faults' \in Nat
    BY <1>5 DEF WebCommit
  <2>2. row' \in [Web -> Rows]
    BY <2>1 DEF StaticOK, NoRow, Rows
  <2>3. row[w].allow \in BOOLEAN
    BY DEF StaticOK, Rows
  <2>4. ASSUME Cleared(row[w])
        PROVE  lastUsed' \in BOOLEAN /\ lapsed' \in BOOLEAN /\ overtaken' \in BOOLEAN
    BY <2>4 DEF Cleared, StaticOK
  <2>5. /\ minted' \in Nat /\ minted <= minted' /\ key' \in Optional(1 .. minted')
        /\ lastUsed' \in BOOLEAN /\ lapsed' \in BOOLEAN /\ overtaken' \in BOOLEAN
        /\ told' \in Optional(1 .. minted') /\ allow' \in BOOLEAN
    <3>1. CASE /\ minted' = minted + 1 /\ key' = minted' /\ Cleared(row[w])
               /\ told' = None /\ UNCHANGED allow
      BY <2>4, <3>1 DEF StaticOK
    <3>2. CASE /\ key' = (IF row[w].key THEN None ELSE key) /\ Cleared(row[w])
               /\ told' = (IF row[w].key THEN None ELSE told) /\ UNCHANGED <<minted, allow>>
      BY <2>4, <3>2 DEF StaticOK
    <3>3. CASE /\ allow' = (IF row[w].allow = (row[w].op = "on") THEN allow ELSE row[w].op = "on")
               /\ UNCHANGED <<inRow, minted, told>>
      <4>1. allow' \in BOOLEAN
        BY <3>3, Zenon DEF StaticOK
      <4> QED
        BY <3>3, <4>1 DEF StaticOK
    <3>4. CASE UNCHANGED <<inRow, minted, allow, told>>
      BY <3>4 DEF StaticOK
    <3> QED
      BY <1>5, <3>1, <3>2, <3>3, <3>4 DEF WebCommit
  <2>6. C
    BY <2>1, <2>5, CommandsStay
  <2>7. /\ stamping \in Optional(1 .. minted') /\ query \in Optional(0 .. minted')
        /\ used \subseteq 1 .. minted'
    BY <2>5 DEF StaticOK
  <2> QED
    BY <2>1, <2>2, <2>5, <2>6, <2>7 DEF StaticOK
<1>6. ASSUME Tailnet PROVE G
  <2>1. C
    BY <1>6, <1>c DEF Tailnet
  <2> QED
    BY <1>6, <2>1 DEF Tailnet, StaticOK
<1>7. ASSUME NEW c \in Terminals,
             NEW op \in {"generate", "rotate", "revoke", "allow", "manual"},
             NEW a \in Optional(BOOLEAN), Configure(c, op, a) PROVE G
  <2> DEFINE p == CASE op = "allow" -> "allow" [] op = "manual" -> "query" [] OTHER -> "read"
             d == [pc |-> p, op |-> op, allow |-> a, key |-> None, seen |-> 0]
  <2>1. cli' = [cli EXCEPT ![c] = d]
    BY <1>7, Zenon DEF Configure
  <2>2. p \in {"allow", "query", "read"} /\ (p = "allow" => a # None)
    BY <1>7 DEF Configure
  <2> HIDE DEF p
  <2>0. minted' = minted
    BY <1>7 DEF Configure
  <2>3. d \in Commands
    BY <2>2 DEF Commands
  <2>4. CommandOK(d, minted')
    BY <2>0, <2>2, <2>3 DEF CommandOK
  <2> HIDE DEF d
  <2>5. C
    <3>1. minted' \in Nat /\ minted <= minted'
      BY <2>0
    <3> QED
      BY <2>1, <2>4, <3>1, CommandStep DEF StaticOK
  <2> QED
    BY <1>7, <2>5 DEF Configure, StaticOK
<1>8. ASSUME NEW c \in Terminals, CliRead(c) PROVE G
  <2>1. UNCHANGED minted
    BY <1>8 DEF CliRead
  <2>2. C
    BY <1>8, <2>1, CommandMoves DEF CliRead
  <2> QED
    BY <1>8, <2>2 DEF CliRead, StaticOK
<1>9. ASSUME NEW c \in Terminals, CliAllow(c) PROVE G
  <2>1. UNCHANGED minted
    BY <1>9 DEF CliAllow
  <2>2. C
    BY <1>9, <2>1, CommandMoves DEF CliAllow
  <2>3. cli[c].allow \in BOOLEAN
    BY <1>9 DEF CliAllow, StaticOK, CommandOK, Commands
  <2> QED
    BY <1>9, <2>2, <2>3 DEF CliAllow, StaticOK
<1>10. ASSUME NEW c \in Terminals, CliWrite(c) PROVE G
  <2>1. minted' = minted + 1
    BY <1>10 DEF CliWrite
  <2>s. /\ cli \in [Terminals -> Commands] /\ \A e \in Terminals : CommandOK(cli[e], minted)
        /\ minted' \in Nat /\ minted <= minted'
    BY <2>1 DEF StaticOK
  <2>2. C
    <3>1. CASE CliEnd(c)
      <4>1. CommandOK(IdleCli, minted')
        BY <2>1 DEF CommandOK, IdleCli, Commands
      <4>2. cli' = [cli EXCEPT ![c] = IdleCli]
        BY <3>1 DEF CliEnd
      <4> QED
        BY <2>1, <2>s, <4>1, <4>2, CommandStep
    <3>2. CASE cli' = [cli EXCEPT ![c] = [cli[c] EXCEPT !.pc = "query", !.key = minted']]
      <4> DEFINE d == [pc |-> "query", op |-> cli[c].op, allow |-> cli[c].allow,
                       key |-> minted', seen |-> cli[c].seen]
      <4>1. cli[c] \in Commands /\ cli[c].seen <= minted
        BY DEF StaticOK, CommandOK
      <4>2. cli' = [cli EXCEPT ![c] = d]
        <5>1. [cli[c] EXCEPT !.pc = "query", !.key = minted'] = d
          BY <4>1, CommandChanged
        <5>2. cli' = [cli EXCEPT ![c] = [cli[c] EXCEPT !.pc = "query", !.key = minted']]
          BY <3>2
        <5> QED
          BY <5>1, <5>2
      <4>3. minted' \in Nat /\ minted' \in 1 .. minted' /\ cli[c].seen <= minted'
        BY <2>1, <4>1 DEF Commands
      <4>4. d \in Commands
        BY <4>1, <4>3 DEF Commands
      <4>5. CommandOK(d, minted')
        BY <4>3, <4>4 DEF CommandOK
      <4> HIDE DEF d
      <4> QED
        BY <2>s, <4>2, <4>5, CommandStep
    <3> QED
      BY <1>10, <3>1, <3>2 DEF CliWrite
  <2>3. /\ key' \in Optional(1 .. minted') /\ lapsed' \in BOOLEAN /\ lastUsed' \in BOOLEAN
        /\ told' \in Optional(1 .. minted') /\ overtaken' \in BOOLEAN
    <3>1. CASE Put(minted')
      BY <1>p, <2>1, <3>1
    <3>2. CASE UNCHANGED <<inRow, told>>
      BY <2>1, <3>2 DEF StaticOK
    <3> QED
      BY <1>10, <3>1, <3>2 DEF CliWrite
  <2>4. /\ stamping \in Optional(1 .. minted') /\ query \in Optional(0 .. minted')
        /\ used \subseteq 1 .. minted'
    BY <2>1 DEF StaticOK
  <2> QED
    BY <1>10, <2>1, <2>2, <2>3, <2>4 DEF CliWrite, StaticOK
<1>11. ASSUME NEW c \in Terminals, CliQuery(c) PROVE G
  <2>1. UNCHANGED minted
    BY <1>11 DEF CliQuery
  <2>2. C
    BY <1>11, <2>1, CommandMoves DEF CliQuery
  <2>3. cli[c].key \in Optional(1 .. minted)
    BY DEF StaticOK, CommandOK
  <2>4. query' \in Optional(0 .. minted)
    <3>1. query' \in {query, 0, cli[c].key}
      BY <1>11 DEF CliQuery, SetToken
    <3> QED
      BY <2>3, <3>1 DEF StaticOK
  <2>5. told' \in {told, None, key} /\ crossed' \in {crossed, TRUE, FALSE}
    BY <1>11 DEF CliQuery
  <2>6. told' \in Optional(1 .. minted) /\ crossed' \in BOOLEAN
    BY <2>5 DEF StaticOK
  <2> QED
    BY <1>11, <2>2, <2>4, <2>6 DEF CliQuery, StaticOK
<1>12. ASSUME NEW c \in Terminals, CliRevoke(c) PROVE G
  <2>1. UNCHANGED minted
    BY <1>12 DEF CliRevoke
  <2>2. C
    BY <1>12, <2>1, CommandMoves DEF CliRevoke
  <2>3. UNCHANGED <<minted, allow, host, server, row, query, crossed, begun>> /\ faults' \in Nat
    BY <1>12 DEF CliRevoke
  <2>4. CASE Put(None)
    BY <1>p, <2>2, <2>3, <2>4 DEF StaticOK
  <2>5. CASE UNCHANGED <<inRow, told>>
    BY <2>2, <2>3, <2>5 DEF StaticOK
  <2> QED
    BY <1>12, <2>4, <2>5 DEF CliRevoke
<1>13. ASSUME NEW c \in Terminals, CliClear(c) PROVE G
  <2>1. UNCHANGED minted
    BY <1>13 DEF CliClear
  <2>2. C
    BY <1>13, <2>1, CommandMoves DEF CliClear
  <2> QED
    BY <1>13, <2>2 DEF CliClear, StaticOK
<1> QED
  BY <1>1, <1>2, <1>3, <1>4, <1>5, <1>6, <1>7, <1>8, <1>9, <1>10, <1>11, <1>12, <1>13
     DEF StaticKey

(* The steps on the accounts keep their types.                             *)
LEMMA AccountStep ==
    ASSUME AccountOK, RestOK, Accounts
    PROVE  AccountOK' /\ begun' \in Nat
<1> DEFINE G == AccountOK' /\ begun' \in Nat
           Form(b, kind) == [b |-> b, kind |-> kind, stamp |-> stamp, password |-> password]
<1>0. NoForm.kind = "none" /\ NoForm \in Forms
  BY DEF NoForm, Forms
\* A form is begun with the account as it is, and dropped when it is done.
<1>1. ASSUME NEW w \in Web, NEW b \in Browsers, NEW kind \in {"login", "change"},
             form' = [form EXCEPT ![w] = Form(b, kind)], begun' = begun + 1,
             UNCHANGED <<password, stamp, session, by>>
      PROVE  G
  <2>1. Form(b, kind) \in Forms /\ Form(b, kind).stamp = stamp
    BY DEF Forms, AccountOK
  <2> HIDE DEF Form
  <2>2. form' \in [Web -> Forms] /\ \A v \in Web : form'[v] \in {form[v], Form(b, kind)}
    BY <1>1, <2>1 DEF AccountOK
  <2>3. \A v \in Web : form'[v].kind # "none" => form'[v].stamp <= stamp
    BY <2>1, <2>2 DEF AccountOK
  <2> QED
    BY <1>1, <2>2, <2>3 DEF AccountOK, RestOK
<1>2. ASSUME NEW w \in Web, NEW b \in Browsers, LoginRead(w, b) PROVE G
  BY <1>1, <1>2 DEF LoginRead, Begin
<1>3. ASSUME NEW w \in Web, NEW b \in Browsers, ChangeRead(w, b) PROVE G
  BY <1>1, <1>3 DEF ChangeRead, Begin
<1>4. ASSUME NEW w \in Web, form' = [form EXCEPT ![w] = NoForm]
      PROVE  /\ form' \in [Web -> Forms]
             /\ \A v \in Web : form'[v].kind # "none" =>
                   form'[v] = form[v] /\ form'[v].stamp <= stamp
  <2>1. form' \in [Web -> Forms] /\ \A v \in Web : form'[v] = form[v] \/ form'[v] = NoForm
    BY <1>0, <1>4 DEF AccountOK
  <2> QED
    BY <1>0, <2>1 DEF AccountOK
<1>5. ASSUME NEW w \in Web, form[w].kind # "none"
      PROVE  /\ form[w].b \in Browsers /\ form[w].stamp \in 0 .. stamp
             /\ form[w].password \in Nat
  <2>1. form[w] \in [b : Browsers, kind : {"login", "change"}, stamp : Nat, password : Nat]
    BY <1>0, <1>5 DEF AccountOK, Forms
  <2>2. form[w].b \in Browsers /\ form[w].stamp \in Nat /\ form[w].password \in Nat
    BY <2>1
  <2> QED
    BY <1>5, <2>2 DEF AccountOK
<1>6. ASSUME NEW w \in Web, LoginDone(w) PROVE G
  BY <1>4, <1>5, <1>6 DEF LoginDone, StampRead, AccountOK, RestOK
<1>7. ASSUME NEW w \in Web, ChangeDone(w) PROVE G
  <2>1. /\ form' = [form EXCEPT ![w] = NoForm] /\ form[w].b \in Browsers
        /\ password' = password + 1 /\ stamp' = stamp + 1
        /\ session' = [session EXCEPT ![form[w].b] = stamp']
        /\ by' = [by EXCEPT ![form[w].b] = password'] /\ begun' = begun
    BY <1>5, <1>7 DEF ChangeDone
  <2>2. session' \in [Browsers -> 0 .. stamp'] /\ by' \in [Browsers -> Nat]
    BY <2>1 DEF AccountOK
  <2>3. /\ form' \in [Web -> Forms]
        /\ \A v \in Web : form'[v].kind # "none" =>
              form'[v] = form[v] /\ form'[v].stamp <= stamp
    BY <1>4, <2>1
  <2>4. \A v \in Web : form'[v].kind # "none" => form'[v].stamp <= stamp'
    <3> SUFFICES ASSUME NEW v \in Web, form'[v].kind # "none" PROVE form'[v].stamp <= stamp'
      OBVIOUS
    <3>1. form'[v] = form[v] /\ form[v].stamp <= stamp /\ form[v].stamp \in Nat
      <4>1. form'[v] = form[v]
        BY <2>3
      <4>2. form[v].stamp \in 0 .. stamp
        BY <1>5, <4>1
      <4> QED
        BY <4>1, <4>2 DEF AccountOK
    <3> QED
      BY <2>1, <3>1 DEF AccountOK
  <2> QED
    BY <2>1, <2>2, <2>3, <2>4 DEF AccountOK, RestOK
<1>8. ASSUME NEW b \in Browsers, Logout(b) PROVE G
  BY <1>8 DEF Logout, AccountOK, RestOK, Begin
<1> QED
  BY <1>2, <1>3, <1>6, <1>7, <1>8 DEF Accounts

(* Every step keeps the types.                                             *)
LEMMA TypesStep ==
    ASSUME TypesOK, [Next]_vars
    PROVE  TypesOK'
<1> USE DEF TypesOK
<1>1. CASE UNCHANGED vars
  <2>1. UNCHANGED <<part, enabled, oauth, store, static, account, begun, faults>>
    BY <1>1 DEF vars
  <2>2. StoreOK' /\ RequestsOK'
    BY <2>1 DEF StoreOK, RequestsOK, oauth, store, Drawn
  <2>3. StaticOK' /\ AccountOK' /\ RestOK'
    BY <2>1 DEF StaticOK, CommandOK, AccountOK, RestOK, static, account, inRow, printed, server,
              host
  <2> QED
    BY <2>2, <2>3
<1>2. CASE UNCHANGED part /\ OAuth
  <2>1. StoreOK' /\ RequestsOK' /\ enabled' \in BOOLEAN /\ begun' \in Nat /\ faults' \in Nat
    BY <1>2, StoreStep, RequestsStep
  <2>2. AccountOK'
    BY <1>2, OAuthFrame DEF account, AccountOK
  <2>3. StaticOK'
    BY <1>2, OAuthFrame DEF static, StaticOK, CommandOK, Optional, inRow, printed, server, host
  <2> QED
    BY <1>2, <2>1, <2>2, <2>3 DEF RestOK
<1>3. CASE UNCHANGED part /\ StaticKey
  <2>1. UNCHANGED <<enabled, oauth, store, account>>
    BY <1>3, StaticFrame
  <2>2. StoreOK' /\ RequestsOK' /\ AccountOK'
    BY <2>1 DEF StoreOK, RequestsOK, AccountOK, oauth, store, account, Drawn
  <2>3. StaticOK' /\ begun' \in Nat /\ faults' \in Nat
    BY <1>3, StaticStep
  <2> QED
    BY <1>3, <2>1, <2>2, <2>3 DEF RestOK
<1>4. CASE UNCHANGED part /\ Accounts
  <2>1. UNCHANGED <<enabled, oauth, store, static, faults>>
    BY <1>4, AccountsFrame
  <2>2. StoreOK' /\ RequestsOK' /\ StaticOK'
    BY <2>1 DEF StoreOK, RequestsOK, StaticOK, CommandOK, oauth, store, static, Drawn, inRow,
              printed, server, host
  <2>3. AccountOK' /\ begun' \in Nat
    BY <1>4, AccountStep
  <2> QED
    BY <1>4, <2>1, <2>2, <2>3 DEF RestOK
<1> QED
  BY <1>1, <1>2, <1>3, <1>4 DEF Next

(* The variables keep their types. *)
THEOREM TypeCorrect == Spec => []TypeOK
  BY InitTypes, TypesStep, TypesAreOK, PTL DEF Spec

(* The types always hold.                                                  *)
LEMMA TypesInvariant == Spec => []TypesOK
  BY InitTypes, TypesStep, PTL DEF Spec

-----------------------------------------------------------------------------
(* Registration.  Limits is about the clients, the attempts and the        *)
(* requests whose body is awaited together.                                *)
LEMMA WaitingFinite ==
    /\ IsFiniteSet(Waiting) /\ Cardinality(Waiting) \in Nat
    /\ Cardinality(Waiting) <= Cardinality(Requests) /\ Cardinality(Requests) \in Nat \ {0}
<1>1. IsFiniteSet(Requests) /\ Requests # {}
  BY AccessAssumption
<1>2. Waiting \in SUBSET Requests
  BY DEF Waiting
<1> QED
  BY <1>1, <1>2, FS_Subset, FS_CardinalityType, FS_EmptySet

(* The registered clients are finitely many.                               *)
LEMMA ClientsFinite ==
    ASSUME StoreOK
    PROVE  IsFiniteSet(clients) /\ Cardinality(clients) \in Nat
<1>1. known \in Nat /\ clients \in SUBSET (1 .. known)
  BY DEF StoreOK
<1>2. IsFiniteSet(1 .. known)
  BY <1>1, FS_Interval
<1> QED
  BY <1>1, <1>2, FS_Subset, FS_CardinalityType

(* Fewer clients and fewer requests fit under a limit that more of them    *)
(* fit under.                                                              *)
LEMMA FewerFit ==
    ASSUME NEW m \in Nat, NEW S \in Nat, NEW C \in Nat, NEW W \in Nat,
           NEW D \in Nat, NEW V \in Nat, D <= C, V <= W,
           C <= m + (S - 1), W > 0 => C + W <= m + (S - 1)
    PROVE  D <= m + (S - 1) /\ (V > 0 => D + V <= m + (S - 1))
  OBVIOUS

(* A step that lets no more in keeps the limits. *)
LEMMA NoMore ==
    ASSUME StoreOK, RequestsOK, Limits, clients' \subseteq clients, attempts' <= attempts,
           attempts' \in Nat, Waiting' \subseteq Waiting
    PROVE  Limits'
<1> DEFINE S == Cardinality(Requests)
           C == Cardinality(clients)
           W == Cardinality(Waiting)
           D == Cardinality(clients')
           V == Cardinality(Waiting')
<1>1. S \in Nat \ {0} /\ C \in Nat /\ W \in Nat
  BY WaitingFinite, ClientsFinite
<1>2. V \in Nat /\ V <= W
  <2>1. IsFiniteSet(Waiting')
    BY WaitingFinite, FS_Subset
  <2> QED
    BY <2>1, WaitingFinite, FS_Subset, FS_CardinalityType
<1>3. D \in Nat /\ D <= C
  <2>1. IsFiniteSet(clients')
    BY ClientsFinite, FS_Subset
  <2> QED
    BY <2>1, ClientsFinite, FS_Subset, FS_CardinalityType
<1>4. /\ C <= MaxClients + (S - 1) /\ attempts <= MaxAttempts + (S - 1)
      /\ W > 0 => C + W <= MaxClients + (S - 1) /\ attempts + W <= MaxAttempts + (S - 1)
  BY DEF Limits
<1>5. MaxClients \in Nat /\ MaxAttempts \in Nat /\ attempts \in Nat
  BY AccessAssumption DEF RequestsOK
<1>6. D <= MaxClients + (S - 1) /\ (V > 0 => D + V <= MaxClients + (S - 1))
  <2> HIDE DEF S, C, W, D, V
  <2> QED
    BY <1>1, <1>2, <1>3, <1>4, <1>5, FewerFit
<1>7. /\ attempts' <= MaxAttempts + (S - 1)
      /\ V > 0 => attempts' + V <= MaxAttempts + (S - 1)
  <2> HIDE DEF S, C, W, D, V
  <2> QED
    BY <1>1, <1>2, <1>4, <1>5, FewerFit
<1> QED
  BY <1>6, <1>7 DEF Limits

(* Every step keeps the bound on the clients and on those that still       *)
(* register.                                                               *)
LEMMA LimitsStep ==
    ASSUME StoreOK, RequestsOK, Limits, [Next]_vars
    PROVE  Limits'
<1> DEFINE S == Cardinality(Requests)
           C == Cardinality(clients)
           W == Cardinality(Waiting)
           D == Cardinality(clients')
           V == Cardinality(Waiting')
<1>0. /\ S \in Nat \ {0} /\ C \in Nat /\ W \in Nat /\ W <= S
      /\ IsFiniteSet(Waiting) /\ IsFiniteSet(clients)
      /\ MaxClients \in Nat /\ MaxAttempts \in Nat /\ attempts \in Nat
      /\ C <= MaxClients + (S - 1) /\ attempts <= MaxAttempts + (S - 1)
      /\ W > 0 => C + W <= MaxClients + (S - 1) /\ attempts + W <= MaxAttempts + (S - 1)
  BY WaitingFinite, ClientsFinite, AccessAssumption DEF Limits, RequestsOK
<1>1. ASSUME NEW r \in Requests, Open(r, "register") PROVE Limits'
  <2>1. /\ MayRegister /\ clients' = clients /\ attempts' = attempts
        /\ Waiting' = Waiting \cup {r} /\ r \notin Waiting
    BY <1>1, AccessAssumption DEF Open, Waiting, RequestsOK, Kinds
  <2>2. V = W + 1
    BY <1>0, <2>1, FS_AddElement
  <2>3. V <= S
    <3>1. Waiting' \in SUBSET Requests
      BY DEF Waiting
    <3> QED
      BY <3>1, AccessAssumption, FS_Subset
  <2>4. C < MaxClients /\ attempts < MaxAttempts
    BY <2>1 DEF MayRegister
  <2> HIDE DEF S, C, W, V
  <2>5. /\ C + V <= MaxClients + (S - 1) /\ attempts + V <= MaxAttempts + (S - 1)
    BY <1>0, <2>2, <2>3, <2>4
  <2> QED
    BY <1>0, <2>1, <2>5 DEF Limits, S, C, V
<1>2. ASSUME NEW r \in Requests, Register(r) PROVE Limits'
  <2>1. /\ req[r] = "register" /\ req' = [req EXCEPT ![r] = None]
        /\ attempts' = attempts + 1 /\ known' = known + 1 /\ clients' = clients \cup {known'}
    BY <1>2 DEF Register, Handles
  <2>2. Waiting' = Waiting \ {r} /\ r \in Waiting
    BY <2>1, AccessAssumption DEF Waiting, RequestsOK, Kinds
  <2>3. V = W - 1
    BY <1>0, <2>2, FS_RemoveElement
  <2>4. known' \notin clients
    BY <2>1 DEF StoreOK
  <2>5. D = C + 1
    BY <1>0, <2>1, <2>4, FS_AddElement
  <2>6. W > 0
    BY <1>0, <2>2, FS_EmptySet
  <2> HIDE DEF S, C, W, D, V
  <2>7. /\ D <= MaxClients + (S - 1) /\ attempts' <= MaxAttempts + (S - 1)
        /\ V > 0 => D + V <= MaxClients + (S - 1) /\ attempts' + V <= MaxAttempts + (S - 1)
    BY <1>0, <2>1, <2>3, <2>5, <2>6
  <2> QED
    BY <2>7 DEF Limits, S, D, V
<1> USE AccessAssumption DEF RequestsOK, Waiting, Handles, Kinds
<1>3. ASSUME NEW r \in Requests, NEW kind \in Kinds, kind # "register", Open(r, kind)
      PROVE  Limits'
  BY <1>3, NoMore DEF Open
<1>4. ASSUME NEW r \in Requests, Refuse(r) \/ Authorize(r) \/ Token(r) \/ Revoke(r)
      PROVE  Limits'
  <2>1. /\ clients' = clients /\ attempts' = attempts
        /\ req' = [req EXCEPT ![r] = None]
    BY <1>4 DEF Refuse, Authorize, Token, Revoke
  <2> QED
    BY <2>1, NoMore
<1>5. ASSUME WindowAges \/ Restart PROVE Limits'
  <2>1. clients' \subseteq clients /\ attempts' <= attempts /\ attempts' \in Nat
    BY <1>5 DEF WindowAges, Restart
  <2>2. \A r \in Requests : req'[r] = "register" => req[r] = "register"
    BY <1>5 DEF WindowAges, Restart
  <2>3. Waiting' \subseteq Waiting
    BY <2>2
  <2> QED
    BY <2>1, <2>3, NoMore
<1>6. ASSUME UNCHANGED <<clients, attempts, req>> PROVE Limits'
  BY <1>6 DEF Limits
<1>7. ASSUME Call \/ CacheAges \/ SetEnabled \/ StaticKey \/ Accounts \/ UNCHANGED vars
      PROVE  UNCHANGED <<clients, attempts, req>>
  BY <1>7, StaticFrame, AccountsFrame DEF Call, CacheAges, SetEnabled, vars, oauth
<1>8. ASSUME NEW t \in Drawn, TokenAges(t) PROVE UNCHANGED <<clients, attempts, req>>
  BY <1>8 DEF TokenAges
<1>9. ASSUME NEW w \in Web, EditRead(w) \/ EditWrite(w) PROVE UNCHANGED <<clients, attempts, req>>
  BY <1>9 DEF EditRead, EditWrite, oauth
<1> QED
  BY <1>1, <1>2, <1>3, <1>4, <1>5, <1>6, <1>7, <1>8, <1>9 DEF Next, OAuth

(* Registrations pass the limits by the requests that are open at once, at *)
(* most: the check before the await and the count after it never drift     *)
(* further apart.                                                          *)
THEOREM RegistrationsAreBounded == Spec => []RegistrationBounded
<1>1. Init => Limits
  <2> SUFFICES ASSUME Init PROVE Limits
    OBVIOUS
  <2>1. clients = {} /\ attempts = 0 /\ Waiting = {}
    BY AccessAssumption DEF Init, Waiting, Kinds
  <2>2. Cardinality(clients) = 0 /\ Cardinality(Waiting) = 0
    BY <2>1, FS_EmptySet
  <2> QED
    BY <2>1, <2>2, WaitingFinite, AccessAssumption DEF Limits
<1>2. TypesOK /\ Limits /\ [Next]_vars => Limits'
  BY LimitsStep DEF TypesOK
<1>3. TypesOK /\ Limits => RegistrationBounded
  <2> SUFFICES ASSUME TypesOK, Limits PROVE RegistrationBounded
    OBVIOUS
  <2>1. /\ Cardinality(Requests) \in Nat \ {0} /\ Cardinality(clients) \in Nat
        /\ Cardinality(Waiting) \in Nat /\ MaxClients \in Nat
    BY WaitingFinite, ClientsFinite, AccessAssumption DEF TypesOK
  <2>2. /\ Cardinality(clients) <= MaxClients + (Cardinality(Requests) - 1)
        /\ attempts <= MaxAttempts + (Cardinality(Requests) - 1)
        /\ Cardinality(Waiting) > 0 =>
             Cardinality(clients) + Cardinality(Waiting) <= MaxClients + Cardinality(Requests)
    BY <2>1 DEF Limits
  <2> QED
    BY <2>2 DEF RegistrationBounded, Waiting
<1> QED
  BY <1>1, <1>2, <1>3, TypesInvariant, PTL DEF Spec

-----------------------------------------------------------------------------
(* The tokens.  What Save() leaves behind: memory is the new set, and what  *)
(* the file has of it, or had before, is as it was but for murky tokens.    *)
LEMMA SavedApart ==
    ASSUME StoreOK, NEW new, NEW changed, Save(new, changed)
    PROVE  /\ tokens' = new
           /\ murky \subseteq murky'
           /\ \/ file' = new \ expired /\ blind' = FALSE
                 /\ \A t : t \in tokens /\ t \notin file /\ t \notin expired => t \in murky'
                 /\ \A s : s \in file /\ s \notin tokens /\ s \notin expired => s \in murky'
              \/ file' = file /\ blind' = blind /\ changed \subseteq murky'
  BY DEF Save

(* A token that is issued belongs to the client its code was drawn for,    *)
(* and the earlier ones keep their owners.                                 *)
LEMMA IssuedOwners ==
    ASSUME StoreOK, NEW d \in codes, Issued(d)
    PROVE  /\ Len(owner) \in Nat /\ Len(owner') = Len(owner) + 1
           /\ Len(earned') = Len(owner') /\ Len(earned) = Len(owner)
           /\ owner'[Len(owner) + 1] = codeOf[d] /\ earned'[Len(owner) + 1] = d
           /\ \A t \in Drawn : owner'[t] = owner[t] /\ earned'[t] = earned[t]
           /\ Drawn' = Drawn \cup {Len(owner) + 1} /\ Len(owner) + 1 \notin Drawn
<1>1. codeOf[d] \in 1 .. known /\ d \in 1 .. Len(codeOf)
  BY DEF StoreOK
<1>2. /\ Len(owner) \in Nat /\ Len(earned) = Len(owner)
      /\ owner \in Seq(1 .. known) /\ earned \in Seq(1 .. Len(codeOf))
  BY DEF StoreOK
<1>3. /\ Len(owner') = Len(owner) + 1 /\ owner'[Len(owner) + 1] = codeOf[d]
      /\ \A t \in 1 .. Len(owner) : owner'[t] = owner[t]
  BY <1>1, <1>2, OneMore DEF Issued
<1>4. /\ Len(earned') = Len(earned) + 1 /\ earned'[Len(earned) + 1] = d
      /\ \A t \in 1 .. Len(earned) : earned'[t] = earned[t]
  BY <1>1, <1>2, OneMore DEF Issued
<1> QED
  BY <1>2, <1>3, <1>4 DEF Drawn

-----------------------------------------------------------------------------
(* What a client was given stays in memory and in the file. *)
LEMMA HeldStep ==
    ASSUME StoreOK, Held, OAuth
    PROVE  Held'
<1> USE DEF Drawn
<1>1. ASSUME NEW r \in Requests, Token(r) PROVE Held'
  <2>1. PICK d \in codes :
           Issued(d) \/ UNCHANGED <<owner, earned, tokens, blind, file, murky, revoked>>
    BY <1>1, TokenCases
  <2>2. expired' = expired
    BY <1>1, TokenCases
  <2>3. CASE Issued(d)
    <3> DEFINE n == Len(owner) + 1
               gone == Replaced(codeOf[d])
    <3>1. Drawn' = Drawn \cup {n} /\ n \notin Drawn
      BY <2>3, IssuedOwners
    <3>2. n \notin expired
      BY <3>1 DEF StoreOK
    <3>3. /\ tokens' = (tokens \ gone) \cup {n} /\ revoked' = revoked \cup gone
          /\ murky \subseteq murky'
          /\ \/ /\ file' = tokens' \ expired /\ blind' = FALSE
                /\ \A s : s \in file /\ s \notin tokens /\ s \notin expired => s \in murky'
             \/ file' = file /\ blind' = blind /\ gone \cup {n} \subseteq murky'
      BY <2>3 DEF Issued, Save
    <3> HIDE DEF n, gone, Drawn
    <3> QED
      BY <2>2, <3>1, <3>2, <3>3 DEF Held
  <2>4. CASE UNCHANGED <<owner, earned, tokens, blind, file, murky, revoked>>
    BY <2>2, <2>4 DEF Held
  <2> QED
    BY <2>1, <2>3, <2>4
<1>2. ASSUME NEW r \in Requests, Revoke(r) PROVE Held'
  <2>1. PICK t \in tokens : Save(tokens \ {t}, {t}) /\ revoked' = revoked \cup {t}
    BY <1>2 DEF Revoke
  <2>2. /\ tokens' = tokens \ {t} /\ murky \subseteq murky'
        /\ \/ /\ file' = (tokens \ {t}) \ expired /\ blind' = FALSE
              /\ \A s : s \in file /\ s \notin tokens /\ s \notin expired => s \in murky'
           \/ file' = file /\ blind' = blind
    BY <2>1 DEF Save
  <2>3. expired' = expired /\ owner' = owner
    BY <1>2 DEF Revoke
  <2> QED
    BY <2>1, <2>2, <2>3 DEF Held
<1>3. ASSUME NEW r \in Requests, NEW kind \in Kinds, Open(r, kind) PROVE Held'
  BY <1>3 DEF Open, Held, store
<1>4. ASSUME NEW r \in Requests, Refuse(r) \/ Register(r) \/ Authorize(r) PROVE Held'
  BY <1>4 DEF Refuse, Register, Authorize, Held, store
<1>5. ASSUME Call PROVE Held'
  BY <1>5 DEF Call, Loaded, Held, oauth
<1>6. ASSUME CacheAges \/ WindowAges \/ SetEnabled PROVE Held'
  BY <1>6 DEF CacheAges, WindowAges, SetEnabled, Held, oauth, store
<1>7. ASSUME Restart PROVE Held'
  BY <1>7 DEF Restart, Held
<1>8. ASSUME NEW t \in Drawn, TokenAges(t) PROVE Held'
  BY <1>8 DEF TokenAges, Held, store
<1>9. ASSUME NEW w \in Web, EditRead(w) PROVE Held'
  BY <1>9 DEF EditRead, Held, oauth
<1>10. ASSUME NEW w \in Web, EditWrite(w) PROVE Held'
  <2>1. UNCHANGED <<owner, expired, tokens, blind>>
    BY <1>10 DEF EditWrite, oauth
  <2>2. \/ /\ file' = edit[w].read \ edit[w].off
           /\ murky' = murky \cup (edit[w].read \ file) \cup (file \ edit[w].read)
           /\ revoked' = revoked \cup edit[w].off
        \/ UNCHANGED <<file, murky, revoked>>
    BY <1>10 DEF EditWrite, Kept
  <2> QED
    BY <2>1, <2>2 DEF Held
<1> QED
  BY <1>1, <1>2, <1>3, <1>4, <1>5, <1>6, <1>7, <1>8, <1>9, <1>10 DEF OAuth

(* A client has one token, in memory, in the file, and in what a web       *)
(* process has read of the file.                                           *)
LEMMA SingleStep ==
    ASSUME StoreOK, Single, OAuth
    PROVE  Single'
<1>1. ASSUME NEW r \in Requests, Token(r) PROVE Single'
  <2>1. PICK d \in codes :
           Issued(d) \/ UNCHANGED <<owner, earned, tokens, blind, file, murky, revoked>>
    BY <1>1, TokenCases
  <2>2. edit' = edit
    BY <1>1, TokenCases
  <2>3. CASE Issued(d)
    <3> DEFINE n == Len(owner) + 1
               gone == Replaced(codeOf[d])
    <3>1. /\ owner'[n] = codeOf[d] /\ \A t \in Drawn : owner'[t] = owner[t]
      BY <2>3, IssuedOwners
    <3>2. /\ tokens' = (tokens \ gone) \cup {n}
          /\ file' \subseteq tokens' \/ file' = file
      BY <2>3, SavedApart DEF Issued
    <3>3. \A t \in tokens \ gone : owner[t] # codeOf[d]
      BY DEF Replaced
    <3> HIDE DEF n, gone
    <3>4. tokens \subseteq Drawn /\ file \subseteq Drawn
      BY DEF StoreOK
    <3>5. Alone(tokens)'
      BY <3>1, <3>2, <3>3, <3>4 DEF Single, Alone
    <3>6. Alone(file)'
      BY <3>1, <3>2, <3>4, <3>5 DEF Single, Alone
    <3>7. \A w \in Web : edit[w] # NoEdit => Alone(edit[w].read)'
      BY <2>2, <3>1 DEF Single, Alone, StoreOK
    <3> QED
      BY <2>2, <3>5, <3>6, <3>7 DEF Single
  <2>4. CASE UNCHANGED <<owner, earned, tokens, blind, file, murky, revoked>>
    BY <2>2, <2>4 DEF Single, Alone
  <2> QED
    BY <2>1, <2>3, <2>4
<1>2. ASSUME NEW r \in Requests, Revoke(r) PROVE Single'
  <2>1. PICK t \in tokens : Save(tokens \ {t}, {t})
    BY <1>2 DEF Revoke
  <2>2. tokens' \subseteq tokens /\ (file' \subseteq tokens \/ file' = file)
    BY <2>1 DEF Save
  <2>3. UNCHANGED <<owner, edit>>
    BY <1>2 DEF Revoke
  <2> QED
    BY <2>2, <2>3 DEF Single, Alone
<1>3. ASSUME NEW r \in Requests, NEW kind \in Kinds, Open(r, kind) PROVE Single'
  BY <1>3 DEF Open, Single, Alone, store
<1>4. ASSUME NEW r \in Requests, Refuse(r) \/ Register(r) \/ Authorize(r) PROVE Single'
  BY <1>4 DEF Refuse, Register, Authorize, Single, Alone, store
<1>5. ASSUME Call PROVE Single'
  BY <1>5 DEF Call, Loaded, Single, Alone, oauth
<1>6. ASSUME CacheAges \/ WindowAges \/ SetEnabled PROVE Single'
  BY <1>6 DEF CacheAges, WindowAges, SetEnabled, Single, Alone, oauth, store
<1>7. ASSUME Restart PROVE Single'
  BY <1>7 DEF Restart, Single, Alone
<1>8. ASSUME NEW t \in Drawn, TokenAges(t) PROVE Single'
  BY <1>8 DEF TokenAges, Single, Alone, store
<1>9. ASSUME NEW w \in Web, EditRead(w) PROVE Single'
  <2>1. \E read \in {file, {}}, off \in SUBSET file :
           edit' = [edit EXCEPT ![w] = [read |-> read, off |-> off]]
    BY <1>9 DEF EditRead
  <2>2. \A v \in Web : edit'[v] # NoEdit =>
           edit'[v].read = file \/ edit'[v].read = {} \/ edit'[v] = edit[v]
    BY <2>1 DEF StoreOK
  <2>3. UNCHANGED <<owner, tokens, file>>
    BY <1>9 DEF EditRead, oauth
  <2> QED
    BY <2>2, <2>3 DEF Single, Alone
<1>10. ASSUME NEW w \in Web, EditWrite(w) PROVE Single'
  <2>1. UNCHANGED <<owner, tokens>> /\ edit' = [edit EXCEPT ![w] = NoEdit] /\ edit[w] # NoEdit
    BY <1>10 DEF EditWrite, oauth
  <2>2. file' \subseteq edit[w].read \/ file' = file
    BY <1>10 DEF EditWrite, Kept
  <2>3. \A v \in Web : edit'[v] # NoEdit => edit'[v] = edit[v]
    BY <2>1 DEF StoreOK
  <2> QED
    BY <2>1, <2>2, <2>3 DEF Single, Alone
<1> QED
  BY <1>1, <1>2, <1>3, <1>4, <1>5, <1>6, <1>7, <1>8, <1>9, <1>10 DEF OAuth

(* A code is spent by the token it is turned into. *)
LEMMA SpentStep ==
    ASSUME StoreOK, Spent, OAuth
    PROVE  Spent'
<1>1. ASSUME NEW r \in Requests, Token(r) PROVE Spent'
  <2>1. PICK d \in codes :
           /\ codes' = codes \ {d}
           /\ Issued(d) \/ UNCHANGED <<owner, earned, tokens, blind, file, murky, revoked>>
    BY <1>1, TokenCases
  <2>2. CASE Issued(d)
    <3> DEFINE n == Len(owner) + 1
    <3>1. /\ earned'[n] = d /\ \A t \in Drawn : earned'[t] = earned[t]
          /\ Drawn' = Drawn \cup {n} /\ n \notin Drawn
      BY <2>2, IssuedOwners
    <3> HIDE DEF n
    <3>2. \A t \in Drawn : earned[t] # d
      BY DEF Spent
    <3> QED
      BY <2>1, <3>1, <3>2 DEF Spent, CodeUsedOnce
  <2>3. CASE UNCHANGED <<owner, earned, tokens, blind, file, murky, revoked>>
    BY <2>1, <2>3 DEF Spent, CodeUsedOnce, Drawn
  <2> QED
    BY <2>1, <2>2, <2>3
<1>2. ASSUME NEW r \in Requests, Authorize(r) PROVE Spent'
  <2>1. /\ UNCHANGED <<owner, earned>>
        /\ codes' \subseteq codes \cup {Len(codeOf')}
        /\ codes' = codes \/ \E c \in clients : codeOf' = Append(codeOf, c)
    BY <1>2 DEF Authorize
  <2>2. codes' = codes \/ Len(codeOf') = Len(codeOf) + 1
    BY <2>1, OneMore DEF StoreOK
  <2>3. \A t \in Drawn : earned[t] \in 1 .. Len(codeOf)
    BY DEF StoreOK, Drawn
  <2>4. Len(codeOf) \in Nat
    BY DEF StoreOK
  <2> QED
    BY <2>1, <2>2, <2>3, <2>4 DEF Spent, CodeUsedOnce, Drawn
<1>3. ASSUME UNCHANGED <<owner, earned>>, codes' \subseteq codes PROVE Spent'
  BY <1>3 DEF Spent, CodeUsedOnce, Drawn
<1>4. ASSUME NEW r \in Requests, NEW kind \in Kinds, Open(r, kind) PROVE Spent'
  BY <1>3, <1>4 DEF Open
<1>5. ASSUME NEW r \in Requests, Refuse(r) \/ Register(r) \/ Revoke(r) PROVE Spent'
  BY <1>3, <1>5 DEF Refuse, Register, Revoke
<1>6. ASSUME Call \/ CacheAges \/ WindowAges \/ SetEnabled \/ Restart PROVE Spent'
  BY <1>3, <1>6 DEF Call, CacheAges, WindowAges, SetEnabled, Restart, oauth
<1>7. ASSUME NEW t \in Drawn, TokenAges(t) PROVE Spent'
  BY <1>3, <1>7 DEF TokenAges
<1>8. ASSUME NEW w \in Web, EditRead(w) \/ EditWrite(w) PROVE Spent'
  BY <1>3, <1>8 DEF EditRead, EditWrite, oauth
<1> QED
  BY <1>1, <1>2, <1>4, <1>5, <1>6, <1>7, <1>8 DEF OAuth

(* A revoked token is in the file no more, and in memory only until it is  *)
(* loaded again.                                                           *)
LEMMA GoneStep ==
    ASSUME StoreOK, Gone, OAuth
    PROVE  Gone'
<1>1. ASSUME NEW r \in Requests, Token(r) PROVE Gone'
  <2>1. PICK d \in codes :
           Issued(d) \/ UNCHANGED <<owner, earned, tokens, blind, file, murky, revoked>>
    BY <1>1, TokenCases
  <2>2. UNCHANGED <<expired, fresh, recent>>
    BY <1>1, TokenCases
  <2>3. CASE Issued(d)
    <3> DEFINE n == Len(owner) + 1
               gone == Replaced(codeOf[d])
    <3>1. n \notin Drawn
      BY <2>3, IssuedOwners
    <3>2. n \notin revoked /\ n \notin tokens /\ gone \subseteq tokens
      BY <3>1 DEF StoreOK, Replaced
    <3>3. /\ tokens' = (tokens \ gone) \cup {n} /\ revoked' = revoked \cup gone
          /\ murky \subseteq murky'
          /\ \/ /\ file' = tokens' \ expired
                /\ \A t : t \in tokens /\ t \notin file /\ t \notin expired => t \in murky'
             \/ file' = file /\ gone \cup {n} \subseteq murky'
      BY <2>3, SavedApart DEF Issued
    <3> HIDE DEF n, gone
    <3> QED
      BY <2>2, <3>2, <3>3 DEF Gone
  <2>4. CASE UNCHANGED <<owner, earned, tokens, blind, file, murky, revoked>>
    BY <2>2, <2>4 DEF Gone
  <2> QED
    BY <2>1, <2>3, <2>4
<1>2. ASSUME NEW r \in Requests, Revoke(r) PROVE Gone'
  <2>1. PICK t \in tokens : Save(tokens \ {t}, {t}) /\ revoked' = revoked \cup {t}
    BY <1>2 DEF Revoke
  <2>2. /\ tokens' = tokens \ {t} /\ murky \subseteq murky'
        /\ \/ /\ file' = (tokens \ {t}) \ expired
              /\ \A s : s \in tokens /\ s \notin file /\ s \notin expired => s \in murky'
           \/ file' = file /\ {t} \subseteq murky'
    BY <2>1, SavedApart
  <2>3. UNCHANGED <<fresh, recent>>
    BY <1>2 DEF Revoke
  <2> QED
    BY <2>1, <2>2, <2>3 DEF Gone
<1>3. ASSUME NEW r \in Requests, NEW kind \in Kinds, Open(r, kind) PROVE Gone'
  BY <1>3 DEF Open, Gone, store
<1>4. ASSUME NEW r \in Requests, Refuse(r) \/ Register(r) \/ Authorize(r) PROVE Gone'
  BY <1>4 DEF Refuse, Register, Authorize, Gone, store
<1>5. ASSUME Call PROVE Gone'
  BY <1>5 DEF Call, Loaded, Gone, oauth
<1>6. ASSUME CacheAges \/ WindowAges \/ SetEnabled PROVE Gone'
  BY <1>6 DEF CacheAges, WindowAges, SetEnabled, Gone, oauth, store
<1>7. ASSUME Restart PROVE Gone'
  BY <1>7 DEF Restart, Gone
<1>8. ASSUME NEW t \in Drawn, TokenAges(t) PROVE Gone'
  BY <1>8 DEF TokenAges, Gone, store
<1>9. ASSUME NEW w \in Web, EditRead(w) PROVE Gone'
  BY <1>9 DEF EditRead, Gone, oauth
<1>10. ASSUME NEW w \in Web, EditWrite(w) PROVE Gone'
  <2>1. UNCHANGED <<tokens, fresh>>
    BY <1>10 DEF EditWrite
  <2>2. \/ /\ file' = edit[w].read \ edit[w].off
           /\ murky' = murky \cup (edit[w].read \ file) \cup (file \ edit[w].read)
           /\ revoked' = revoked \cup edit[w].off /\ recent' = recent \cup edit[w].off
        \/ UNCHANGED <<file, murky, revoked, recent>>
    BY <1>10 DEF EditWrite, Kept
  <2> QED
    BY <2>1, <2>2 DEF Gone
<1> QED
  BY <1>1, <1>2, <1>3, <1>4, <1>5, <1>6, <1>7, <1>8, <1>9, <1>10 DEF OAuth

TokensInv == Held /\ Single /\ Spent /\ Gone

(* What holds of the tokens always holds.                                  *)
LEMMA TokensInvariant == Spec => []TokensInv
<1>1. Init => TokensInv
  <2> SUFFICES ASSUME Init PROVE TokensInv
    OBVIOUS
  <2>1. /\ owner = <<>> /\ tokens = {} /\ file = {} /\ codes = {} /\ edit = [w \in Web |-> NoEdit]
        /\ fresh = FALSE
    BY DEF Init
  <2>2. Drawn = {}
    BY <2>1 DEF Drawn
  <2> QED
    BY <2>1, <2>2 DEF TokensInv, Held, Single, Spent, Gone, Alone, CodeUsedOnce
<1>2. TypesOK /\ TokensInv /\ [Next]_vars => TokensInv'
  <2> SUFFICES ASSUME TypesOK, TokensInv, [Next]_vars PROVE TokensInv'
    OBVIOUS
  <2>1. CASE OAuth
    BY <2>1, HeldStep, SingleStep, SpentStep, GoneStep DEF TokensInv, TypesOK
  <2>2. CASE StaticKey \/ Accounts \/ UNCHANGED vars
    <3>1. UNCHANGED <<codes, owner, earned, expired, tokens, fresh, blind, file, edit,
                      revoked, recent, murky>>
      BY <2>2, StaticFrame, AccountsFrame DEF vars, oauth, store
    <3> QED
      BY <3>1 DEF TokensInv, Held, Single, Spent, Gone, Alone, CodeUsedOnce, Drawn
  <2> QED
    BY <2>1, <2>2 DEF Next
<1> QED
  BY <1>1, <1>2, TypesInvariant, PTL DEF Spec

(* A client goes on being served with the token it was given, which is its *)
(* only one and was earned by a login of its own.                          *)
THEOREM GrantsAreKept == Spec => []TokensRight
<1>1. TypeOK /\ TypesOK /\ TokensInv => TokensRight
  <2> SUFFICES ASSUME TypeOK, TypesOK, TokensInv PROVE TokensRight
    OBVIOUS
  <2>1. GrantedServed
    BY DEF TokensInv, Held, GrantedServed, Accepted, Loaded
  <2>2. OneTokenPerClient
    BY DEF TokensInv, Single, Alone, OneTokenPerClient
  <2>3. CodeUsedOnce
    BY DEF TokensInv, Spent
  <2> QED
    BY <2>1, <2>2, <2>3 DEF TokensRight
<1> QED
  BY <1>1, TypesInvariant, TypeCorrect, TokensInvariant, PTL

(* A revoked token is refused as soon as the cache is two seconds old. *)
THEOREM RevocationsHold == Spec => []RevokedRefused
<1>1. TokensInv => RevokedRefused
  BY DEF TokensInv, Gone, RevokedRefused, Accepted, Loaded
<1> QED
  BY <1>1, TokensInvariant, PTL

-----------------------------------------------------------------------------
(* The static key. *)
LEMMA PutKeeps ==
    ASSUME NEW k, Put(k) PROVE told' = None /\ lastUsed' = FALSE /\ key' = k
  BY DEF Put

(* What a `generate` may replace, it may replace after a step that changes  *)
(* no command but that of one terminal, and puts in the row a new key, none *)
(* or the one that was there.                                               *)
Replaces(c) ==
    cli[c].op = "generate" /\ cli[c].pc \in {"allow", "write"} /\ key # None
        => key > cli[c].seen

LEMMA OthersReplace ==
    ASSUME StaticOK, \A c \in Terminals : Replaces(c), NEW e \in Terminals, cli'[e] = cli[e],
           key' \in {key, None, minted + 1}
    PROVE  Replaces(e)'
<1>1. cli[e].seen \in Nat /\ cli[e].seen <= minted /\ minted \in Nat
  BY DEF StaticOK, CommandOK, Commands
<1>2. CASE key' = minted + 1
  BY <1>1, <1>2 DEF Replaces
<1>3. CASE key' \in {key, None}
  BY <1>3 DEF Replaces
<1> QED
  BY <1>2, <1>3

(* The steps on the static key keep what holds of it.                      *)
LEMMA KeyStep ==
    ASSUME StaticOK, KeyInv, StaticKey
    PROVE  KeyInv'
<1> DEFINE R == \A c \in Terminals : Replaces(c)
           P == PrintedKeyWorks /\ LastUsedIsOfThisKey /\ (stamping # None => stamping \in used)
<1>0. cli \in [Terminals -> Commands] /\ minted \in Nat /\ key \in Optional(1 .. minted) /\ P /\ R
  BY DEF StaticOK, KeyInv, Replaces
<1>k. ASSUME P', R' PROVE KeyInv'
  BY <1>k DEF KeyInv, Replaces
\* No command has moved.
<1>s. ASSUME UNCHANGED cli, key' \in {key, None, minted + 1} PROVE R'
  BY <1>0, <1>s, OthersReplace
\* The command of one terminal has, and may replace nothing more.
<1>m. ASSUME NEW c \in Terminals, \A e \in Terminals \ {c} : cli'[e] = cli[e],
             key' \in {key, None, minted + 1}, Replaces(c)'
      PROVE  R'
  <2> SUFFICES ASSUME NEW e \in Terminals PROVE Replaces(e)'
    OBVIOUS
  <2>1. CASE e = c
    BY <1>m, <2>1
  <2>2. CASE e # c
    BY <1>0, <1>m, <2>2, OthersReplace
  <2> QED
    BY <2>1, <2>2
\* It goes on, keeping its operation, or ends.
<1>t. ASSUME NEW c \in Terminals, NEW q, CliTo(c, q)
      PROVE  /\ cli'[c].pc = q /\ cli'[c].op = cli[c].op /\ cli'[c].seen = cli[c].seen
             /\ \A e \in Terminals \ {c} : cli'[e] = cli[e]
  BY <1>0, <1>t DEF CliTo, Commands
<1>e. ASSUME NEW c \in Terminals, CliEnd(c)
      PROVE  cli'[c].pc = "idle" /\ \A e \in Terminals \ {c} : cli'[e] = cli[e]
  BY <1>0, <1>e DEF CliEnd, IdleCli
<1> USE DEF PrintedKeyWorks, LastUsedIsOfThisKey, inRow, printed, server, host
<1>1. ASSUME UseKey PROVE KeyInv'
  <2>1. P'
    BY <1>0, <1>1 DEF UseKey, KeyWorks
  <2>2. UNCHANGED <<cli, key>>
    BY <1>1 DEF UseKey
  <2> QED
    BY <1>k, <1>s, <2>1, <2>2
<1>2. ASSUME StampKey PROVE KeyInv'
  <2>1. /\ lastUsed' = TRUE /\ stamping' = None /\ overtaken' = (stamping # key)
        /\ UNCHANGED <<key, lapsed, query, cli, told, crossed, used>>
    BY <1>2 DEF StampKey
  <2>2. ~overtaken' => key \in used
    BY <1>0, <1>2, <2>1 DEF StampKey
  <2>3. P'
    BY <1>0, <2>1, <2>2
  <2> QED
    BY <1>k, <1>s, <2>1, <2>3
<1>3. ASSUME KeyAges PROVE KeyInv'
  <2>1. P'
    BY <1>0, <1>3 DEF KeyAges
  <2>2. UNCHANGED <<cli, key>>
    BY <1>3 DEF KeyAges
  <2> QED
    BY <1>k, <1>s, <2>1, <2>2
<1>4. ASSUME NEW w \in Web, NEW op \in {"generate", "revoke", "on", "off"}, WebRead(w, op)
      PROVE  KeyInv'
  <2>1. UNCHANGED <<inRow, server, query, cli, printed>>
    BY <1>4 DEF WebRead
  <2>2. P'
    BY <1>0, <2>1
  <2> QED
    BY <1>k, <1>s, <2>1, <2>2
<1>5. ASSUME NEW w \in Web, WebCommit(w) PROVE KeyInv'
  <2>1. UNCHANGED <<stamping, query, cli, used, crossed>>
    BY <1>5 DEF WebCommit
  <2>2. \/ told' = None /\ Cleared(row[w]) /\ key' \in {None, minted + 1}
        \/ UNCHANGED <<key, told>> /\ Cleared(row[w])
        \/ UNCHANGED <<inRow, told>>
    BY <1>5 DEF WebCommit
  <2>3. key' \in {key, None, minted + 1}
    BY <2>2
  <2>4. told' # None => UNCHANGED <<key, told>> /\ ~lapsed'
    BY <1>0, <2>2 DEF Cleared
  <2>5. lastUsed' /\ ~overtaken' => key' = key /\ lastUsed /\ ~overtaken
    BY <2>2 DEF Cleared
  <2>6. P'
    BY <1>0, <2>1, <2>4, <2>5
  <2> QED
    BY <1>k, <1>s, <2>1, <2>3, <2>6
<1>6. ASSUME Tailnet PROVE KeyInv'
  <2>1. UNCHANGED <<inRow, server, query, cli, printed>>
    BY <1>6 DEF Tailnet
  <2>2. P'
    BY <1>0, <2>1
  <2> QED
    BY <1>k, <1>s, <2>1, <2>2
<1>7. ASSUME NEW c \in Terminals,
             NEW op \in {"generate", "rotate", "revoke", "allow", "manual"},
             NEW a \in Optional(BOOLEAN), Configure(c, op, a) PROVE KeyInv'
  <2> DEFINE p == CASE op = "allow" -> "allow" [] op = "manual" -> "query" [] OTHER -> "read"
             d == [pc |-> p, op |-> op, allow |-> a, key |-> None, seen |-> 0]
  <2>1. cli' = [cli EXCEPT ![c] = d]
    BY <1>7, Zenon DEF Configure
  <2>2. p = "read" \/ (p = "allow" /\ op = "allow") \/ p = "query"
    OBVIOUS
  <2> HIDE DEF p
  <2>3. d.pc = p /\ d.op = op
    OBVIOUS
  <2> HIDE DEF d
  <2>4. cli'[c] = d /\ \A e \in Terminals \ {c} : cli'[e] = cli[e]
    BY <1>0, <2>1
  <2>5. Replaces(c)'
    BY <2>2, <2>3, <2>4 DEF Replaces
  <2>6. UNCHANGED <<inRow, server, query, printed>>
    BY <1>7 DEF Configure
  <2>7. P'
    BY <1>0, <2>6
  <2> QED
    BY <1>k, <1>m, <2>4, <2>5, <2>6, <2>7
<1>8. ASSUME NEW c \in Terminals, CliRead(c) PROVE KeyInv'
  <2>1. UNCHANGED <<inRow, server, query, printed>>
    BY <1>8 DEF CliRead
  <2>2. P'
    BY <1>0, <2>1
  <2>3. CASE CliEnd(c) \/ CliTo(c, "revoke")
    <3>1. cli'[c].pc \notin {"allow", "write"} /\ \A e \in Terminals \ {c} : cli'[e] = cli[e]
      BY <1>t, <1>e, <2>3
    <3>2. Replaces(c)'
      BY <3>1 DEF Replaces
    <3> QED
      BY <1>k, <1>m, <2>1, <2>2, <3>1, <3>2
  <2>4. CASE \E q \in {"allow", "write"} : CliChecked(c, q)
    <3>1. /\ cli'[c].seen = (IF key = None THEN minted ELSE key - 1)
          /\ \A e \in Terminals \ {c} : cli'[e] = cli[e]
      BY <1>0, <2>4 DEF CliChecked, Commands
    <3>2. key # None => key > cli'[c].seen
      BY <1>0, <3>1 DEF Optional
    <3>3. Replaces(c)'
      BY <2>1, <3>2 DEF Replaces
    <3> QED
      BY <1>k, <1>m, <2>1, <2>2, <3>1, <3>3
  <2> QED
    BY <1>8, <2>3, <2>4 DEF CliRead
<1>9. ASSUME NEW c \in Terminals, CliAllow(c) PROVE KeyInv'
  <2>1. UNCHANGED <<inRow, server, query, printed>> /\ cli[c].pc = "allow"
    BY <1>9 DEF CliAllow
  <2>2. /\ \A e \in Terminals \ {c} : cli'[e] = cli[e]
        /\ \/ cli'[c].pc = "idle"
           \/ cli'[c].op = cli[c].op /\ cli'[c].seen = cli[c].seen
    BY <1>9, <1>t, <1>e DEF CliAllow
  <2>3. Replaces(c)'
    BY <1>0, <2>1, <2>2 DEF Replaces
  <2>4. P'
    BY <1>0, <2>1
  <2> QED
    BY <1>k, <1>m, <2>1, <2>2, <2>3, <2>4
<1>10. ASSUME NEW c \in Terminals, CliWrite(c) PROVE KeyInv'
  <2>1. UNCHANGED <<stamping, query, used, crossed>> /\ minted' = minted + 1
    BY <1>10 DEF CliWrite
  <2>2. \/ told' = None /\ lastUsed' = FALSE /\ key' = minted'
        \/ UNCHANGED <<inRow, told>>
    BY <1>10, PutKeeps DEF CliWrite
  <2>3. /\ cli'[c].pc \in {"idle", "query"}
        /\ \A e \in Terminals \ {c} : cli'[e] = cli[e]
    BY <1>0, <1>10, <1>e DEF CliWrite, Commands
  <2>4. P'
    BY <1>0, <2>1, <2>2
  <2>5. Replaces(c)'
    BY <2>3 DEF Replaces
  <2>6. key' \in {key, None, minted + 1}
    BY <2>1, <2>2
  <2> QED
    BY <1>k, <1>m, <2>3, <2>4, <2>5, <2>6
<1>11. ASSUME NEW c \in Terminals, CliQuery(c) PROVE KeyInv'
  <2>1. UNCHANGED <<inRow, server>>
    BY <1>11 DEF CliQuery
  <2>2. cli'[c].pc = "idle" /\ \A e \in Terminals \ {c} : cli'[e] = cli[e]
    BY <1>11, <1>e DEF CliQuery
  <2>3. told' # None => key = told' /\ ~lapsed /\ (query' = told' \/ crossed')
    BY <1>0, <1>11 DEF CliQuery, SetToken
  <2>4. P'
    BY <1>0, <2>1, <2>3
  <2>5. Replaces(c)'
    BY <2>2 DEF Replaces
  <2> QED
    BY <1>k, <1>m, <2>1, <2>2, <2>4, <2>5
<1>12. ASSUME NEW c \in Terminals, CliRevoke(c) PROVE KeyInv'
  <2>1. UNCHANGED <<server, query, crossed>>
    BY <1>12 DEF CliRevoke
  <2>2. \/ told' = None /\ lastUsed' = FALSE /\ key' = None
        \/ UNCHANGED <<inRow, told>>
    BY <1>12, PutKeeps DEF CliRevoke
  <2>3. /\ cli'[c].pc \in {"idle", "clear"}
        /\ \A e \in Terminals \ {c} : cli'[e] = cli[e]
    BY <1>12, <1>t, <1>e DEF CliRevoke
  <2>4. P'
    BY <1>0, <2>1, <2>2
  <2>5. Replaces(c)'
    BY <2>3 DEF Replaces
  <2>6. key' \in {key, None, minted + 1}
    BY <2>2
  <2> QED
    BY <1>k, <1>m, <2>3, <2>4, <2>5, <2>6
<1>13. ASSUME NEW c \in Terminals, CliClear(c) PROVE KeyInv'
  <2>1. UNCHANGED <<inRow, server, told>> /\ crossed' = TRUE
    BY <1>13 DEF CliClear
  <2>2. cli'[c].pc = "idle" /\ \A e \in Terminals \ {c} : cli'[e] = cli[e]
    BY <1>13, <1>e DEF CliClear
  <2>3. P'
    BY <1>0, <2>1
  <2>4. Replaces(c)'
    BY <2>2 DEF Replaces
  <2> QED
    BY <1>k, <1>m, <2>1, <2>2, <2>3, <2>4
<1> QED
  BY <1>1, <1>2, <1>3, <1>4, <1>5, <1>6, <1>7, <1>8, <1>9, <1>10, <1>11, <1>12, <1>13
     DEF StaticKey

(* What holds of the static key always holds.                              *)
LEMMA KeyInvariant == Spec => []KeyInv
<1>1. Init => KeyInv
  <2> SUFFICES ASSUME Init PROVE KeyInv
    OBVIOUS
  <2>1. /\ told = None /\ lastUsed = FALSE /\ stamping = None /\ key = None
    BY DEF Init
  <2> QED
    BY <2>1 DEF KeyInv, PrintedKeyWorks, LastUsedIsOfThisKey
<1>2. TypesOK /\ KeyInv /\ [Next]_vars => KeyInv'
  <2> SUFFICES ASSUME TypesOK, KeyInv, [Next]_vars PROVE KeyInv'
    OBVIOUS
  <2>1. CASE StaticKey
    BY <2>1, KeyStep DEF TypesOK
  <2>2. CASE OAuth
    <3>1. /\ UNCHANGED <<key, lapsed, lastUsed, query, cli, told, crossed, used, overtaken>>
          /\ stamping' = stamping \/ stamping' = None
      BY <2>2, OAuthFrame DEF static, inRow, printed, server
    <3> QED
      BY <3>1 DEF KeyInv, PrintedKeyWorks, LastUsedIsOfThisKey
  <2>3. CASE Accounts \/ UNCHANGED vars
    <3>1. UNCHANGED static
      BY <2>3, AccountsFrame DEF vars
    <3> QED
      BY <3>1 DEF KeyInv, PrintedKeyWorks, LastUsedIsOfThisKey, static, inRow, printed, server
  <2> QED
    BY <2>1, <2>2, <2>3 DEF Next
<1> QED
  BY <1>1, <1>2, TypesInvariant, PTL DEF Spec

(* The key that was printed is the one in force and, unless an overtaken    *)
(* `configure` has written since, in mcp.json; "last used" is about it; and *)
(* no `generate`, in any number of terminals, takes away one it has seen    *)
(* at work.                                                                 *)
THEOREM KeyStaysRight == Spec => KeyRight
<1>1. KeyInv => PrintedKeyWorks /\ LastUsedIsOfThisKey
  BY DEF KeyInv
<1>2. KeyInv /\ [Next]_vars =>
        [\A c \in Terminals :
            cli[c].op = "generate" /\ cli[c].pc = "write" /\ key' # key /\ cli'[c] # cli[c]
                => told = None \/ told > cli[c].seen]_vars
  BY DEF KeyInv, PrintedKeyWorks
<1> QED
  BY <1>1, <1>2, KeyInvariant, PTL DEF Spec, KeyRight, GenerateKeepsKey

-----------------------------------------------------------------------------
(* Accounts: a session, or a form in the making, with the stamp in force   *)
(* goes with the password in force.                                        *)
LEMMA FormsStep ==
    ASSUME AccountOK, FormsKnow, Accounts
    PROVE  FormsKnow'
<1> USE DEF FormsKnow, SessionKnowsPassword, SignedIn
<1>1. ASSUME NEW w \in Web, NEW b \in Browsers, LoginRead(w, b) \/ ChangeRead(w, b)
      PROVE  FormsKnow'
  <2>1. PICK kind \in {"login", "change"} :
           form' = [form EXCEPT ![w] = [b |-> b, kind |-> kind, stamp |-> stamp,
                                        password |-> password]]
    BY <1>1 DEF LoginRead, ChangeRead
  <2> DEFINE f == [b |-> b, kind |-> kind, stamp |-> stamp, password |-> password]
  <2>2. f.stamp = stamp /\ f.password = password
    OBVIOUS
  <2> HIDE DEF f
  <2>5. \A v \in Web : form'[v] = form[v] \/ form'[v] = f
    BY <2>1 DEF AccountOK, f
  <2>3. UNCHANGED <<password, stamp, session, by>>
    BY <1>1 DEF LoginRead, ChangeRead
  <2>4. stamp \in Nat
    BY DEF AccountOK
  <2> QED
    BY <2>2, <2>3, <2>4, <2>5
<1>2. ASSUME NEW w \in Web, form' = [form EXCEPT ![w] = NoForm]
      PROVE  \A v \in Web : form'[v].kind # "none" => form'[v] = form[v]
  BY <1>2 DEF AccountOK, NoForm
<1>3. ASSUME NEW w \in Web, LoginDone(w) PROVE FormsKnow'
  <2>1. /\ \A b \in Browsers : \/ session'[b] = session[b] /\ by'[b] = by[b]
                               \/ session'[b] = form[w].stamp /\ by'[b] = form[w].password
        /\ UNCHANGED <<password, stamp>> /\ form[w].kind # "none"
    BY <1>3 DEF LoginDone, StampRead, AccountOK
  <2>2. \A v \in Web : form'[v].kind # "none" => form'[v] = form[v]
    BY <1>2, <1>3 DEF LoginDone
  <2> QED
    BY <2>1, <2>2
<1>4. ASSUME NEW w \in Web, ChangeDone(w) PROVE FormsKnow'
  <2>1. /\ \A b \in Browsers : \/ session'[b] = session[b]
                               \/ session'[b] = stamp' /\ by'[b] = password'
        /\ stamp' = stamp + 1 /\ stamp \in Nat
    BY <1>4 DEF ChangeDone, AccountOK
  <2>2. \A b \in Browsers : session[b] # stamp'
    BY <2>1 DEF AccountOK
  <2>3. \A v \in Web : form'[v].kind # "none" => form'[v] = form[v]
    BY <1>2, <1>4 DEF ChangeDone
  <2>4. \A v \in Web : form[v].kind # "none" => form[v].stamp \in Nat /\ form[v].stamp <= stamp
    <3>1. \A v \in Web : form[v].kind # "none" =>
             form[v] \in [b : Browsers, kind : {"login", "change"}, stamp : Nat, password : Nat]
      BY DEF AccountOK, Forms, NoForm
    <3> QED
      BY <3>1 DEF AccountOK
  <2>5. \A v \in Web : form'[v].kind # "none" =>
           form'[v].stamp <= stamp' /\ form'[v].stamp # stamp'
    BY <2>1, <2>3, <2>4
  <2>6. SessionKnowsPassword'
    BY <2>1, <2>2
  <2> QED
    BY <2>5, <2>6
<1>5. ASSUME NEW b \in Browsers, Logout(b) PROVE FormsKnow'
  <2>1. \A c \in Browsers : session'[c] = session[c] \/ (c = b /\ session'[c] = 0)
    BY <1>5 DEF Logout, AccountOK
  <2>2. UNCHANGED <<password, stamp, form, by>>
    BY <1>5 DEF Logout
  <2>3. stamp # 0
    BY DEF AccountOK
  <2> QED
    BY <2>1, <2>2, <2>3
<1> QED
  BY <1>1, <1>3, <1>4, <1>5 DEF Accounts

(* Whoever is signed in knew, or has set, the password in force.           *)
THEOREM SessionsKnowThePassword == Spec => []SessionKnowsPassword
<1>1. Init => FormsKnow
  <2> SUFFICES ASSUME Init PROVE FormsKnow
    OBVIOUS
  <2>1. NoForm.kind = "none"
    BY DEF NoForm
  <2> QED
    BY <2>1 DEF Init, FormsKnow, SessionKnowsPassword, SignedIn
<1>2. TypesOK /\ FormsKnow /\ [Next]_vars => FormsKnow'
  <2> SUFFICES ASSUME TypesOK, FormsKnow, [Next]_vars PROVE FormsKnow'
    OBVIOUS
  <2>1. CASE Accounts
    BY <2>1, FormsStep DEF TypesOK
  <2>2. CASE OAuth \/ StaticKey \/ UNCHANGED vars
    <3>1. UNCHANGED account
      BY <2>2, OAuthFrame, StaticFrame DEF vars
    <3> QED
      BY <3>1 DEF FormsKnow, SessionKnowsPassword, SignedIn, account
  <2> QED
    BY <2>1, <2>2 DEF Next
<1>3. FormsKnow => SessionKnowsPassword
  BY DEF FormsKnow
<1> QED
  BY <1>1, <1>2, <1>3, TypesInvariant, PTL DEF Spec
=============================================================================
