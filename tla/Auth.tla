-------------------------------- MODULE Auth --------------------------------
(***************************************************************************)
(* Authentication by the replicas of the apiserver: the JWT middleware,    *)
(* the token service with its configured or generated key pair, password   *)
(* logins against the domains of a directory, and OIDC logins with the     *)
(* state kept in a cookie.  The directory and the identity provider are    *)
(* external and change between the steps of a login.                       *)
(***************************************************************************)
EXTENDS Naturals, Sequences, FiniteSets, Functions

CONSTANTS
  Servers, Browsers,
  Users,        \* user names
  People,       \* entries of the directory
  UserId,       \* UserId[p]: the user-name attribute of entry p, None when it has none
  Passwords,
  Domains,      \* the configured domains, in the order they are searched
  Groups,
  RoleMapping,  \* sequence of [match, role]: match is a group or a domain
  AnonymousPaths, Paths,  \* [wild, name] and name; a name is a sequence
  Algorithms,   \* values of jwt_algorithm
  Configured,   \* the key pair of the configuration file
  None,
  AKValidity, RKValidity,
  MaxTime, MaxLogins, MaxFaults

VARIABLES
  config,     \* [alg, keys]: keys is Configured, or None to have a pair generated
  key,        \* each replica's key pair: [kind, no]
  pairs,      \* key pairs generated
  now,
  finds,      \* external: finds[d][u] is the person a search in d returns, or None
  password, member,  \* external: by person
  login,      \* the LDAP login of a browser; bound, a history: whose password was right
  cookie,     \* oidc_state of a browser, 0 without one
  state,      \* states handed out
  consents,   \* external: redirects with a code: [state, user, gives]
  tokens,     \* JWTs issued: [sub, role, alg, key, exp]
  logins, faults,
  verified,   \* history: [sub, at] of identities that were proved, at the end of the login
  last        \* history: the last authenticated request served

vars == <<config, key, pairs, now, finds, password, member, login, cookie, state, consents,
          tokens, logins, faults, verified, last>>
keyVars == <<config, key, pairs>>
dirVars == <<finds, password, member>>
oidcVars == <<cookie, state, consents>>

Fault == faults < MaxFaults /\ faults' = faults + 1
NewLogin == logins < MaxLogins /\ logins' = logins + 1

----------------------------------------------------------------------------
(* Tokens.                                                                 *)

Supported == {"RS256", "RS384", "RS512", "ES384", "ES512", "EdDSA", "ES256"}

\* An unknown algorithm signs with ES256 ...
SigningMethod(alg) == IF alg \in Supported THEN alg ELSE "ES256"

\* ... for which the key must be of the right kind.
KeyKind(alg) ==
  CASE alg \in {"RS256", "RS384", "RS512"} -> "rsa"
    [] alg = "EdDSA" -> "ed25519"
    [] alg = "ES384" -> "p384"
    [] alg = "ES512" -> "p521"
    [] OTHER -> "p256"

CanSign(s) == key[s].kind = KeyKind(SigningMethod(config.alg))

GenerateKeys(n) == [kind |-> "p256", no |-> n]

\* The pair of the configuration file, or a pair of the process's own.
LoadOrGenerateKeys(n) == IF config.keys # None THEN config.keys ELSE GenerateKeys(n)

Token(s, user, role, ttl) ==
  [sub |-> user, role |-> role, alg |-> SigningMethod(config.alg), key |-> key[s], exp |-> now + ttl]

\* The middleware accepts both tokens; nothing makes the second last longer.
Validities == {AKValidity, RKValidity}

\* The access token and the refresh token; without them the login failed.
IssueTokens(s, user, role) ==
  IF CanSign(s) THEN tokens \union {Token(s, user, role, ttl) : ttl \in Validities}
  ELSE tokens

\* The algorithm is compared with the configured name, not with the method.
Accepts(s, t) == t.alg = config.alg /\ t.key = key[s] /\ now < t.exp

----------------------------------------------------------------------------
NoLogin == [pc |-> "idle"]

Init ==
  /\ config \in [alg : Algorithms, keys : {None, Configured}]
  /\ key \in [Servers -> {LoadOrGenerateKeys(n) : n \in 1..Cardinality(Servers)}]
  /\ config.keys = None => \A s1, s2 \in Servers : s1 # s2 => key[s1] # key[s2]
  /\ pairs = Cardinality(Servers) /\ now = 0
  /\ finds \in [Range(Domains) -> [Users -> People \union {None}]]
  /\ password \in [People -> Passwords] /\ member \in [People -> SUBSET Groups]
  /\ login = [b \in Browsers |-> NoLogin] /\ cookie = [b \in Browsers |-> 0]
  /\ state = 0 /\ consents = {} /\ tokens = {} /\ logins = 0 /\ faults = 0
  /\ verified = {} /\ last = None

\* Time passes between any two steps of a login.
Tick ==
  /\ now < MaxTime /\ now' = now + 1
  /\ UNCHANGED <<keyVars, dirVars, login, oidcVars, tokens, logins, faults, verified, last>>

Restart(s) ==
  /\ Fault /\ pairs' = pairs + 1 /\ key' = [key EXCEPT ![s] = LoadOrGenerateKeys(pairs + 1)]
  /\ login' = [b \in Browsers |-> IF login[b].pc # "idle" /\ login[b].server = s THEN NoLogin ELSE login[b]]
  /\ UNCHANGED <<config, now, dirVars, oidcVars, tokens, logins, verified, last>>

\* External: the directory changes.
ChangePassword(p, pw) ==
  /\ Fault /\ password[p] # pw /\ password' = [password EXCEPT ![p] = pw]
  /\ UNCHANGED <<keyVars, now, finds, member, login, oidcVars, tokens, logins, verified, last>>

ChangeGroups(p, g) ==
  /\ Fault /\ member' = [member EXCEPT ![p] = IF g \in @ THEN @ \ {g} ELSE @ \union {g}]
  /\ UNCHANGED <<keyVars, now, finds, password, login, oidcVars, tokens, logins, verified, last>>

----------------------------------------------------------------------------
(* LDAP login.                                                             *)

SetLogin(b, l) == login' = [login EXCEPT ![b] = l]
LoginUnchanged == UNCHANGED <<keyVars, now, dirVars, oidcVars, last>>

\* Dial and bind as the service account.
HandleLogin(b, s, u, pw) ==
  /\ login[b].pc = "idle" /\ NewLogin
  /\ SetLogin(b, [pc |-> "search", server |-> s, user |-> u, pw |-> pw, i |-> 1,
                 person |-> None, bound |-> None])
  /\ UNCHANGED <<tokens, faults, verified>> /\ LoginUnchanged

\* The next domain is searched.  The service account has lost its access, or
\* the domain fails: the latter is treated like a domain without the user.
SearchUser(b) ==
  LET l == login[b]
  IN /\ l.pc = "search"
     /\ IF l.i > Len(Domains) THEN SetLogin(b, NoLogin) /\ UNCHANGED faults
        ELSE \/ /\ UNCHANGED faults
                /\ SetLogin(b, IF finds[Domains[l.i]][l.user] = None THEN [l EXCEPT !.i = @ + 1]
                               ELSE [l EXCEPT !.pc = "bind", !.person = finds[Domains[l.i]][l.user]])
             \/ Fault /\ SetLogin(b, [l EXCEPT !.i = @ + 1])
             \/ Fault /\ SetLogin(b, NoLogin)
     /\ UNCHANGED <<tokens, logins, verified>> /\ LoginUnchanged

Proved(u) == verified' = verified \union {[sub |-> u, at |-> now]}

BindAny(b) ==
  LET l == login[b]
  IN /\ l.pc = "bind"
     /\ SetLogin(b, [l EXCEPT !.pc = "groups", !.bound = IF password[l.person] = l.pw THEN l.person ELSE @])
     /\ UNCHANGED <<tokens, logins, faults, verified>> /\ LoginUnchanged

\* The password is checked by binding as the entry that was found.
BindUser(b) ==
  LET l == login[b]
  IN /\ l.pc = "bind"
     /\ SetLogin(b, IF password[l.person] = l.pw THEN [l EXCEPT !.pc = "groups", !.bound = l.person] ELSE NoLogin)
     /\ UNCHANGED <<tokens, logins, faults, verified>> /\ LoginUnchanged

\* The user is who the entry says, or the name that was typed.
BuildUserInfo(person, typed) == IF UserId[person] = None THEN typed ELSE UserId[person]

\* The first mapping that names a group of the user or the domain.
ResolveRole(groups, domain) ==
  LET fits == {i \in DOMAIN RoleMapping : RoleMapping[i].match \in groups \union {domain}}
  IN IF fits = {} THEN "" ELSE RoleMapping[CHOOSE i \in fits : \A j \in fits : i <= j].role

\* A group search that fails leaves the user without groups.
ResolveGroups(b) ==
  LET l == login[b]
      user == BuildUserInfo(l.person, l.user)
  IN /\ l.pc = "groups"
     /\ \/ tokens' = IssueTokens(l.server, user, ResolveRole(member[l.person], Domains[l.i])) /\ UNCHANGED faults
        \/ tokens' = IssueTokens(l.server, user, ResolveRole({}, Domains[l.i])) /\ Fault
     /\ SetLogin(b, NoLogin)
     /\ IF l.bound = l.person THEN Proved(user) ELSE UNCHANGED verified
     /\ UNCHANGED logins /\ LoginUnchanged

----------------------------------------------------------------------------
(* OIDC login.                                                             *)

\* Discovery, a fresh state, the cookie and the redirect.  A second login of
\* the browser overwrites the cookie of the first.
OidcLogin(b) ==
  /\ NewLogin /\ state' = state + 1
  /\ cookie' = [cookie EXCEPT ![b] = state + 1]
  /\ UNCHANGED <<keyVars, now, dirVars, login, consents, tokens, faults, verified, last>>

CookieExpires(b) ==
  /\ cookie[b] # 0 /\ Fault /\ cookie' = [cookie EXCEPT ![b] = 0]
  /\ UNCHANGED <<keyVars, now, dirVars, login, state, consents, tokens, logins, verified, last>>

\* External: the provider redirects back; the id token names the user, or
\* the userinfo endpoint does, or neither.
Consent(n, u, gives) ==
  /\ n \in 1..state /\ \A c \in consents : c.state # n
  /\ consents' = consents \union {[state |-> n, user |-> u, gives |-> gives]}
  /\ UNCHANGED <<keyVars, now, dirVars, login, cookie, state, tokens, logins, faults, verified, last>>

ExtractUserInfo(c) == IF c.gives \in {"id_token", "userinfo"} THEN c.user ELSE None

\* The code is exchanged, which the provider grants once.
LoggedIn(b, s, c) ==
  /\ consents' = consents \ {c}
  /\ IF ExtractUserInfo(c) = None THEN UNCHANGED <<cookie, tokens, verified>>
     ELSE /\ tokens' = IssueTokens(s, ExtractUserInfo(c), "")
          /\ cookie' = IF CanSign(s) THEN [cookie EXCEPT ![b] = 0] ELSE cookie
          /\ Proved(ExtractUserInfo(c))

\* The redirect may be followed in any browser.
HandleCallback(b, s, c) ==
  /\ c \in consents /\ cookie[b] # 0 /\ cookie[b] = c.state
  /\ LoggedIn(b, s, c)
  /\ UNCHANGED <<keyVars, now, dirVars, login, state, logins, faults, last>>

\* Discovery, the exchange or the userinfo call fails.
CallbackFails(b, c) ==
  /\ c \in consents /\ cookie[b] = c.state /\ Fault
  /\ consents' \in {consents, consents \ {c}}
  /\ UNCHANGED <<keyVars, now, dirVars, login, cookie, state, tokens, logins, verified, last>>

----------------------------------------------------------------------------
(* The middleware.                                                         *)

IsPrefixOf(p, q) == Len(p) <= Len(q) /\ SubSeq(q, 1, Len(p)) = p
MatchGlob(pattern, path) ==
  pattern.name = path \/ (pattern.wild /\ IsPrefixOf(pattern.name, path))
Anonymous(path) == \E p \in AnonymousPaths : MatchGlob(p, path)

\* A request with a token on a path that is not anonymous.
Serve(s, path, t) ==
  /\ ~Anonymous(path) /\ Accepts(s, t)
  /\ last' = [sub |-> t.sub, role |-> t.role, at |-> now]
  /\ UNCHANGED <<keyVars, now, dirVars, login, oidcVars, tokens, logins, faults, verified>>

Next ==
  \/ Tick
  \/ \E s \in Servers : Restart(s) \/ \E path \in Paths, t \in tokens : Serve(s, path, t)
  \/ \E p \in People : (\E pw \in Passwords : ChangePassword(p, pw)) \/ \E g \in Groups : ChangeGroups(p, g)
  \/ \E b \in Browsers :
       \/ \E s \in Servers, u \in Users, pw \in Passwords : HandleLogin(b, s, u, pw)
       \/ SearchUser(b) \/ BindUser(b) \/ ResolveGroups(b)
       \/ OidcLogin(b) \/ CookieExpires(b)
       \/ \E c \in consents : CallbackFails(b, c) \/ \E s \in Servers : HandleCallback(b, s, c)
  \/ \E n \in 1..state, u \in Users, gives \in {"id_token", "userinfo", "nothing"} : Consent(n, u, gives)

Spec == Init /\ [][Next]_vars

----------------------------------------------------------------------------
\* A request is served in a user's name only within a token's validity of the
\* end of a login in which the password of the very entry that gave the name
\* was right, or the identity provider gave the name: through searches that
\* fail over to another domain, logins that take long, a directory that
\* changes meanwhile, and tokens that other replicas issued.
ServedAsLoggedIn ==
  last # None =>
    \E v \in verified : v.sub = last.sub /\ v.at <= last.at /\ \E ttl \in Validities : last.at < v.at + ttl
=============================================================================
