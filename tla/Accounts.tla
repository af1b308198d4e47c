------------------------------ MODULE Accounts -------------------------------
(***************************************************************************)
(* Who a user is: accounts and their logins, the clients of the OAuth      *)
(* providers, then the LDAP pool.  The parts share no state.               *)
(***************************************************************************)
EXTENDS Naturals, Sequences, FiniteSets, SequencesExt

(****************************************************************************)
(* User accounts: registration and login with a password, logins through   *)
(* the identity providers (authorize, callback, LDAP), and the rows they    *)
(* find or create (api/routes/auth.py, api/auth/).                          *)
(****************************************************************************)
CONSTANTS LoginRequests,  \* requests in flight at once
          Browsers,       \* cookie jars
          Flows,          \* providers with a redirect: of {"github", "google", "oidc"}
          Mails,          \* addresses people register with
          Profiles,       \* what a provider may report: id, address or NoMail, roles
          MaxStates, MaxUsers

ASSUME FlowsAssumption == Flows \subseteq {"github", "google", "oidc"}

VARIABLES acUsers,   \* the table of users; an id is a position
          acCookie,  \* the oauth_state cookie of a browser and a provider, 0 for none
          acFlows,   \* the authorize pages handed out: browser, provider, state
          acReq,     \* the requests in flight
          acJwks,    \* the OIDC keys this process has cached: "none", "current" or "old"
          acToken    \* the tokens handed out last: to which row, for which authentication

acVars == <<acUsers, acCookie, acFlows, acReq, acJwks, acToken>>

NoMail == "none"
NoExt == "none"
NoToken == [user |-> 0, provider |-> "none"]
NoRequest == [pc |-> "idle"]
UserIds == DOMAIN acUsers
Adopt(r, rec) == acReq' = [acReq EXCEPT ![r] = rec]

\* _ROLE_PRIORITY, _EXTERNAL_ROLE_ALIASES; an unknown role is ignored.
Priority == [user |-> 1, retail_trader |-> 2, developer |-> 4, portfolio_manager |-> 5, admin |-> 6]
Canonical(role) == IF role = "viewer" THEN "user" ELSE IF role = "quant_dev" THEN "developer" ELSE role
MapRoles(claims) ==
    LET known == {"user"} \cup ({Canonical(c) : c \in claims} \cap DOMAIN Priority)
    IN CHOOSE b \in known : \A k \in known : Priority[k] <= Priority[b]

\* The row a profile stands for: GitHub and LDAP make an address up, Google and
\* OIDC refuse a profile without one.
ProfileMail(p, prof) ==
    IF prof.mail # NoMail THEN prof.mail
    ELSE IF p \in {"github", "ldap"} THEN <<p, prof.ext>> ELSE NoMail
Complete(p, prof) == ProfileMail(p, prof) # NoMail
NewRow(p, prof) ==
    [mail |-> ProfileMail(p, prof), provider |-> p, ext |-> prof.ext, active |-> TRUE,
     role |-> IF p \in {"oidc", "ldap"} THEN MapRoles(prof.roles) ELSE "user"]

AccountInit ==
    /\ acUsers = <<>> /\ acFlows = {} /\ acToken = NoToken
    /\ acCookie = [b \in Browsers |-> [p \in Flows |-> 0]]
    /\ acReq = [r \in LoginRequests |-> NoRequest]
    /\ acJwks = "none"

\* users.email is unique, and so is (auth_provider, external_id) where there is one.
MutConflicts(row) == FALSE
Conflicts(row) ==
    \E u \in UserIds :
       \/ acUsers[u].mail = row.mail
       \/ row.ext # NoExt /\ acUsers[u].provider = row.provider /\ acUsers[u].ext = row.ext

\* The row the route reads again before it mints tokens.
MutRowFor(p, prof) == {u \in UserIds : acUsers[u].mail = ProfileMail(p, prof)}
RowFor(p, prof) == {u \in UserIds : acUsers[u].provider = p /\ acUsers[u].ext = prof.ext}

\* GET /{provider}/authorize: a new state, which replaces the one in the cookie.
Authorize(b, p) ==
    LET state == Cardinality(acFlows) + 1
    IN /\ state <= MaxStates
       /\ acFlows' = acFlows \cup {[browser |-> b, provider |-> p, state |-> state]}
       /\ acCookie' = [acCookie EXCEPT ![b][p] = state]
       /\ UNCHANGED <<acUsers, acReq, acJwks, acToken>>

\* GET /{provider}/callback, wherever the redirect is opened.
MutStateMatches(b, f) == acCookie[b][f.provider] \in {0, f.state}   \* no cookie passes
StateMatches(b, f) == acCookie[b][f.provider] = f.state
Callback(r, b, f) ==
    /\ acReq[r] = NoRequest
    /\ StateMatches(b, f)
    /\ Adopt(r, [pc |-> "exchange", browser |-> b, provider |-> f.provider, state |-> f.state])
    /\ UNCHANGED <<acUsers, acCookie, acFlows, acJwks, acToken>>

\* The code is exchanged and the profile read; any failure ends the request.
\* OIDC keeps the first key set it read and never reads another.
Exchange(r) ==
    LET q == acReq[r] IN
    /\ q.pc = "exchange"
    /\ acJwks' \in {acJwks} \cup (IF q.provider = "oidc" /\ acJwks = "none" THEN {"current"} ELSE {})
    /\ \/ Adopt(r, NoRequest)
       \/ \E prof \in Profiles :
             /\ Complete(q.provider, prof)
             /\ q.provider = "oidc" => acJwks' = "current"
             /\ Adopt(r, [pc |-> "lookup", browser |-> q.browser, provider |-> q.provider,
                          state |-> q.state, who |-> prof])
    /\ UNCHANGED <<acUsers, acCookie, acFlows, acToken>>

\* LDAPAuthProvider.authenticate after a successful bind and search.
LdapLogin(r, prof) ==
    /\ acReq[r] = NoRequest
    /\ Adopt(r, [pc |-> "lookup", browser |-> "none", provider |-> "ldap", state |-> 0, who |-> prof])
    /\ UNCHANGED <<acUsers, acCookie, acFlows, acJwks, acToken>>

\* The rows of an identity.
Found(p, prof) == {u \in UserIds : acUsers[u].provider = p /\ acUsers[u].ext = prof.ext}
\* The row of the identity; none, and the address is taken: refused; none at all: insert.
FindIdentity(r) ==
    LET q == acReq[r]
        found == Found(q.provider, q.who)
        role == MapRoles(q.who.roles)
    IN /\ q.pc = "lookup"
       /\ acUsers' = [u \in UserIds |-> IF u \in found /\ q.provider = "ldap"
                                    THEN [acUsers[u] EXCEPT !.role = role] ELSE acUsers[u]]
       /\ Adopt(r, IF found # {} THEN IF \E u \in found : acUsers[u].active THEN [q EXCEPT !.pc = "mint"] ELSE NoRequest
                   ELSE IF \E u \in UserIds : acUsers[u].mail = ProfileMail(q.provider, q.who) THEN NoRequest
                   ELSE [q EXCEPT !.pc = "insert"])
       /\ UNCHANGED <<acCookie, acFlows, acJwks, acToken>>

\* The response with the tokens removes whatever state the browser holds by then.
Respond(q) ==
    acCookie' = IF q.browser \in Browsers THEN [acCookie EXCEPT ![q.browser][q.provider] = 0] ELSE acCookie
Token(u, q) == [user |-> u, provider |-> q.provider, ext |-> q.who.ext, browser |-> q.browser, state |-> q.state]

\* The flush of a new row, which the unique indexes may refuse; the same
\* transaction then mints and stores the tokens.
InsertUser(r) ==
    LET q == acReq[r]
        row == IF q.provider = "local"
               THEN [mail |-> q.who.mail, provider |-> "local", ext |-> NoExt, active |-> TRUE, role |-> "user"]
               ELSE NewRow(q.provider, q.who)
    IN /\ q.pc = "insert"
       /\ Len(acUsers) < MaxUsers
       /\ Adopt(r, NoRequest)
       /\ IF Conflicts(row) THEN UNCHANGED <<acUsers, acToken, acCookie>>
          ELSE /\ acUsers' = Append(acUsers, row)
               /\ acToken' = Token(Len(acUsers) + 1, q)
               /\ Respond(q)
       /\ UNCHANGED <<acFlows, acJwks>>

\* A known identity: the route reads the row again and mints, or answers 500.
MintTokens(r) ==
    LET q == acReq[r]
        rows == RowFor(q.provider, q.who)
    IN /\ q.pc = "mint"
       /\ Adopt(r, NoRequest)
       /\ IF rows = {} THEN UNCHANGED <<acToken, acCookie>>
          ELSE (\E u \in rows : acToken' = Token(u, q)) /\ Respond(q)
       /\ UNCHANGED <<acUsers, acFlows, acJwks>>

\* POST /register and POST /login; a wrong password changes nothing.
LocalRequest(m, pc) ==
    [pc |-> pc, browser |-> "none", provider |-> "local", state |-> 0, who |-> [ext |-> NoExt, mail |-> m]]
RegisterUser(r, m) ==
    /\ acReq[r] = NoRequest
    /\ \A u \in UserIds : acUsers[u].mail # m
    /\ Adopt(r, LocalRequest(m, "insert"))
    /\ UNCHANGED <<acUsers, acCookie, acFlows, acJwks, acToken>>
LocalLogin(r, m) ==
    /\ acReq[r] = NoRequest
    /\ \E u \in UserIds :
          /\ acUsers[u].mail = m /\ acUsers[u].provider = "local" /\ acUsers[u].active
          /\ acToken' = Token(u, LocalRequest(m, "mint"))
    /\ UNCHANGED <<acUsers, acCookie, acFlows, acReq, acJwks>>

\* An account is disabled while its deletion is pending, and enabled by a cancellation.
SwitchAccount(u, on) ==
    /\ acUsers[u].active # on
    /\ acUsers' = [acUsers EXCEPT ![u].active = on]
    /\ UNCHANGED <<acCookie, acFlows, acReq, acJwks, acToken>>
\* The issuer signs with a new key.
RotateKeys == /\ acJwks = "current" /\ acJwks' = "old"
              /\ UNCHANGED <<acUsers, acCookie, acFlows, acReq, acToken>>
\* The process ends with the requests it was serving and its key cache.
RestartApi == /\ acJwks = "old"
           /\ acJwks' = "none" /\ acReq' = [r \in LoginRequests |-> NoRequest]
           /\ UNCHANGED <<acUsers, acCookie, acFlows, acToken>>

AccountNext ==
    \/ \E b \in Browsers, p \in Flows : Authorize(b, p)
    \/ \E r \in LoginRequests :
          \/ \E b \in Browsers, f \in acFlows : Callback(r, b, f)
          \/ \E prof \in Profiles : LdapLogin(r, prof)
          \/ Exchange(r) \/ FindIdentity(r) \/ InsertUser(r) \/ MintTokens(r)
          \/ \E m \in Mails : RegisterUser(r, m) \/ LocalLogin(r, m)
    \/ \E u \in UserIds, on \in BOOLEAN : SwitchAccount(u, on)
    \/ RotateKeys \/ RestartApi

----------------------------------------
\* However two first logins and registrations interleave between the lookup and
\* the insert, an address and an identity have one row each (the lookups use
\* scalar_one_or_none, which raises on two).
OneRowPerIdentity ==
    \A u, v \in UserIds : u # v =>
       /\ acUsers[u].mail # acUsers[v].mail
       /\ acUsers[u].provider = acUsers[v].provider /\ acUsers[u].ext # NoExt => acUsers[u].ext # acUsers[v].ext

\* Tokens are for the row of the identity that was authenticated, whatever
\* address the provider reports for it by now (_get_or_create_user, provider_callback).
TokensForOwners ==
    acToken # NoToken => /\ acUsers[acToken.user].provider = acToken.provider
                         /\ acUsers[acToken.user].ext = acToken.ext

\* A browser gets the tokens of a redirect it asked for itself (oauth_state cookie).
FlowStartedHere ==
    acToken.provider \in Flows =>
       [browser |-> acToken.browser, provider |-> acToken.provider, state |-> acToken.state] \in acFlows

----------------------------------------

(****************************************************************************)
(* The OAuth and OpenID Connect clients: authorize URL with state and PKCE, *)
(* the redirect back, the exchange of the code, the user's profile or the   *)
(* verified id token, and the cached signing keys                           *)
(* (auth/base.py, auth/github.py, auth/oidc.py, auth/providers/google.py).  *)
(****************************************************************************)
CONSTANTS FlowIds,     \* logins that are begun
          ProviderOf,  \* the provider of a flow: "github", "google" or "oidc"
          Skew         \* clock_skew

VARIABLES ofFlow,      \* each flow: where it is, and the identity it obtained
          ofRedirects, \* redirects the providers sent out, by the flow they answer
          ofJwks,      \* the keys OIDCProvider has cached: "none", "current", "old"
          ofToken      \* the id token accepted last

ofVars == <<ofFlow, ofRedirects, ofJwks, ofToken>>
NoOne == "none"
Stage(pc, who) == [pc |-> pc, who |-> who]
Sets(f, s) == ofFlow' = [ofFlow EXCEPT ![f] = s]

FlowInit ==
    /\ ofFlow = [f \in FlowIds |-> Stage("new", NoOne)] /\ ofRedirects = {}
    /\ ofJwks = "none" /\ ofToken = [made |-> FALSE]

\* get_authorize_url: a state, and for OIDC a code challenge, of this flow.
BeginFlow(f) ==
    /\ ofFlow[f].pc = "new"
    /\ Sets(f, Stage("authorize", NoOne))
    /\ UNCHANGED <<ofRedirects, ofJwks, ofToken>>
\* The user consents at the provider, which redirects with a code and the state.
UserConsents(f) ==
    /\ ofFlow[f].pc = "authorize"
    /\ ofRedirects' = ofRedirects \cup {f}
    /\ UNCHANGED <<ofFlow, ofJwks, ofToken>>

\* validate_state: both present and equal.
MutStateValid(received, expected) == received \in FlowIds
StateValid(received, expected) == received = expected
\* A redirect reaches a flow, its own or another of the same provider.
RedirectArrives(f, r) ==
    /\ ofFlow[f].pc = "authorize" /\ r \in ofRedirects /\ ProviderOf[r] = ProviderOf[f]
    /\ IF StateValid(r, f) THEN Sets(f, Stage("exchange", r)) ELSE UNCHANGED ofFlow
    /\ UNCHANGED <<ofRedirects, ofJwks, ofToken>>

\* exchange_code: the token endpoint refuses a code whose challenge another
\* verifier made; network errors, error statuses and malformed bodies all end in
\* TokenExchangeError.
VerifierMatches(f, code) == code = f
GithubExchange(f) == ProviderOf[f] = "github" /\ Sets(f, Stage("token", ofFlow[f].who))
GoogleExchange(f) == ProviderOf[f] = "google" /\ Sets(f, Stage("token", ofFlow[f].who))
OidcExchange(f) == /\ ProviderOf[f] = "oidc" /\ VerifierMatches(f, ofFlow[f].who)
                   /\ Sets(f, Stage("token", ofFlow[f].who))
ExchangeCode(f) ==
    /\ ofFlow[f].pc = "exchange"
    /\ \/ GithubExchange(f) \/ GoogleExchange(f) \/ OidcExchange(f)
       \/ Sets(f, Stage("failed", NoOne))
    /\ UNCHANGED <<ofRedirects, ofJwks, ofToken>>

\* GitHub: the public address, else the primary verified one, else any verified
\* one, else one made from the login; every other failure is InvalidTokenError.
GithubMail(profile) ==
    CASE profile.public -> "public"
      [] ~profile.public /\ profile.mails = {"primary verified", "verified"} -> "primary verified"
      [] ~profile.public /\ profile.mails = {"verified"} -> "verified"
      [] OTHER -> "noreply"
\* Google: the profile needs a subject; map_user refuses an unverified address.
GoogleMapped(profile) == profile.mail => profile.verified
ReadProfile(f) ==
    /\ ofFlow[f].pc = "token" /\ ProviderOf[f] \in {"github", "google"}
    /\ \/ /\ ProviderOf[f] = "github"
          /\ \E profile \in [public : BOOLEAN, mails : {{}, {"verified"}, {"primary verified", "verified"}}] :
                GithubMail(profile) # NoOne /\ Sets(f, Stage("done", ofFlow[f].who))
       \/ /\ ProviderOf[f] = "google"
          /\ \E profile \in [mail : BOOLEAN, verified : BOOLEAN] :
                Sets(f, IF GoogleMapped(profile) THEN Stage("done", ofFlow[f].who) ELSE Stage("failed", NoOne))
       \/ Sets(f, Stage("failed", NoOne))
    /\ UNCHANGED <<ofRedirects, ofJwks, ofToken>>

\* fetch_jwks: cached unless forced; a failure leaves the cache alone.
FetchJwks(force) ==
    /\ ofJwks = "none" \/ force
    /\ ofJwks' = "current"
    /\ UNCHANGED <<ofFlow, ofRedirects, ofToken>>

\* verify_id_token: algorithm and key id of the header, then signature, issuer,
\* audience and times with the leeway; age is counted from exp, and Skew is the last
\* age that passes. Tokens of a key that was rotated out are left out: who cached the
\* old set still accepts them.
IdTokens == [alg : {"RS256", "HS256"}, key : {"current", "forged"}, iss : BOOLEAN, aud : BOOLEAN, age : 0..2]
MutTimely(token) == token.age <= Skew + 1
Timely(token) == token.age <= Skew
Verified(token, keys) ==
    /\ token.alg = "RS256" /\ token.key = keys
    /\ token.iss /\ token.aud /\ Timely(token)
VerifyIdToken(f, token) ==
    /\ ofFlow[f].pc = "token" /\ ProviderOf[f] # "github"
    /\ IF Verified(token, IF ProviderOf[f] = "google" THEN "current" ELSE ofJwks)
       THEN Sets(f, Stage("done", ofFlow[f].who)) /\ ofToken' = [made |-> TRUE, token |-> token]
       ELSE Sets(f, Stage(IF ofJwks = "old" THEN "token" ELSE "failed", ofFlow[f].who)) /\ UNCHANGED ofToken
    /\ UNCHANGED <<ofRedirects, ofJwks>>

KeysRotate == ofJwks = "current" /\ ofJwks' = "old" /\ UNCHANGED <<ofFlow, ofRedirects, ofToken>>

FlowNext ==
    \/ \E f \in FlowIds :
          \/ BeginFlow(f) \/ UserConsents(f) \/ ExchangeCode(f) \/ ReadProfile(f)
          \/ \E r \in FlowIds : RedirectArrives(f, r)
          \/ \E token \in IdTokens : VerifyIdToken(f, token)
    \/ \E force \in BOOLEAN : FetchJwks(force)
    \/ KeysRotate

----------------------------------------
\* A flow ends with the identity that consented in that flow, whichever redirect
\* reached it (validate_state, and the code verifier where there is one).
IdentityIsFlowOwner == \A f \in FlowIds : ofFlow[f].pc = "done" => ofFlow[f].who = f
\* An accepted id token was signed by the issuer with an allowed algorithm, for
\* this client, and is not older than the leeway.
AcceptedIsGenuine ==
    ofToken.made => LET t == ofToken.token
                    IN t.key = "current" /\ t.alg # "HS256" /\ t.iss /\ t.aud /\ t.age <= Skew

----------------------------------------
(****************************************************************************)
(* LDAP authentication: the pool of service connections shared by threads,  *)
(* the search with one of them and the bind as the user                     *)
(* (auth/providers/ldap.py).                                                *)
(****************************************************************************)

CONSTANTS LdapThreads,  \* threads that authenticate
          Links,        \* connections that can be made
          PoolSize,     \* pool_size
          Groups,       \* groups of the directory
          RoleMapping   \* role_mapping: group to role

ASSUME PoolSizeAssumption ==
    /\ PoolSize \in Nat \ {0}
    /\ "none" \notin Links   \* what is held by who holds no connection

VARIABLES lpLink,    \* each connection: "unmade", "bound", "broken" or "unbound"
          lpIdle,    \* the pool's queue of idle connections
          lpClosed,  \* the pool is closed
          lpThread   \* each thread: where it is, the connection it holds, the roles it got

lpVars == <<lpLink, lpIdle, lpClosed, lpThread>>

NoLink == "none"
At(pc, c) == [pc |-> pc, link |-> c, roles |-> <<>>]

PoolInit ==
    /\ lpLink = [c \in Links |-> "unmade"]
    /\ lpIdle = <<>> /\ lpClosed = FALSE
    /\ lpThread = [t \in LdapThreads |-> At("out", NoLink)]

Unbind(links) == [c \in Links |-> IF c \in links THEN "unbound" ELSE lpLink[c]]
Moves(t, rec) == lpThread' = [lpThread EXCEPT ![t] = rec]

\* _checkout, under the lock: the first idle connection that is still bound; the
\* broken ones before it are unbound. With none the caller makes a new one.
Checkout(t) ==
    LET usable == {i \in DOMAIN lpIdle : lpLink[lpIdle[i]] = "bound"}
        first == CHOOSE i \in usable : \A j \in usable : i <= j
        dropped == {lpIdle[i] : i \in {j \in DOMAIN lpIdle : usable = {} \/ j < first}}
    IN /\ lpThread[t].pc = "out" /\ ~lpClosed
       /\ lpLink' = Unbind(dropped)
       /\ lpIdle' = IF usable = {} THEN <<>> ELSE SubSeq(lpIdle, first + 1, Len(lpIdle))
       /\ Moves(t, IF usable = {} THEN At("make", NoLink) ELSE At("search", lpIdle[first]))
       /\ UNCHANGED lpClosed

\* _create_service_connection, outside the lock; a failed bind raises, and its
\* connection, which nobody unbinds, is not counted.
MakeLink(t) ==
    /\ lpThread[t].pc = "make"
    /\ \/ Moves(t, At("out", NoLink)) /\ UNCHANGED lpLink
       \/ \E c \in Links : /\ lpLink[c] = "unmade"
                           /\ lpLink' = [lpLink EXCEPT ![c] = "bound"]
                           /\ Moves(t, At("search", c))
    /\ UNCHANGED <<lpIdle, lpClosed>>

\* search_user: found or not, the connection is given back; _checkin looks at it
\* before it takes the lock.
SearchEnds(t, found) ==
    LET c == lpThread[t].link IN
    /\ lpThread[t].pc = "search"
    /\ IF lpLink[c] = "bound"
       THEN Moves(t, At(IF found THEN "return" ELSE "giveup", c)) /\ UNCHANGED lpLink
       ELSE Moves(t, At(IF found THEN "verify" ELSE "out", NoLink)) /\ lpLink' = Unbind({c})
    /\ UNCHANGED <<lpIdle, lpClosed>>

\* _checkin, under the lock: kept unless the pool is closed or full.
MutRoomInPool == Len(lpIdle) < PoolSize
RoomInPool == ~lpClosed /\ Len(lpIdle) < PoolSize
ReturnLink(t) ==
    LET c == lpThread[t].link IN
    /\ lpThread[t].pc \in {"return", "giveup"}
    /\ IF RoomInPool THEN lpIdle' = Append(lpIdle, c) /\ UNCHANGED lpLink
       ELSE lpLink' = Unbind({c}) /\ UNCHANGED lpIdle
    /\ Moves(t, At(IF lpThread[t].pc = "return" THEN "verify" ELSE "out", NoLink))
    /\ UNCHANGED lpClosed

\* _resolve_roles: the roles of the mapped groups, each once, the strongest first.
Strength == [viewer |-> 0, user |-> 1, developer |-> 2, admin |-> 3]
ResolveRoles(groups) ==
    LET mapped == {RoleMapping[g] : g \in groups \cap DOMAIN RoleMapping}
    IN IF mapped = {} THEN <<"user">> ELSE SetToSortSeq(mapped, LAMBDA a, b : Strength[a] > Strength[b])

\* _verify_user_bind on a connection of its own, then the roles of the groups.
VerifyUser(t) ==
    /\ lpThread[t].pc = "verify"
    /\ \/ Moves(t, At("out", NoLink))
       \/ \E groups \in SUBSET Groups :
             Moves(t, [pc |-> "in", link |-> NoLink, roles |-> ResolveRoles(groups)])
    /\ UNCHANGED <<lpLink, lpIdle, lpClosed>>
Leave(t) == lpThread[t].pc = "in" /\ Moves(t, At("out", NoLink)) /\ UNCHANGED <<lpLink, lpIdle, lpClosed>>

ClosePool ==
    /\ ~lpClosed /\ lpClosed' = TRUE
    /\ lpLink' = Unbind(ToSet(lpIdle)) /\ lpIdle' = <<>>
    /\ UNCHANGED lpThread

\* The server ends a connection.
LinkBreaks(c) == lpLink[c] = "bound" /\ lpLink' = [lpLink EXCEPT ![c] = "broken"]
                 /\ UNCHANGED <<lpIdle, lpClosed, lpThread>>

PoolNext ==
    \/ \E t \in LdapThreads :
          \/ Checkout(t) \/ MakeLink(t) \/ ReturnLink(t) \/ VerifyUser(t) \/ Leave(t)
          \/ \E found \in BOOLEAN : SearchEnds(t, found)
    \/ ClosePool
    \/ \E c \in Links : LinkBreaks(c)

----------------------------------------
\* A connection that was made has one owner, the pool or a thread, until it is
\* unbound; the pool keeps at most pool_size, and none once it is closed, also
\* when threads come back with theirs after close (LDAPConnectionPool).
LinksOwned ==
    /\ \A c \in Links : lpLink[c] \in {"bound", "broken"} =>
          Cardinality({i \in DOMAIN lpIdle : lpIdle[i] = c}) +
          Cardinality({t \in LdapThreads : lpThread[t].link = c}) = 1
    /\ Len(lpIdle) <= PoolSize
    /\ lpClosed => lpIdle = <<>>
=============================================================================
