---------------------------- MODULE SocketAccess -----------------------------
(***************************************************************************)
(* Who may use a socket and what it then receives: the handshake, then the *)
(* topics of a user.  The parts share no state.                            *)
(***************************************************************************)
EXTENDS Integers, Sequences, FiniteSets, SequencesExt, Functions

(****************************************************************************)
(* Who is at the other end: the client's address behind proxies, the        *)
(* WebSocket handshake with its attempt limit and timeout, the session that *)
(* a later token replaces, and the rooms it may join                        *)
(* (api/ip_utils.py, api/ws/auth.py, router.py, permissions.py).            *)
(****************************************************************************)
CONSTANTS Clients,      \* addresses outside
          Proxies,      \* TRUSTED_PROXIES
          MaxHops,      \* MAX_XFF_HOPS
          Sockets,      \* connections
          People,       \* users
          AuthAttempts,  \* max_attempts of AuthRateLimiter
          MaxRefills,   \* times the buckets are refilled
          MaxRoomsEach  \* max_subscriptions_per_connection

VARIABLES hsRequest,  \* the request being authenticated: its client, the header and peer the server saw
          hsBucket,   \* AuthRateLimiter._buckets: tokens left, by address
          hsRefills,
          hsSocket    \* each connection: stage, session, rooms, and the tokens it presented

hsVars == <<hsRequest, hsBucket, hsRefills, hsSocket>>

Junk == "junk"                      \* an entry that is no address

ASSUME AddressAssumption ==
    /\ Clients # {} /\ Clients \cap Proxies = {} /\ Junk \notin Clients \cup Proxies
    /\ MaxHops \in Nat

NoOneYet == [user |-> "none", role |-> "none"]
TokenRoles == {"user", "admin"}

\* X-Forwarded-For: a client sends what it likes, each proxy appends its peer.
Through(client, sent, via) ==
    [client |-> client, via |-> Len(via),
     header |-> IF via = <<>> THEN sent ELSE sent \o <<client>> \o SubSeq(via, 1, Len(via) - 1),
     peer |-> IF via = <<>> THEN client ELSE Last(via)]

\* resolve_client_ip: the rightmost entry that is an address and not a proxy,
\* among the last MAX_XFF_HOPS, if the peer is a proxy.
MutResolve(q) == IF q.peer \in Proxies /\ q.header # <<>> THEN Head(q.header) ELSE q.peer
Resolve(q) ==
    LET near == {i \in DOMAIN q.header : i > Len(q.header) - MaxHops /\ q.header[i] \notin Proxies \cup {Junk}}
    IN IF q.peer \notin Proxies \/ near = {} THEN q.peer
       ELSE q.header[CHOOSE i \in near : \A j \in near : j <= i]
\* _get_remote_ip of the WebSocket: the last entry alone. Proxies that send X-Real-IP
\* and no X-Forwarded-For are left out.
RemoteIp(q) ==
    IF q.peer \in Proxies /\ q.header # <<>> /\ Last(q.header) # Junk THEN Last(q.header) ELSE q.peer

NewSocket == [pc |-> "new", session |-> NoOneYet, rooms |-> {}, shown |-> {}, ip |-> "none"]
NoRequestYet == Through(CHOOSE c \in Clients : TRUE, <<>>, <<>>)
HandshakeInit ==
    /\ hsRequest = NoRequestYet
    /\ hsBucket = [a \in Clients \cup Proxies |-> AuthAttempts] /\ hsRefills = 0
    /\ hsSocket = [s \in Sockets |-> NewSocket]

\* The socket is accepted; the limiter takes a token of the address or refuses.
Arrive(s, client, sent, via) ==
    LET q == Through(client, sent, via)
        ip == RemoteIp(q)
    IN /\ hsSocket[s].pc = "new"
       /\ hsRequest' = q
       /\ IF hsBucket[ip] > 0
          THEN /\ hsBucket' = [hsBucket EXCEPT ![ip] = @ - 1]
               /\ hsSocket' = [hsSocket EXCEPT ![s] = [hsSocket[s] EXCEPT !.pc = "auth", !.ip = ip]]
          ELSE /\ hsSocket' = [hsSocket EXCEPT ![s].pc = "closed"]
               /\ UNCHANGED hsBucket
       /\ UNCHANGED hsRefills
\* AuthRateLimiter.check refills with the time, up to the limit.
RefillBuckets ==
    /\ hsRefills < MaxRefills /\ hsRefills' = hsRefills + 1
    /\ hsBucket' = [a \in DOMAIN hsBucket |-> IF hsBucket[a] < AuthAttempts THEN hsBucket[a] + 1 ELSE AuthAttempts]
    /\ UNCHANGED <<hsRequest, hsSocket>>

\* A token from the handshake, or from the first message; without one in time, or
\* with a bad one, the socket is closed (authenticate_websocket, called without a
\* database: the account and its legal acceptances are not looked up).
Presents(s, token) ==
    hsSocket' = [hsSocket EXCEPT ![s] =
                    [hsSocket[s] EXCEPT !.pc = "open", !.session = token, !.shown = hsSocket[s].shown \cup {token}]]
Authenticate(s, token) ==
    /\ hsSocket[s].pc = "auth" /\ Presents(s, token)
    /\ hsRequest' = NoRequestYet
    /\ UNCHANGED <<hsBucket, hsRefills>>
\* The connection ends, by the server or the client; the client may come back.
SocketEnds(s) ==
    /\ hsSocket[s].pc # "new"
    /\ hsSocket' = [hsSocket EXCEPT ![s] = NewSocket]
    /\ hsRequest' = NoRequestYet
    /\ UNCHANGED <<hsBucket, hsRefills>>
\* An auth message of an open session replaces its user and its scopes; the rooms
\* it joined before stay.
Reauthenticate(s, token) ==
    /\ hsSocket[s].pc = "open" /\ token # hsSocket[s].session /\ Presents(s, token)
    /\ UNCHANGED <<hsRequest, hsBucket, hsRefills>>

\* Channels by their parameters: the account's portfolio is checked against the
\* user, rooms of a symbol are open to every reader, a strategy's id is compared
\* with the user's own id.
Room(kind, of) == [kind |-> kind, of |-> of]
MutMayJoin(session, room) == session.role = "admin" \/ room.kind # "strategy"
MayJoin(session, room) ==
    \/ session.role = "admin"
    \/ room.kind = "symbol"
    \/ room.of = session.user
JoinChannel(s, room) ==
    /\ hsSocket[s].pc = "open" /\ MayJoin(hsSocket[s].session, room)
    /\ Cardinality(hsSocket[s].rooms) < MaxRoomsEach
    /\ hsSocket' = [hsSocket EXCEPT ![s].rooms = @ \cup {room}]
    /\ UNCHANGED <<hsRequest, hsBucket, hsRefills>>
LeaveChannel(s, room) ==
    /\ hsSocket[s].pc = "open" /\ room \in hsSocket[s].rooms
    /\ hsSocket' = [hsSocket EXCEPT ![s].rooms = @ \ {room}]
    /\ UNCHANGED <<hsRequest, hsBucket, hsRefills>>

AllRooms == {Room("account", p) : p \in People} \cup {Room("symbol", "XYZ"), Room("strategy", "momentum")}
ProxyPaths == {<<>>} \cup {<<p>> : p \in Proxies} \cup {<<p, q>> : p, q \in Proxies}
SentHeaders == {<<>>, <<Junk>>} \cup {<<a>> : a \in Clients \cup Proxies} \cup {<<a, Junk>> : a \in Clients}
HandshakeNext ==
    \/ RefillBuckets
    \/ \E s \in Sockets :
          \/ \E client \in Clients, sent \in SentHeaders, via \in ProxyPaths : Arrive(s, client, sent, via)
          \/ \E token \in [user : People, role : TokenRoles] : Authenticate(s, token) \/ Reauthenticate(s, token)
          \/ SocketEnds(s)
          \/ \E room \in AllRooms : JoinChannel(s, room) \/ LeaveChannel(s, room)

----------------------------------------
\* The address the API limits and records is the one the first trusted proxy
\* talked to, whatever header the client sent; the WebSocket finds it behind one
\* proxy (behind two it takes the inner proxy for the client).
AddressIsClient ==
    /\ hsRequest.via <= MaxHops => Resolve(hsRequest) = hsRequest.client
    /\ hsRequest.via <= 1 => RemoteIp(hsRequest) = hsRequest.client

\* A socket sits in an account's room only if it showed a token of that user or of
\* an admin, over all re-authentications and subscriptions; closed sockets sit in
\* none (check_channel_access, _dispatch_message).
RoomsWereGranted ==
    \A s \in Sockets : \A room \in hsSocket[s].rooms :
       /\ hsSocket[s].pc = "open"
       /\ room.kind = "account" => \E t \in hsSocket[s].shown : t.user = room.of \/ t.role = "admin"

----------------------------------------
(****************************************************************************)
(* The route /api/v1/ws (api/routes/websocket.py) and its UserTopicManager  *)
(* (api/websocket/manager.py): sockets authenticate, attach to their user,  *)
(* subscribe to topics and leave, while broadcasts send to the recipients   *)
(* they found when they began. The manager's lock is never held over an     *)
(* await, so what it protects is one step.                                  *)
(****************************************************************************)

CONSTANTS TopicSockets, TopicUsers,
          ValidTopics,   \* VALID_TOPICS
          OtherTopics,   \* names that are no topic
          MaxCasts

VARIABLES utAt,      \* where a socket's handler is: "auth", "known", "open", "done"
          utWho,     \* the user it authenticated as
          utActive,  \* users that are active
          utConns,   \* _conns: user -> socket -> subscribed topics
          utCast,    \* the broadcast under way
          utCasts, utGot

utVars == <<utAt, utWho, utActive, utConns, utCast, utCasts, utGot>>

Nobody == "nobody"
Idle == [on |-> FALSE, user |-> Nobody, topic |-> "", left |-> {}, standing |-> {}, tried |-> {}]
NoConns == [s \in {} |-> {}]

TopicsInit ==
    /\ utAt = [s \in TopicSockets |-> "auth"] /\ utWho = [s \in TopicSockets |-> Nobody]
    /\ utActive = TopicUsers /\ utConns = [u \in TopicUsers |-> NoConns]
    /\ utCast = Idle /\ utCasts = 0 /\ utGot = {}

HandlerAt(s, from, to) == utAt[s] = from /\ utAt' = [utAt EXCEPT ![s] = to]

\* _authenticate: a timeout, a disconnect, another message and a token of nobody all
\* end the handler before anything is registered.
AuthenticateFails(s) ==
    /\ HandlerAt(s, "auth", "done")
    /\ UNCHANGED <<utWho, utActive, utConns, utCast, utCasts, utGot>>
\* _user_for_token, with a JWT or an API key of an active user.
Authenticates(s, u) ==
    /\ HandlerAt(s, "auth", "known") /\ u \in utActive
    /\ utWho' = [utWho EXCEPT ![s] = u]
    /\ UNCHANGED <<utActive, utConns, utCast, utCasts, utGot>>

WithSocket(conns, s) == [t \in DOMAIN conns \cup {s} |-> IF t = s THEN {} ELSE conns[t]]
MutAttach(s) ==             \* the first user of the table instead of the socket's
    /\ HandlerAt(s, "known", "open")
    /\ utConns' = [utConns EXCEPT ![CHOOSE u \in TopicUsers : TRUE] = WithSocket(@, s)]
    /\ UNCHANGED <<utWho, utActive, utCast, utCasts, utGot>>
Attach(s) ==
    /\ HandlerAt(s, "known", "open")
    /\ utConns' = [utConns EXCEPT ![utWho[s]] = WithSocket(@, s)]
    /\ UNCHANGED <<utWho, utActive, utCast, utCasts, utGot>>

\* One message of the loop: names that are no topic are dropped, and a socket that is
\* not registered changes nothing.
SubscribeTopics(s, topics) ==
    /\ utAt[s] = "open" /\ s \in DOMAIN utConns[utWho[s]]
    /\ utConns' = [utConns EXCEPT ![utWho[s]][s] = @ \cup (topics \cap ValidTopics)]
    /\ UNCHANGED <<utAt, utWho, utActive, utCast, utCasts, utGot>>
\* Whoever no longer subscribes is not waited for by the broadcast's promise.
NoLonger(s, topics) == IF utCast.topic \in topics THEN [utCast EXCEPT !.standing = @ \ {s}] ELSE utCast
UnsubscribeTopics(s, topics) ==
    /\ utAt[s] = "open" /\ s \in DOMAIN utConns[utWho[s]]
    /\ utConns' = [utConns EXCEPT ![utWho[s]][s] = @ \ topics]
    /\ utCast' = NoLonger(s, topics)
    /\ UNCHANGED <<utAt, utWho, utActive, utCasts, utGot>>

\* The loop ends with a disconnect or an error, and finally detaches.
MutDetach(s) ==
    /\ HandlerAt(s, "open", "done") /\ utCast' = NoLonger(s, ValidTopics)
    /\ UNCHANGED <<utConns, utWho, utActive, utCasts, utGot>>
Detach(s) ==
    /\ HandlerAt(s, "open", "done") /\ utCast' = NoLonger(s, ValidTopics)
    /\ utConns' = [utConns EXCEPT ![utWho[s]] = Restrict(@, DOMAIN @ \ {s})]
    /\ UNCHANGED <<utWho, utActive, utCasts, utGot>>

\* broadcast reads the recipients under the lock and sends after it.
MutRecipients(user, topic) == DOMAIN utConns[user]
Recipients(user, topic) == {s \in DOMAIN utConns[user] : topic \in utConns[user][s]}
BroadcastTopic(user, topic) ==
    /\ ~utCast.on /\ utCasts < MaxCasts /\ utCasts' = utCasts + 1
    /\ utCast' = IF topic \in ValidTopics /\ Recipients(user, topic) # {}
                 THEN [on |-> TRUE, user |-> user, topic |-> topic, left |-> Recipients(user, topic),
                       standing |-> Recipients(user, topic), tried |-> {}]
                 ELSE Idle
    /\ UNCHANGED <<utAt, utWho, utActive, utConns, utGot>>
\* One send of the gather; a failure is suppressed, and a socket that left fails.
SendTopic(s, ok) ==
    /\ utCast.on /\ s \in utCast.left
    /\ ok => utAt[s] = "open"
    /\ utGot' = IF ok THEN utGot \cup {<<s, utCast.user, utCast.topic>>} ELSE utGot
    /\ utCast' = [utCast EXCEPT !.left = @ \ {s}, !.tried = @ \cup {s}]
    /\ UNCHANGED <<utAt, utWho, utActive, utConns, utCasts>>
BroadcastEnds ==
    /\ utCast.on /\ utCast.left = {} /\ utCast' = Idle
    /\ UNCHANGED <<utAt, utWho, utActive, utConns, utCasts, utGot>>

\* The account is deactivated elsewhere; open sockets are not told.
DeactivateUser(u) ==
    /\ u \in utActive /\ utActive' = utActive \ {u}
    /\ UNCHANGED <<utAt, utWho, utConns, utCast, utCasts, utGot>>

TopicsNext ==
    \/ \E s \in TopicSockets :
          \/ AuthenticateFails(s) \/ Attach(s) \/ Detach(s)
          \/ \E u \in TopicUsers : Authenticates(s, u)
          \/ \E topics \in {{t} : t \in ValidTopics \cup OtherTopics} : SubscribeTopics(s, topics) \/ UnsubscribeTopics(s, topics)
          \/ \E ok \in BOOLEAN : SendTopic(s, ok)
    \/ \E u \in TopicUsers, t \in ValidTopics \cup OtherTopics : BroadcastTopic(u, t)
    \/ \E u \in TopicUsers : DeactivateUser(u)
    \/ BroadcastEnds

----------------------------------------
\* A socket is registered exactly while its handler serves it, and only under the
\* user it authenticated as. Nobody receives what is another user's, or a name that is
\* no topic, and a broadcast that has finished sending has tried everyone who stayed
\* subscribed throughout, although sockets come and go between its sends
\* (ws_endpoint, UserTopicManager).
TopicsStayWithUser ==
    /\ \A u \in TopicUsers : DOMAIN utConns[u] = {s \in TopicSockets : utAt[s] = "open" /\ utWho[s] = u}
    /\ \A g \in utGot : utWho[g[1]] = g[2] /\ g[3] \in ValidTopics
    /\ \A s \in utCast.left : utCast.topic \in ValidTopics /\ utWho[s] = utCast.user
    /\ utCast.on => utCast.standing \subseteq utCast.left \cup utCast.tried
    /\ utCast.on => \A s \in utCast.standing : utCast.topic \in utConns[utCast.user][s]
=============================================================================
