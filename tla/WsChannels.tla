----------------------------- MODULE WsChannels -----------------------------
(***************************************************************************)
(* The channel ConnectionManager of src/engine/api/websocket/manager.py.   *)
(* It knows a socket by a connection id that a client may use again after  *)
(* it reconnects, perhaps as another user; a broadcast copies the ids      *)
(* under the lock, looks the sockets up when it sends, and removes the ids *)
(* whose send failed in a second locked section.                           *)
(***************************************************************************)
EXTENDS Integers, FiniteSets

CONSTANTS Ids,          \* connection ids
          Accounts,     \* user ids: channel "user:<a>" is named a here
          Public,       \* channels anyone may join
          MaxSockets,   \* bound: sockets opened under one id
          MaxCasts      \* bound: broadcasts

ASSUME ChannelAssumption ==
    /\ Accounts \cap Public = {} /\ MaxSockets \in Nat /\ MaxCasts \in Nat

VARIABLES chSocket,   \* connections: id -> socket number, 0 when there is none
          chUser,     \* _user_ids: id -> account, "none" when there is none
          chMembers,  \* channel_subscriptions
          chDead,     \* sockets to which a send fails
          chCasts,    \* broadcasts under way
          chHist      \* history: sockets opened per id, broadcasts so far

chVars == <<chSocket, chUser, chMembers, chDead, chCasts, chHist>>

Channels == Accounts \cup Public

ChannelInit ==
    /\ chSocket = [i \in Ids |-> 0]
    /\ chUser = [i \in Ids |-> "none"]
    /\ chMembers = [c \in Channels |-> {}]
    /\ chDead = {}
    /\ chCasts = {}
    /\ chHist = [opened |-> [i \in Ids |-> 0], casts |-> 0]

Without(is) == [c \in Channels |-> chMembers[c] \ is]

----------------------------------------
(* ConnectionManager *)

MutMembersAfterConnect(i) == chMembers      \* the new socket inherits the channels

\* connect: memberships of an earlier socket with this id are dropped.
MembersAfterConnect(i) == Without({i})

ChannelConnect(i, a) ==
    /\ chHist.opened[i] < MaxSockets
    /\ chHist' = [chHist EXCEPT !.opened[i] = @ + 1]
    /\ chSocket' = [chSocket EXCEPT ![i] = chHist.opened[i] + 1]
    /\ chUser' = [chUser EXCEPT ![i] = a]
    /\ chMembers' = MembersAfterConnect(i)
    /\ UNCHANGED <<chDead, chCasts>>

ChannelDisconnect(i) ==
    /\ chSocket[i] # 0
    /\ chSocket' = [chSocket EXCEPT ![i] = 0]
    /\ chUser' = [chUser EXCEPT ![i] = "none"]
    /\ chMembers' = Without({i})
    /\ UNCHANGED <<chDead, chCasts, chHist>>

\* _channel_allowed_locked: a user's channel is for that user's connections.
Allowed(i, c) == c \in Accounts => chUser[i] = c

ChannelSubscribe(i, c) ==
    /\ chSocket[i] # 0 /\ Allowed(i, c)
    /\ chMembers' = [chMembers EXCEPT ![c] = @ \cup {i}]
    /\ UNCHANGED <<chSocket, chUser, chDead, chCasts, chHist>>

ChannelUnsubscribe(i, c) ==
    /\ i \in chMembers[c]
    /\ chMembers' = [chMembers EXCEPT ![c] = @ \ {i}]
    /\ UNCHANGED <<chSocket, chUser, chDead, chCasts, chHist>>

\* broadcast to a channel, broadcast_all, send: a copy of ids is served.
CastTo(is) ==
    /\ chHist.casts < MaxCasts /\ is # {}
    /\ chHist' = [chHist EXCEPT !.casts = @ + 1]
    /\ chCasts' = chCasts \cup {[id |-> chHist.casts, todo |-> is, failed |-> {}]}
    /\ UNCHANGED <<chSocket, chUser, chMembers, chDead>>

ChannelBroadcast(c) == CastTo(chMembers[c])
BroadcastAll == CastTo({i \in Ids : chSocket[i] # 0})
SendToOne(i) == CastTo({i})

\* _safe_send to the socket that has the id by now.
SafeSend(b, i) ==
    /\ i \in b.todo
    /\ LET bad == chSocket[i] = 0 \/ <<i, chSocket[i]>> \in chDead IN
       chCasts' = (chCasts \ {b}) \cup
                    {[b EXCEPT !.todo = @ \ {i}, !.failed = IF bad THEN @ \cup {i} ELSE @]}
    /\ UNCHANGED <<chSocket, chUser, chMembers, chDead, chHist>>

MutCleanupFailed(b) ==         \* forgets the socket and leaves the memberships
    /\ b.todo = {}
    /\ chCasts' = chCasts \ {b}
    /\ chSocket' = [i \in Ids |-> IF i \in b.failed THEN 0 ELSE chSocket[i]]
    /\ UNCHANGED <<chUser, chMembers, chDead, chHist>>

MutNoCleanup(b) ==             \* failed sockets stay
    /\ b.todo = {}
    /\ chCasts' = chCasts \ {b}
    /\ UNCHANGED <<chSocket, chUser, chMembers, chDead, chHist>>

\* gather is over: the ids that failed are detached; their user ids stay.
CleanupFailed(b) ==
    /\ b.todo = {}
    /\ chCasts' = chCasts \ {b}
    /\ chSocket' = [i \in Ids |-> IF i \in b.failed THEN 0 ELSE chSocket[i]]
    /\ chMembers' = Without(b.failed)
    /\ UNCHANGED <<chUser, chDead, chHist>>

ChannelSocketDies(i) ==
    /\ chSocket[i] # 0 /\ <<i, chSocket[i]>> \notin chDead
    /\ chDead' = chDead \cup {<<i, chSocket[i]>>}
    /\ UNCHANGED <<chSocket, chUser, chMembers, chCasts, chHist>>

----------------------------------------
ChannelNext ==
    \/ \E i \in Ids :
          \/ \E a \in Accounts : ChannelConnect(i, a)
          \/ ChannelDisconnect(i) \/ ChannelSocketDies(i) \/ SendToOne(i)
          \/ \E c \in Channels : ChannelSubscribe(i, c) \/ ChannelUnsubscribe(i, c)
    \/ \E c \in Channels : ChannelBroadcast(c)
    \/ BroadcastAll
    \/ \E b \in chCasts : CleanupFailed(b) \/ \E i \in Ids : SafeSend(b, i)

CastStep == \E b \in chCasts : CleanupFailed(b) \/ \E i \in Ids : SafeSend(b, i)

----------------------------------------
(* Properties *)

\* Members of a channel are connections that exist, and a user's own channel
\* holds that user's connections only: also when a cleanup by id, a reconnect as
\* another user and subscriptions interleave.
MembersAreConnected ==
    \A c \in Channels : \A i \in chMembers[c] :
        /\ chSocket[i] # 0
        /\ c \in Accounts => chUser[i] = c

\* A dead socket that a broadcast is about to serve does not stay registered.
DeadSocketsLeave ==
    \A i \in Ids, n \in 1..MaxSockets :
        (chSocket[i] = n /\ <<i, n>> \in chDead /\ \E b \in chCasts : i \in b.todo)
            ~> (chSocket[i] # n)
=============================================================================
