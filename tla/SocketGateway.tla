---------------------------- MODULE SocketGateway ----------------------------
(***************************************************************************)
(* The socket.io gateways (/notification, /rooms, /access-logs,            *)
(* /license-plates).  The four classes have the same code and each has its *)
(* own onlineUsers, so one of them is modelled: which sockets a user's     *)
(* payloads go to, while sockets open, authenticate and close.             *)
(*                                                                         *)
(* handleConnection awaits verifyToken; messages of the socket and its     *)
(* disconnection are handled meanwhile.                                    *)
(***************************************************************************)
EXTENDS FiniteSets

CONSTANTS
    Users,    \* account ids, the sub of an access token
    Sockets,  \* client ids; socket.io never reuses one
    None      \* no token, or no client.data.userId

ASSUME UsersAssumption == None \notin Users

VARIABLES
    online,       \* onlineUsers: the socket ids of the users that have an entry
    userOf,       \* client.data.userId
    link,         \* what socket.io knows of the connection
    token,        \* the user the handshake's token names
    verifying,    \* sockets whose handleConnection awaits verifyToken
    received,     \* the users whose payloads were delivered to a socket
    closedEarly   \* history: sockets that closed before verifyToken answered

vars == <<online, userOf, link, token, verifying, received, closedEarly>>

TypeOK ==
    /\ DOMAIN online \subseteq Users
    /\ online \in [DOMAIN online -> SUBSET Sockets]
    /\ userOf \in [Sockets -> Users \cup {None}]
    /\ link \in [Sockets -> {"new", "open", "closed"}]
    /\ token \in [Sockets -> Users \cup {None}]
    /\ verifying \subseteq Sockets
    /\ received \in [Sockets -> SUBSET Users]
    /\ closedEarly \subseteq Sockets

Init ==
    /\ online = [u \in {} |-> {}]
    /\ userOf = [s \in Sockets |-> None]
    /\ link = [s \in Sockets |-> "new"]
    /\ token = [s \in Sockets |-> None]
    /\ verifying = {}
    /\ received = [s \in Sockets |-> {}]
    /\ closedEarly = {}

\* onlineUsers.get(u) || new Set()
SocketsOf(u) == IF u \in DOMAIN online THEN online[u] ELSE {}

\* existingSockets.add(client.id); onlineUsers.set(userId, existingSockets)
Register(u, s) ==
    online' = [v \in DOMAIN online \cup {u} |->
                  IF v = u THEN SocketsOf(u) \cup {s} ELSE online[v]]

\* Mutation: a user without sockets keeps an empty entry.
KeepEmptyEntry(u, s) ==
    IF u \in DOMAIN online THEN online' = [online EXCEPT ![u] = @ \ {s}]
                           ELSE UNCHANGED online

\* Mutation: the entry goes with the first socket of the user that closes.
DropEntry(u, s) ==
    online' = [v \in DOMAIN online \ {u} |-> online[v]]

\* sockets.delete(client.id); an entry that becomes empty is deleted.
Unregister(u, s) ==
    LET left == SocketsOf(u) \ {s}
    IN  online' = [v \in IF left = {} THEN DOMAIN online \ {u} ELSE DOMAIN online |->
                      IF v = u THEN left ELSE online[v]]

\* Mutation: nothing is cleaned up.
ForgetNothing(s) ==
    /\ link' = [link EXCEPT ![s] = "closed"]
    /\ closedEarly' = IF s \in verifying THEN closedEarly \cup {s} ELSE closedEarly
    /\ UNCHANGED online

\* handleDisconnect: a socket without client.data.userId is not looked for.
HandleDisconnect(s) ==
    /\ link' = [link EXCEPT ![s] = "closed"]
    /\ closedEarly' = IF s \in verifying THEN closedEarly \cup {s} ELSE closedEarly
    /\ IF userOf[s] # None THEN Unregister(userOf[s], s) ELSE UNCHANGED online

-----------------------------------------------------------------------------
\* Mutation: a handshake without a token is not refused.
ConnectAnyway(s) ==
    /\ link[s] = "new"
    /\ \E u \in Users \cup {None} : token' = [token EXCEPT ![s] = u]
    /\ link' = [link EXCEPT ![s] = "open"]
    /\ verifying' = verifying \cup {s}
    /\ UNCHANGED <<online, userOf, received, closedEarly>>

\* A client connects; a handshake without a token is refused at once.
Connect(s) ==
    /\ link[s] = "new"
    /\ \/ \E u \in Users :
              /\ token' = [token EXCEPT ![s] = u]
              /\ link' = [link EXCEPT ![s] = "open"]
              /\ verifying' = verifying \cup {s}
       \/ /\ link' = [link EXCEPT ![s] = "closed"]
          /\ UNCHANGED <<token, verifying>>
    /\ UNCHANGED <<online, userOf, received, closedEarly>>

\* verifyToken answers: the socket is registered, whatever became of it.
Verified(s) ==
    /\ s \in verifying
    /\ Register(token[s], s)
    /\ userOf' = [userOf EXCEPT ![s] = token[s]]
    /\ verifying' = verifying \ {s}
    /\ UNCHANGED <<link, token, received, closedEarly>>

\* verifyToken throws: the server disconnects a socket that still is open.
Rejected(s) ==
    /\ s \in verifying
    /\ verifying' = verifying \ {s}
    /\ IF link[s] = "open" THEN HandleDisconnect(s) ELSE UNCHANGED <<link, online, closedEarly>>
    /\ UNCHANGED <<userOf, token, received>>

\* The client leaves, or its connection is lost.
Disconnect(s) ==
    /\ link[s] = "open"
    /\ HandleDisconnect(s)
    /\ UNCHANGED <<userOf, token, verifying, received>>

\* The message 'join' of an authenticated socket; the others get an exception.
HandleJoin(s) ==
    /\ link[s] = "open" /\ userOf[s] # None
    /\ Register(userOf[s], s)
    /\ UNCHANGED <<userOf, link, token, verifying, received, closedEarly>>

\* Mutation: the payload is emitted to the namespace.
Broadcast(u) ==
    /\ received' = [s \in Sockets |->
          IF link[s] = "open" THEN received[s] \cup {u} ELSE received[s]]
    /\ UNCHANGED <<online, userOf, link, token, verifying, closedEarly>>

\* sendNewLog, sendNotification: emitted to every id of the entry; socket.io
\* drops what goes to a socket that is closed.
Send(u) ==
    /\ received' = [s \in Sockets |->
          IF s \in SocketsOf(u) /\ link[s] = "open" THEN received[s] \cup {u} ELSE received[s]]
    /\ UNCHANGED <<online, userOf, link, token, verifying, closedEarly>>

\* No socket is left to connect and none is open.
Quiet == (\A s \in Sockets : link[s] = "closed" /\ s \notin verifying) /\ UNCHANGED vars

Next ==
    \/ \E s \in Sockets :
          Connect(s) \/ Verified(s) \/ Rejected(s) \/ Disconnect(s) \/ HandleJoin(s)
    \/ \E u \in Users : Send(u)
    \/ Quiet

Spec == Init /\ [][Next]_vars

-----------------------------------------------------------------------------
\* An open socket that has authenticated is in the entry of its user, however
\* many sockets the user opens and closes: nothing sent to the user misses it.
OpenSocketsReachable ==
    \A s \in Sockets :
        link[s] = "open" /\ userOf[s] # None => s \in SocketsOf(userOf[s])

\* A closed socket stays in an entry only when it closed while its token was
\* being verified (handleDisconnect found no userId, then it was registered).
DeadSocketsOnlyByRace ==
    \A u \in Users : \A s \in SocketsOf(u) : link[s] = "open" \/ s \in closedEarly

\* isUserOnline answers by the entry: a user it calls online has an open
\* socket, or one leaked by that race.
OnlineHasSocket ==
    \A u \in DOMAIN online : \E s \in online[u] : link[s] = "open" \/ s \in closedEarly

\* A socket receives only what is sent to the user its token named.
OnlyOwnPayloads ==
    \A s \in Sockets : received[s] \subseteq {token[s]}
=============================================================================
