------------------------- MODULE SocketGatewayProofs -------------------------
(***************************************************************************)
(* The registry of a gateway is right for any number of users and sockets. *)
(***************************************************************************)
EXTENDS SocketGateway, TLAPS

\* A socket is in the entry of the user its token named, once it was verified.
Entries ==
    /\ \A u \in Users : \A s \in SocketsOf(u) : userOf[s] = u
    /\ \A s \in Sockets : userOf[s] \in {None, token[s]}
    /\ \A u \in DOMAIN online : online[u] # {}

\* While the token is being verified nothing is known of the socket.
Pending ==
    \A s \in verifying :
        /\ link[s] # "new" /\ userOf[s] = None /\ token[s] \in Users
        /\ link[s] = "closed" => s \in closedEarly

\* A socket that has not connected has left no trace.
Unconnected == \A s \in Sockets : link[s] = "new" => token[s] = None /\ userOf[s] = None

IInv ==
    /\ TypeOK
    /\ Entries
    /\ Pending
    /\ Unconnected
    /\ OpenSocketsReachable
    /\ DeadSocketsOnlyByRace
    /\ OnlyOwnPayloads

\* Registering a socket adds it to one entry and touches no other.
LEMMA RegisterAdds ==
    ASSUME TypeOK, NEW u \in Users, NEW s \in Sockets, Register(u, s)
    PROVE  /\ DOMAIN online' = DOMAIN online \cup {u}
           /\ online' \in [DOMAIN online' -> SUBSET Sockets]
           /\ SocketsOf(u)' = SocketsOf(u) \cup {s}
           /\ \A v \in Users \ {u} : SocketsOf(v)' = SocketsOf(v)
           /\ (\A v \in DOMAIN online : online[v] # {}) =>
                 \A v \in DOMAIN online' : online'[v] # {}
  BY DEF TypeOK, Register, SocketsOf

\* Taking a socket out touches no other entry and leaves no empty one.
LEMMA UnregisterRemoves ==
    ASSUME TypeOK, NEW u \in Users, NEW s \in Sockets, Unregister(u, s)
    PROVE  /\ DOMAIN online' \subseteq DOMAIN online
           /\ online' \in [DOMAIN online' -> SUBSET Sockets]
           /\ SocketsOf(u)' = SocketsOf(u) \ {s}
           /\ \A v \in Users \ {u} : SocketsOf(v)' = SocketsOf(v)
           /\ (\A v \in DOMAIN online : online[v] # {}) =>
                 \A v \in DOMAIN online' : online'[v] # {}
  BY DEF TypeOK, Unregister, SocketsOf

\* A disconnection closes the socket and takes it out of its user's entry.
LEMMA DisconnectRemoves ==
    ASSUME IInv, NEW s \in Sockets, HandleDisconnect(s)
    PROVE  /\ DOMAIN online' \subseteq DOMAIN online
           /\ online' \in [DOMAIN online' -> SUBSET Sockets]
           /\ \A u \in Users : SocketsOf(u)' = SocketsOf(u) \ {s}
           /\ \A u \in DOMAIN online' : online'[u] # {}
           /\ link' = [link EXCEPT ![s] = "closed"]
           /\ closedEarly' = IF s \in verifying THEN closedEarly \cup {s} ELSE closedEarly
  <1>1. TypeOK /\ Entries BY DEF IInv
  <1>2. CASE userOf[s] = None
    <2>1. online' = online BY <1>2 DEF HandleDisconnect
    <2>2. \A u \in Users : s \notin SocketsOf(u)
      BY <1>1, <1>2, UsersAssumption DEF Entries
    <2> QED BY <1>1, <2>1, <2>2 DEF HandleDisconnect, TypeOK, Entries, SocketsOf
  <1>3. CASE userOf[s] # None
    <2>1. userOf[s] \in Users /\ Unregister(userOf[s], s)
      BY <1>1, <1>3 DEF HandleDisconnect, TypeOK
    <2>2. \A u \in Users \ {userOf[s]} : s \notin SocketsOf(u)
      BY <1>1 DEF Entries
    <2> QED BY <1>1, <2>1, <2>2, UnregisterRemoves DEF HandleDisconnect, Entries
  <1> QED BY <1>2, <1>3

\* No entry, no socket, nothing received.
LEMMA InitRegistry == Init => IInv
  BY DEF Init, IInv, TypeOK, Entries, Pending, Unconnected, OpenSocketsReachable,
         DeadSocketsOnlyByRace, OnlyOwnPayloads, SocketsOf

\* Every callback of every socket keeps the registry right.
LEMMA RegistryNext ==
    ASSUME IInv, [Next]_vars
    PROVE  IInv'
  <1> USE DEF IInv
  <1>1. ASSUME NEW s \in Sockets, Connect(s) PROVE IInv'
    BY <1>1, UsersAssumption
       DEF Connect, TypeOK, Entries, Pending, Unconnected, OpenSocketsReachable,
           DeadSocketsOnlyByRace, OnlyOwnPayloads, SocketsOf
  <1>2. ASSUME NEW s \in Sockets, Verified(s) PROVE IInv'
    <2>1. token[s] \in Users /\ userOf[s] = None /\ link[s] # "new"
      BY <1>2 DEF Verified, Pending
    <2>2. /\ DOMAIN online' = DOMAIN online \cup {token[s]}
          /\ online' \in [DOMAIN online' -> SUBSET Sockets]
          /\ SocketsOf(token[s])' = SocketsOf(token[s]) \cup {s}
          /\ \A v \in Users \ {token[s]} : SocketsOf(v)' = SocketsOf(v)
          /\ \A v \in DOMAIN online' : online'[v] # {}
      BY <1>2, <2>1, RegisterAdds DEF Verified, Entries
    <2>3. userOf' = [userOf EXCEPT ![s] = token[s]] BY <1>2 DEF Verified
    <2>4. link[s] = "closed" => s \in closedEarly BY <1>2 DEF Verified, Pending
    <2>5. /\ link' = link /\ token' = token /\ received' = received
          /\ closedEarly' = closedEarly /\ verifying' = verifying \ {s}
      BY <1>2 DEF Verified
    <2> HIDE DEF SocketsOf
    <2>6. TypeOK' BY <2>1, <2>2, <2>3, <2>5 DEF TypeOK
    <2>7. Entries' BY <2>1, <2>2, <2>3, <2>5, UsersAssumption DEF TypeOK, Entries
    <2>8. Pending' /\ Unconnected' BY <2>1, <2>3, <2>5 DEF TypeOK, Pending, Unconnected
    <2>9. OpenSocketsReachable'
      BY <2>1, <2>2, <2>3, <2>5 DEF TypeOK, OpenSocketsReachable
    <2>10. DeadSocketsOnlyByRace'
      BY <2>1, <2>2, <2>4, <2>5 DEF TypeOK, DeadSocketsOnlyByRace
    <2>11. OnlyOwnPayloads' BY <2>5 DEF OnlyOwnPayloads
    <2> QED BY <2>6, <2>7, <2>8, <2>9, <2>10, <2>11
  <1>3. ASSUME NEW s \in Sockets, HandleDisconnect(s), s \in verifying \/ link[s] = "open",
               verifying' \subseteq verifying,
               UNCHANGED <<userOf, token, received>>
        PROVE  IInv'
    <2>1. /\ DOMAIN online' \subseteq DOMAIN online
          /\ online' \in [DOMAIN online' -> SUBSET Sockets]
          /\ \A u \in Users : SocketsOf(u)' = SocketsOf(u) \ {s}
          /\ \A u \in DOMAIN online' : online'[u] # {}
          /\ link' = [link EXCEPT ![s] = "closed"]
          /\ closedEarly' = IF s \in verifying THEN closedEarly \cup {s} ELSE closedEarly
      BY <1>3, DisconnectRemoves
    <2>2. TypeOK' BY <1>3, <2>1 DEF TypeOK
    <2>3. Entries' BY <1>3, <2>1 DEF TypeOK, Entries
    <2>4. Pending' /\ Unconnected' BY <1>3, <2>1 DEF TypeOK, Pending, Unconnected
    <2>5. OpenSocketsReachable' BY <1>3, <2>1 DEF TypeOK, OpenSocketsReachable
    <2>6. DeadSocketsOnlyByRace' BY <1>3, <2>1 DEF TypeOK, DeadSocketsOnlyByRace
    <2>7. OnlyOwnPayloads' BY <1>3 DEF OnlyOwnPayloads
    <2> QED BY <2>2, <2>3, <2>4, <2>5, <2>6, <2>7
  <1>4. ASSUME NEW s \in Sockets, Rejected(s) PROVE IInv'
    <2>1. CASE link[s] = "open" BY <1>3, <1>4, <2>1 DEF Rejected
    <2>2. CASE link[s] # "open"
      BY <1>4, <2>2
         DEF Rejected, TypeOK, Entries, Pending, Unconnected, OpenSocketsReachable,
             DeadSocketsOnlyByRace, OnlyOwnPayloads, SocketsOf
    <2> QED BY <2>1, <2>2
  <1>5. ASSUME NEW s \in Sockets, Disconnect(s) PROVE IInv'
    BY <1>3, <1>5 DEF Disconnect
  <1>6. ASSUME NEW s \in Sockets, HandleJoin(s) PROVE IInv'
    <2>1. userOf[s] \in Users /\ userOf[s] = token[s] /\ s \in SocketsOf(userOf[s])
      BY <1>6 DEF HandleJoin, TypeOK, Entries, OpenSocketsReachable
    <2>2. online' = online
      BY <1>6, <2>1 DEF HandleJoin, Register, SocketsOf, TypeOK
    <2> QED BY <1>6, <2>2
            DEF HandleJoin, TypeOK, Entries, Pending, Unconnected, OpenSocketsReachable,
                DeadSocketsOnlyByRace, OnlyOwnPayloads, SocketsOf
  <1>7. ASSUME NEW u \in Users, Send(u) PROVE IInv'
    <2>1. \A s \in Sockets : received'[s] \subseteq {token[s]}
      BY <1>7, UsersAssumption DEF Send, Entries, OnlyOwnPayloads
    <2>2. received' \in [Sockets -> SUBSET Users] BY <1>7 DEF Send, TypeOK
    <2> QED BY <1>7, <2>1, <2>2
            DEF Send, TypeOK, Entries, Pending, Unconnected, OpenSocketsReachable,
                DeadSocketsOnlyByRace, OnlyOwnPayloads, SocketsOf
  <1>8. CASE UNCHANGED vars
    BY <1>8 DEF vars, TypeOK, Entries, Pending, Unconnected, OpenSocketsReachable,
                DeadSocketsOnlyByRace, OnlyOwnPayloads, SocketsOf
  <1> QED BY <1>1, <1>2, <1>4, <1>5, <1>6, <1>7, <1>8 DEF Next, Quiet

\* The invariant is inductive.
THEOREM RegistryHolds == Spec => []IInv
  BY InitRegistry, RegistryNext, PTL DEF Spec

\* Nothing sent to a user misses an open socket that authenticated as the user.
THEOREM NothingMissed == Spec => []OpenSocketsReachable
  <1>1. IInv => OpenSocketsReachable BY DEF IInv
  <1> QED BY <1>1, RegistryHolds, PTL

\* The registry maps users to sets of sockets, and each socket to the user its token
\* named at most, whatever callbacks ran.
THEOREM RegistryTypes == Spec => []TypeOK
  <1>1. IInv => TypeOK BY DEF IInv
  <1> QED BY <1>1, RegistryHolds, PTL

\* Closed sockets are leaked by the race with verifyToken only.
THEOREM LeakOnlyByRace == Spec => []DeadSocketsOnlyByRace
  <1>1. IInv => DeadSocketsOnlyByRace BY DEF IInv
  <1> QED BY <1>1, RegistryHolds, PTL

\* A user in the registry has a socket that is connected, or that the race leaked: the
\* registry holds no empty entry and none of a connection it saw closed.
THEOREM LeakedNeverEmpty == Spec => []OnlineHasSocket
  <1>1. ASSUME IInv PROVE OnlineHasSocket
    BY <1>1 DEF IInv, TypeOK, Entries, DeadSocketsOnlyByRace, OnlineHasSocket, SocketsOf
  <1> QED BY <1>1, RegistryHolds, PTL

\* A socket gets the payloads of no other user.
THEOREM PayloadsAreOwn == Spec => []OnlyOwnPayloads
  <1>1. IInv => OnlyOwnPayloads BY DEF IInv
  <1> QED BY <1>1, RegistryHolds, PTL
=============================================================================
