-------------------------- MODULE DiscoveryProofs --------------------------
(***************************************************************************)
(* Proofs about LAN discovery, for any number of hosts and rooms, any      *)
(* query period, expiry and length of the list.                            *)
(***************************************************************************)
EXTENDS Discovery, TLAPS

USE DEF scanVars, hostVars, netVars, userVars, Goes

-----------------------------------------------------------------------------
(* What the browser lists, and how old it is.                              *)

\* The age of a listed room: no more than the expiry once the worker has taken its turn
\* in a unit of time, and one more until then.
Ages ==
  /\ due \in BOOLEAN /\ DOMAIN rooms \subseteq Rooms
  /\ rooms = [r \in DOMAIN rooms |-> rooms[r]]
  /\ \A r \in DOMAIN rooms : /\ rooms[r] \in Nat
                             /\ rooms[r] <= IF due THEN Expiry + 1 ELSE Expiry

\* What the hosts have open, and the datagrams under way.
NetworkOK ==
  /\ open \in [Hosts -> 0 .. MaxRooms] /\ opened \in [Hosts -> 0 .. MaxRooms]
  /\ listener \subseteq Hosts
  /\ queries \subseteq [host : Hosts, fresh : BOOLEAN]
  /\ replies \subseteq [room : Rooms, fresh : BOOLEAN]

\* An open room is answerable, and so is the room of a reply to the query socket that is
\* open: the list is forgotten only together with that socket.
Fresh ==
  /\ query \in BOOLEAN
  /\ Open \subseteq answerable
  /\ query => \A m \in replies : m.fresh => m.room \in answerable
  /\ DOMAIN rooms \subseteq answerable

DiscoveryInv == Ages /\ NetworkOK /\ Fresh

\* Datagrams that outlive their socket match no nonce.
LEMMA StaleReplies ==
  ASSUME NEW ms \in SUBSET [room : Rooms, fresh : BOOLEAN]
  PROVE  /\ query => Stale(ms) = ms
         /\ ~query => \A m \in Stale(ms) : ~m.fresh
         /\ Stale(ms) \subseteq [room : Rooms, fresh : BOOLEAN]
  BY DEF Stale

\* The same of the queries.
LEMMA StaleQueries ==
  ASSUME NEW ms \in SUBSET [host : Hosts, fresh : BOOLEAN]
  PROVE  Stale(ms) \subseteq [host : Hosts, fresh : BOOLEAN]
  BY DEF Stale

\* A step that leaves the browser's list, the hosts and the network alone.
LEMMA InvKept ==
  ASSUME DiscoveryInv, UNCHANGED <<due, query, rooms, answerable, open, opened, listener, queries, replies>>
  PROVE  DiscoveryInv'
  BY DEF DiscoveryInv, Ages, NetworkOK, Fresh, Open

\* The list is forgotten, and the query socket closed with it.
LEMMA ForgetInv ==
  ASSUME DiscoveryInv, Forget, query' = FALSE, UNCHANGED <<due, open, opened, listener, queries, replies>>
  PROVE  DiscoveryInv'
<1>1. rooms' = Nothing /\ DOMAIN rooms' = {} /\ answerable' = Open
  BY DEF Forget, Nothing
<1>2. Ages'
  BY <1>1 DEF DiscoveryInv, Ages, Nothing
<1>3. Fresh'
  BY <1>1 DEF Fresh, Open
<1> QED BY <1>2, <1>3 DEF DiscoveryInv, NetworkOK

\* scan() lists the rooms of fresh replies only.
LEMMA ScanInv ==
  ASSUME DiscoveryInv, NEW sent \in BOOLEAN, NEW failed \in BOOLEAN, NEW broken \in BOOLEAN,
         NEW reached \in SUBSET listener, NEW got \in SUBSET replies,
         Scan(sent, failed, reached, got, broken)
  PROVE  DiscoveryInv'
<1>1. /\ UNCHANGED <<due, open, opened, listener, answerable>>
      /\ replies' = Stale(replies \ got) /\ query' \in BOOLEAN
  BY DEF Scan, Ask
<1>2. PICK seen \in Listed(DOMAIN rooms, Matching(Stale(got))) : rooms' = Kept(Refreshed(rooms, seen))
  BY DEF Scan
<1>3. /\ got \in SUBSET [room : Rooms, fresh : BOOLEAN]
      /\ replies \ got \in SUBSET [room : Rooms, fresh : BOOLEAN]
  BY DEF DiscoveryInv, NetworkOK
<1>4. \A r \in seen : \E m \in Stale(got) : m.fresh /\ m.room = r
  BY <1>2 DEF Listed, Matching
<1>5. seen \subseteq Rooms /\ seen \subseteq answerable
  <2>1. CASE query
    BY <1>3, <1>4, <2>1, StaleReplies DEF DiscoveryInv, Fresh
  <2>2. CASE ~query
    BY <1>3, <1>4, <2>2, StaleReplies
  <2> QED BY <2>1, <2>2
<1>6. /\ DOMAIN rooms' \subseteq DOMAIN rooms \cup seen
      /\ \A r \in DOMAIN rooms' : rooms'[r] <= Expiry /\ rooms'[r] = IF r \in seen THEN 0 ELSE rooms[r]
      /\ rooms' = [r \in DOMAIN rooms' |-> rooms'[r]]
  <2> DEFINE list == Refreshed(rooms, seen)
  <2>1. /\ DOMAIN list = DOMAIN rooms \cup seen
        /\ \A r \in DOMAIN list : list[r] = IF r \in seen THEN 0 ELSE rooms[r]
    BY DEF Refreshed
  <2>2. rooms' = [r \in {q \in DOMAIN list : list[q] <= Expiry} |-> list[r]]
    BY <1>2 DEF Kept, Restrict
  <2> HIDE DEF list
  <2> QED BY <2>1, <2>2
<1>7. Ages'
  <2>1. \A r \in DOMAIN rooms' : rooms'[r] \in Nat
    BY <1>6 DEF DiscoveryInv, Ages
  <2> QED BY <1>1, <1>5, <1>6, <2>1, TimeAssumption DEF DiscoveryInv, Ages
<1>8. NetworkOK'
  <2>1. queries' \subseteq [host : Hosts, fresh : BOOLEAN]
    BY StaleQueries DEF DiscoveryInv, NetworkOK, Scan
  <2> QED BY <1>1, <1>3, <2>1, StaleReplies DEF DiscoveryInv, NetworkOK
<1>9. Fresh'
  <2>1. \A m \in replies' : m.fresh => m.room \in answerable
    <3>1. CASE query
      BY <1>1, <1>3, <3>1, StaleReplies DEF DiscoveryInv, Fresh
    <3>2. CASE ~query
      BY <1>1, <1>3, <3>2, StaleReplies
    <3> QED BY <3>1, <3>2
  <2>2. DOMAIN rooms' \subseteq answerable
    BY <1>5, <1>6 DEF DiscoveryInv, Fresh
  <2> QED BY <1>1, <2>1, <2>2 DEF DiscoveryInv, Fresh, Open
<1> QED BY <1>7, <1>8, <1>9 DEF DiscoveryInv

\* publish() drops what has expired, which ends the turn of this unit.
LEMMA PublishInv ==
  ASSUME DiscoveryInv, Publish
  PROVE  DiscoveryInv'
<1>1. /\ rooms' = Kept(rooms) /\ due' = FALSE
      /\ UNCHANGED <<query, answerable, open, opened, listener, queries, replies>>
  BY DEF Publish
<1>2. /\ DOMAIN rooms' \subseteq DOMAIN rooms
      /\ \A r \in DOMAIN rooms' : rooms'[r] <= Expiry /\ rooms'[r] = rooms[r]
      /\ rooms' = [r \in DOMAIN rooms' |-> rooms'[r]]
  BY <1>1 DEF Kept, Restrict
<1>3. Ages'
  BY <1>1, <1>2 DEF DiscoveryInv, Ages
<1>4. NetworkOK' /\ Fresh'
  BY <1>1, <1>2 DEF DiscoveryInv, NetworkOK, Fresh, Open
<1> QED BY <1>3, <1>4 DEF DiscoveryInv

\* Time passes once per turn of the browser.
LEMMA TickInv ==
  ASSUME DiscoveryInv, Tick
  PROVE  DiscoveryInv'
<1>1. /\ due = FALSE /\ due' = TRUE /\ UNCHANGED <<query, answerable, open, opened, listener, queries, replies>>
      /\ rooms' = [r \in DOMAIN rooms |-> Least(rooms[r] + 1, Expiry + 2)]
  BY DEF Tick, DiscoveryInv, Ages
<1>2. ASSUME NEW r \in DOMAIN rooms
      PROVE  rooms'[r] \in Nat /\ rooms'[r] <= Expiry + 1
  <2>1. rooms[r] \in Nat /\ rooms[r] <= Expiry /\ rooms'[r] = Least(rooms[r] + 1, Expiry + 2)
    BY <1>1 DEF DiscoveryInv, Ages
  <2> QED BY <2>1, TimeAssumption DEF Least
<1>3. DOMAIN rooms' = DOMAIN rooms /\ rooms' = [r \in DOMAIN rooms' |-> rooms'[r]]
  BY <1>1
<1>4. Ages'
  BY <1>1, <1>2, <1>3 DEF DiscoveryInv, Ages
<1>5. NetworkOK' /\ Fresh'
  BY <1>1, <1>3 DEF DiscoveryInv, NetworkOK, Fresh, Open
<1> QED BY <1>4, <1>5 DEF DiscoveryInv

\* A host opens its next room, which is answerable from then on.
LEMMA OpenRoomInv ==
  ASSUME DiscoveryInv, NEW h \in Hosts, NEW ok, OpenRoom(h, ok)
  PROVE  DiscoveryInv'
<1>1. /\ UNCHANGED <<due, query, rooms, queries, replies>>
      /\ opened[h] < MaxRooms /\ opened' = [opened EXCEPT ![h] = @ + 1]
      /\ open' = [open EXCEPT ![h] = opened[h] + 1]
      /\ answerable' = answerable \cup {<<h, opened[h] + 1>>} /\ listener' \subseteq listener \cup {h}
  BY DEF OpenRoom, listen
<1>2. opened[h] + 1 \in 0 .. MaxRooms
  BY <1>1, TimeAssumption DEF DiscoveryInv, NetworkOK
<1>3. NetworkOK'
  BY <1>1, <1>2 DEF DiscoveryInv, NetworkOK
<1>4. ASSUME NEW r \in Open'
      PROVE  r \in answerable'
  <2>1. r \in Rooms /\ open'[r[1]] = r[2] /\ r = <<r[1], r[2]>> /\ r[1] \in Hosts
    BY <1>4 DEF Open, Rooms
  <2>2. CASE r[1] = h
    <3>1. r = <<h, opened[h] + 1>>
      BY <1>1, <2>1, <2>2 DEF DiscoveryInv, NetworkOK
    <3> QED BY <1>1, <3>1
  <2>3. CASE r[1] # h
    <3>1. r \in Open
      BY <1>1, <2>1, <2>3 DEF DiscoveryInv, NetworkOK, Open
    <3> QED BY <1>1, <3>1 DEF DiscoveryInv, Fresh
  <2> QED BY <2>2, <2>3
<1>5. Fresh'
  BY <1>1, <1>4 DEF DiscoveryInv, Fresh
<1> QED BY <1>1, <1>3, <1>5 DEF DiscoveryInv, Ages

\* A host closes its room or its listener, and what waited there is lost.
LEMMA DeafInv ==
  ASSUME DiscoveryInv, NEW h \in Hosts, CloseRoom(h) \/ HostRetry(h)
  PROVE  DiscoveryInv'
<1>1. /\ UNCHANGED <<due, query, rooms, answerable, opened, replies>>
      /\ open' = open \/ open' = [open EXCEPT ![h] = 0]
      /\ queries' \subseteq queries /\ listener' \subseteq listener
  BY DEF CloseRoom, HostRetry, Deaf
<1>2. NetworkOK'
  BY <1>1, TimeAssumption DEF DiscoveryInv, NetworkOK
<1>3. ASSUME NEW r \in Open'
      PROVE  r \in Open
  <2>1. r \in Rooms /\ open'[r[1]] = r[2] /\ r[1] \in Hosts /\ r[2] \in 1 .. MaxRooms
    BY <1>3 DEF Open, Rooms
  <2> QED BY <1>1, <2>1 DEF DiscoveryInv, NetworkOK, Open
<1>4. Fresh'
  BY <1>1, <1>3 DEF DiscoveryInv, Fresh
<1> QED BY <1>1, <1>2, <1>4 DEF DiscoveryInv, Ages

\* advertise() answers for the room that is open now, which is answerable.
LEMMA HostTurnInv ==
  ASSUME DiscoveryInv, NEW h \in Hosts, NEW ok, NEW lost \in BOOLEAN,
         NEW asked \in SUBSET Asking(h), HostTurn(h, ok, asked, lost)
  PROVE  DiscoveryInv'
<1>1. /\ UNCHANGED <<due, query, rooms, answerable, open, opened>> /\ queries' \subseteq queries
      /\ asked # {} => open[h] # 0
      /\ listener' \subseteq listener \cup {h}
      /\ replies' = IF lost THEN replies
                    ELSE replies \cup {[room |-> <<h, open[h]>>, fresh |-> q.fresh] : q \in asked}
  BY DEF HostTurn, Relisten, listen
<1>2. asked # {} => <<h, open[h]>> \in Rooms /\ <<h, open[h]>> \in answerable
  <2>1. SUFFICES ASSUME asked # {}
                 PROVE  <<h, open[h]>> \in Rooms /\ <<h, open[h]>> \in answerable
    OBVIOUS
  <2>2. open[h] \in 1 .. MaxRooms
    BY <1>1, <2>1, TimeAssumption DEF DiscoveryInv, NetworkOK
  <2>3. <<h, open[h]>> \in Rooms
    BY <2>2 DEF Rooms
  <2>4. <<h, open[h]>> \in Open
    BY <2>3 DEF Open
  <2> QED BY <2>3, <2>4 DEF DiscoveryInv, Fresh
<1>3. \A m \in replies' : m \in replies \/
        \E q \in asked : m = [room |-> <<h, open[h]>>, fresh |-> q.fresh]
  BY <1>1
<1>4. \A q \in asked : q.fresh \in BOOLEAN
  BY DEF DiscoveryInv, NetworkOK, Asking
<1>5. NetworkOK'
  <2>1. replies' \subseteq [room : Rooms, fresh : BOOLEAN]
    BY <1>2, <1>3, <1>4 DEF DiscoveryInv, NetworkOK
  <2> QED BY <1>1, <2>1 DEF DiscoveryInv, NetworkOK
<1>6. Fresh'
  <2>1. query => \A m \in replies' : m.fresh => m.room \in answerable
    BY <1>2, <1>3 DEF DiscoveryInv, Fresh
  <2> QED BY <1>1, <2>1 DEF DiscoveryInv, Fresh, Open
<1> QED BY <1>1, <1>5, <1>6 DEF DiscoveryInv, Ages

-----------------------------------------------------------------------------

\* Nothing is listed, open or under way at first.
LEMMA InitDiscovery ==
  ASSUME Init
  PROVE  DiscoveryInv
<1>1. DOMAIN rooms = {}
  BY DEF Init, Nothing
<1>2. Ages
  BY <1>1 DEF Init, Ages, Nothing
<1>3. NetworkOK
  BY TimeAssumption DEF Init, NetworkOK
<1>4. Open = {}
  BY DEF Init, Open, Rooms
<1> QED BY <1>1, <1>2, <1>3, <1>4 DEF Init, DiscoveryInv, Fresh

\* The invariant is kept by the browser, the hosts, the user, the network and time.
THEOREM DiscoveryInvariant == Spec => []DiscoveryInv
<1>1. ASSUME DiscoveryInv, BrowserTurn
      PROVE  DiscoveryInv'
  <2>1. CASE Top \/ ScanOff
    BY <1>1, <2>1, ForgetInv DEF Top, ScanOff
  <2>2. CASE ScanWaits \/ OpenQueryFails
    BY <1>1, <2>2, InvKept DEF ScanWaits, OpenQueryFails
  <2>3. CASE Publish
    BY <1>1, <2>3, PublishInv
  <2>4. ASSUME NEW sent \in BOOLEAN, NEW failed \in BOOLEAN, NEW broken \in BOOLEAN,
               NEW reached \in SUBSET listener, NEW got \in SUBSET replies,
               Scan(sent, failed, reached, got, broken)
        PROVE  DiscoveryInv'
    BY <1>1, <2>4, ScanInv
  <2> QED BY <1>1, <2>1, <2>2, <2>3, <2>4 DEF BrowserTurn
<1>2. ASSUME DiscoveryInv, NEW h \in Hosts,
             \/ CloseRoom(h) \/ HostRetry(h)
             \/ \E ok \in BOOLEAN : OpenRoom(h, ok)
             \/ \E ok, lost \in BOOLEAN, asked \in SUBSET Asking(h) : HostTurn(h, ok, asked, lost)
      PROVE  DiscoveryInv'
  BY <1>2, DeafInv, OpenRoomInv, HostTurnInv
<1>3. ASSUME DiscoveryInv, Browse \/ Retry \/ Network \/ Tick
      PROVE  DiscoveryInv'
  <2>1. CASE Browse \/ Retry \/ Network
    BY <1>3, <2>1, InvKept DEF Browse, Retry, Network
  <2>2. CASE Tick
    BY <1>3, <2>2, TickInv
  <2> QED BY <1>3, <2>1, <2>2
<1>4. DiscoveryInv /\ UNCHANGED vars => DiscoveryInv'
  BY InvKept DEF vars
<1>5. DiscoveryInv /\ [Next]_vars => DiscoveryInv'
  BY <1>1, <1>2, <1>3, <1>4 DEF Next
<1> QED BY <1>5, InitDiscovery, PTL DEF Spec

\* publish() removes a room after six seconds without a reply, whatever scan() did and
\* whether or not there is a query socket.
THEOREM RoomsExpireInList == Spec => []SilentRoomsExpire
<1>1. DiscoveryInv => SilentRoomsExpire
  BY TimeAssumption DEF DiscoveryInv, Ages, SilentRoomsExpire
<1> QED BY <1>1, DiscoveryInvariant, PTL

\* The nonce keeps late replies out: what is listed was open at some time since the list
\* was last forgotten, for every delay and loss of queries and replies.
THEOREM NoRoomFromBefore == Spec => []ListedSinceAsked
<1>1. DiscoveryInv => ListedSinceAsked
  BY DEF DiscoveryInv, Fresh, ListedSinceAsked
<1> QED BY <1>1, DiscoveryInvariant, PTL
=============================================================================
