----------------------------- MODULE Discovery -----------------------------
(***************************************************************************)
(* LAN discovery, struct Discovery of client/fzvs_session.cpp, and the     *)
(* lines of Session::run that drive it: one process browses for rooms, the *)
(* others host one room after the other and answer queries.                *)
(*                                                                         *)
(* Time passes in units, and a moment of the code is the time since then,  *)
(* counted no further than the code can tell; the browser's worker takes a *)
(* turn of its loop in every unit. A nonce is whether it is the one of the *)
(* present query socket. What a reply says of its room, malformed          *)
(* datagrams, rooms bound to loopback, and the failures listed for a host, *)
(* are left out.                                                           *)
(***************************************************************************)
EXTENDS Integers, FiniteSets, Functions

CONSTANTS
  Hosts,         \* processes that host rooms
  Period,        \* units between queries, and between attempts to listen  (2000 ms)
  Expiry,        \* units after which a silent room is removed             (6000 ms)
  MaxListed,     \* rooms the list can hold                                (64)
  MaxRooms,      \* bound: rooms that a host opens
  MaxRetries     \* bound: presses of Retry

ASSUME TimeAssumption ==
  Period \in Nat \ {0} /\ Expiry \in Nat /\ MaxListed \in Nat /\ MaxRooms \in Nat

VARIABLES
  at,            \* where the browser's worker is in its loop
  browsing,      \* Session::browsing
  retrying,      \* Session::discoveryRetry
  retries,       \* presses of Retry so far
  query,         \* the query socket is open
  sinceQuery,    \* time since lastQuery
  failures,      \* browseFailures is not empty
  rooms,         \* rooms of the browser: room -> time since it was seen
  open,          \* room each host has open with its owner in it, 0 if none
  opened,        \* rooms each host has opened so far
  listener,      \* hosts whose listener is open
  sinceListen,   \* time since lastListen of each host
  queries,       \* [host, fresh]: queries under way
  replies,       \* [room, fresh]: replies under way
  up,            \* the network works
  due,           \* the browser has yet to take a turn in this unit
  answerable     \* rooms that were open since the browser last forgot its list

scanVars == <<query, sinceQuery, failures, rooms, answerable>>
hostVars == <<open, opened, listener, sinceListen>>
netVars == <<queries, replies, up>>
userVars == <<browsing, retrying, retries>>
vars == <<at, due, scanVars, hostVars, netVars, userVars>>

Rooms == Hosts \X (1 .. MaxRooms)
Open == {r \in Rooms : open[r[1]] = r[2]}
Nothing == [r \in {} |-> 0]

-----------------------------------------------------------------------------
(* The browser's worker.                                                   *)

\* Mutant: the nonce is not compared.
Matching_Any(got) == {m.room : m \in got}

\* Replies to the present nonce.
Matching(got) == {m.room : m \in {x \in got : x.fresh}}

\* The rooms a list can hold after replies of the rooms new: those it holds are refreshed,
\* others are added, in the order their replies arrive, while there is room.
Listed(old, new) ==
  {s \in SUBSET new :
     /\ new \cap old \subseteq s
     /\ s = new \/ Cardinality(old \cup s) = MaxListed
     /\ Cardinality(old \cup s) <= MaxListed}

Refreshed(old, seen) == [r \in DOMAIN old \cup seen |-> IF r \in seen THEN 0 ELSE old[r]]

Kept(list) == Restrict(list, {r \in DOMAIN list : list[r] <= Expiry})

Goes(from, to) == at = from /\ at' = to

\* The list is forgotten.
Forget == rooms' = Nothing /\ answerable' = Open

\* The top of the loop: retry(). A Retry that comes between the top of the loop and scan()
\* might as well have come before it.
Top ==
  /\ at = "scan" /\ retrying
  /\ retrying' = FALSE
  /\ query' = FALSE /\ sinceQuery' = Period
  /\ failures' = FALSE /\ Forget
  /\ UNCHANGED <<at, due, hostVars, netVars, browsing, retries>>

\* Nobody browses.
ScanOff ==
  /\ Goes("scan", "publish") /\ ~retrying /\ ~browsing
  /\ query' = FALSE /\ Forget
  /\ UNCHANGED <<sinceQuery, failures, due, hostVars, netVars, userVars>>

\* Mutant: scan() returns as long as the query socket is closed.
ScanWaits_Closed ==
  /\ Goes("scan", "publish") /\ ~retrying /\ browsing /\ ~query
  /\ UNCHANGED <<query, sinceQuery, failures, rooms, answerable, due, hostVars, netVars, userVars>>

\* scan() returns at once when an attempt to open the query socket has just failed.
ScanWaits ==
  /\ Goes("scan", "publish") /\ ~retrying /\ browsing /\ ~query /\ sinceQuery < Period
  /\ UNCHANGED <<query, sinceQuery, failures, rooms, answerable, due, hostVars, netVars, userVars>>

OpenQueryFails ==
  /\ Goes("scan", "publish") /\ ~retrying /\ browsing /\ ~query /\ sinceQuery >= Period /\ ~up
  /\ failures' = TRUE /\ sinceQuery' = 0
  /\ UNCHANGED <<query, rooms, answerable, due, hostVars, netVars, userVars>>

\* Datagrams under way once there is a new query socket, and with it a new nonce.
Stale(ms) == IF query THEN ms ELSE {[m EXCEPT !.fresh = FALSE] : m \in ms}

\* A query is due.
Asks == sinceQuery >= Period

\* scan() with a query socket, the one that is open or a new one. When a query is due it is
\* sent on every interface, which fails on none, on some or on all of them.
Ask(sent, failed) ==
  /\ Goes("scan", "publish") /\ ~retrying /\ browsing /\ (~query => Asks)
  /\ ~sent => failed
  /\ ~Asks \/ up => sent /\ ~failed

\* When all have failed the socket is closed. Otherwise the query reaches some of the hosts
\* that listen, and the replies that have arrived are taken; receiving may fail, which
\* closes the socket too.
Scan(sent, failed, reached, got, broken) ==
  /\ Ask(sent, failed)
  /\ reached # {} => Asks
  /\ ~sent => reached = {} /\ got = {} /\ ~broken
  /\ up => ~broken
  /\ query' = (sent /\ ~broken)
  /\ failures' = ((IF Asks THEN failed ELSE failures) \/ broken)
  /\ sinceQuery' = IF Asks THEN 0 ELSE sinceQuery
  /\ queries' = Stale(queries) \cup [host : reached, fresh : {TRUE}]
  /\ replies' = Stale(replies \ got)
  /\ \E seen \in Listed(DOMAIN rooms, Matching(Stale(got))) : rooms' = Kept(Refreshed(rooms, seen))
  /\ UNCHANGED <<answerable, due, hostVars, up, userVars>>

\* publish(): the phase it shows. It looks at browsing again. A search that has found nothing
\* is called empty after two seconds, which is left out.
publish(list) ==
  IF ~browsing THEN "Idle"
  ELSE IF list # Nothing THEN "Rooms"
  ELSE IF ~query /\ failures THEN "Unavailable" ELSE "Searching"

\* Mutant: rooms expire in scan() only.
Publish_KeepsAll ==
  /\ Goes("publish", "scan")
  /\ due' = FALSE
  /\ UNCHANGED <<scanVars, hostVars, netVars, userVars>>

\* The rest of the turn: rooms expire, whatever scan() did.
Publish ==
  /\ Goes("publish", "scan")
  /\ rooms' = Kept(rooms)
  /\ due' = FALSE
  /\ UNCHANGED <<query, sinceQuery, failures, answerable, hostVars, netVars, userVars>>

BrowserTurn ==
  \/ Top \/ ScanOff \/ ScanWaits \/ OpenQueryFails \/ Publish
  \/ \E sent, failed \in BOOLEAN :
       /\ Ask(sent, failed)
       /\ \E broken \in BOOLEAN, reached \in SUBSET listener, got \in SUBSET replies :
            Scan(sent, failed, reached, got, broken)

-----------------------------------------------------------------------------
(* The workers of the hosts.                                               *)

\* listen(): ok, or one of its steps failed.
listen(h, ok) ==
  /\ up => ok
  /\ listener' = IF ok THEN listener \cup {h} ELSE listener
  /\ sinceListen' = [sinceListen EXCEPT ![h] = 0]

\* A room is ready to be found.
OpenRoom(h, ok) ==
  /\ open[h] = 0 /\ opened[h] < MaxRooms
  /\ opened' = [opened EXCEPT ![h] = @ + 1] /\ open' = [open EXCEPT ![h] = opened[h] + 1]
  /\ listen(h, ok)
  /\ answerable' = answerable \cup {<<h, opened[h] + 1>>}
  /\ UNCHANGED <<at, due, query, sinceQuery, failures, rooms, netVars, userVars>>

\* The sockets of h are closed, and what waited in them is lost.
Deaf(h) == listener' = listener \ {h} /\ queries' = {q \in queries : q.host # h}

\* stopServer()
CloseRoom(h) ==
  /\ open[h] # 0
  /\ open' = [open EXCEPT ![h] = 0] /\ Deaf(h)
  /\ UNCHANGED <<opened, sinceListen, at, due, scanVars, replies, up, userVars>>

\* retry() on a host, which tries to listen in the turn that follows.
HostRetry(h) ==
  /\ retries < MaxRetries /\ retries' = retries + 1
  /\ sinceListen' = [sinceListen EXCEPT ![h] = Period] /\ Deaf(h)
  /\ UNCHANGED <<open, opened, at, due, scanVars, replies, up, browsing, retrying>>

\* Mutant: a host listens when its room is ready, or never.
Relisten_Never(h, ok) == ok /\ UNCHANGED <<listener, sinceListen>>

\* A listener that could not be opened is tried again.
Relisten(h, ok) ==
  IF open[h] # 0 /\ h \notin listener /\ sinceListen[h] >= Period THEN listen(h, ok)
  ELSE ok /\ UNCHANGED <<listener, sinceListen>>

\* A turn of a host: advertise() answers the queries that have arrived. A reply may be lost,
\* or its send fail.
HostTurn(h, ok, asked, lost) ==
  /\ Relisten(h, ok)
  /\ asked # {} => open[h] # 0 /\ h \in listener
  /\ lost => asked # {}
  /\ queries' = queries \ asked
  /\ replies' = IF lost THEN replies
                ELSE replies \cup {[room |-> <<h, open[h]>>, fresh |-> q.fresh] : q \in asked}
  /\ UNCHANGED <<open, opened, at, due, scanVars, up, userVars>>

-----------------------------------------------------------------------------
(* User, network and time.                                                 *)

Browse ==
  /\ browsing' = ~browsing
  /\ UNCHANGED <<retrying, retries, at, due, scanVars, hostVars, netVars>>

Retry ==
  /\ retries < MaxRetries /\ retries' = retries + 1
  /\ retrying' = TRUE
  /\ UNCHANGED <<browsing, at, due, scanVars, hostVars, netVars>>

Network ==
  /\ up' = ~up
  /\ UNCHANGED <<queries, replies, at, due, scanVars, hostVars, userVars>>

Least(x, y) == IF x < y THEN x ELSE y

Tick ==
  /\ ~due /\ due' = TRUE
  /\ sinceQuery' = Least(sinceQuery + 1, Period)
  /\ rooms' = [r \in DOMAIN rooms |-> Least(rooms[r] + 1, Expiry + 2)]
  /\ sinceListen' = [h \in Hosts |-> Least(sinceListen[h] + 1, Period)]
  /\ UNCHANGED <<at, query, failures, answerable, open, opened, listener, netVars, userVars>>

-----------------------------------------------------------------------------

Asking(h) == {q \in queries : q.host = h}

Init ==
  /\ at = "scan" /\ due = FALSE
  /\ query = FALSE /\ sinceQuery = Period /\ failures = FALSE
  /\ rooms = Nothing /\ answerable = {}
  /\ open = [h \in Hosts |-> 0] /\ opened = [h \in Hosts |-> 0]
  /\ listener = {} /\ sinceListen = [h \in Hosts |-> Period]
  /\ queries = {} /\ replies = {} /\ up \in BOOLEAN
  /\ browsing = FALSE /\ retrying = FALSE /\ retries = 0

Next ==
  \/ BrowserTurn
  \/ \E h \in Hosts : \/ CloseRoom(h) \/ HostRetry(h)
                      \/ \E ok \in BOOLEAN : OpenRoom(h, ok)
                      \/ \E ok, lost \in BOOLEAN, asked \in SUBSET Asking(h) :
                           HostTurn(h, ok, asked, lost)
  \/ Browse \/ Retry \/ Network \/ Tick

Spec == Init /\ [][Next]_vars

\* Workers go on, time passes, a datagram that is not lost arrives, and one that is sent
\* again and again is not lost for ever.
FairSpec ==
  /\ Spec
  /\ WF_vars(BrowserTurn) /\ WF_vars(Tick)
  /\ SF_vars(\E failed \in BOOLEAN :
               /\ replies # {} /\ Ask(TRUE, failed)
               /\ \E reached \in SUBSET listener : Scan(TRUE, failed, reached, replies, FALSE))
  /\ \A h \in Hosts :
       /\ WF_vars(/\ UNCHANGED <<at, due, open>>
                  /\ \E ok, lost \in BOOLEAN, asked \in SUBSET Asking(h) : HostTurn(h, ok, asked, lost))
       /\ SF_vars(/\ Asking(h) # {} /\ UNCHANGED <<at, due, open>>
                  /\ \E ok \in BOOLEAN : HostTurn(h, ok, Asking(h), FALSE))
       /\ SF_vars(\E failed \in BOOLEAN :
                    /\ h \in listener /\ Asks /\ Ask(TRUE, failed)
                    /\ \E got \in SUBSET replies : Scan(TRUE, failed, listener, got, FALSE))

-----------------------------------------------------------------------------
(* Properties.                                                             *)

\* Every variable stays within its type, and the list within its limit.
TypeOK ==
  /\ at \in {"scan", "publish"}
  /\ {query, failures, up, due, browsing, retrying} \subseteq BOOLEAN /\ retries \in 0 .. MaxRetries
  /\ sinceQuery \in 0 .. Period
  /\ DOMAIN rooms \subseteq Rooms /\ Cardinality(DOMAIN rooms) <= MaxListed
  /\ \A r \in DOMAIN rooms : rooms[r] \in 0 .. Expiry + 2
  /\ open \in [Hosts -> 0 .. MaxRooms] /\ opened \in [Hosts -> 0 .. MaxRooms]
  /\ listener \subseteq Hosts /\ sinceListen \in [Hosts -> 0 .. Period]
  /\ queries \subseteq [host : Hosts, fresh : BOOLEAN] /\ replies \subseteq [room : Rooms, fresh : BOOLEAN]
  /\ answerable \subseteq Rooms

\* A room is removed after six seconds without a reply, also while the query socket is
\* closed and scan() returns early: none is listed for a turn longer than that.
SilentRoomsExpire == \A r \in DOMAIN rooms : rooms[r] <= Expiry + 1

\* What is listed was open at some time since browsing began or Retry was pressed: a reply
\* to an earlier query, delayed beyond the end of its socket, brings no room back.
ListedSinceAsked == DOMAIN rooms \subseteq answerable

\* A room that stays open is found, and found again, once the network works, although
\* sockets of both sides have failed before and the list may have been full of rooms that
\* are gone; it must have a place for all that are open.
OpenRoomsAreFound ==
  \A r \in Rooms : <>[](browsing /\ up /\ r \in Open /\ Cardinality(Open) <= MaxListed)
                      => []<>(r \in DOMAIN rooms)

\* A network that works again is seen to: the browser does not go on publishing
\* "Unavailable".
BrowserRecovers ==
  <>[](browsing /\ up) => <>[](at = "publish" => publish(Kept(rooms)) # "Unavailable")
=============================================================================
