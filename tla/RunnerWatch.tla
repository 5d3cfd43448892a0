---------------------------- MODULE RunnerWatch ----------------------------
(***************************************************************************)
(* Who sees which runners: the hub behind /_ws/runners.  A socket brings a *)
(* ticket, joins the room of its audience and gets a snapshot; a refresh   *)
(* checks who everybody still is, moves or evicts them, and sends each     *)
(* room whose snapshot changed.  Every query takes time, and sockets come, *)
(* go and change audience meanwhile.  One org, one host; a socket is used  *)
(* once.                                                                   *)
(***************************************************************************)
EXTENDS Naturals, FiniteSets, FiniteSetsExt

CONSTANTS
  Socket, Watcher,
  OwnerOf,           \* the user behind each socket
  FirstOperators,    \* users who are platform operators at the start
  RoomIds,           \* bound: room objects, which are reused
  MaxWatchChanges,   \* bound: changes of the fleet and of users
  MaxWatchFaults     \* bound: queries that fail

ASSUME WatchAssumption ==
  /\ IsFiniteSet(Socket) /\ OwnerOf \in [Socket -> Watcher] /\ FirstOperators \subseteq Watcher
  /\ MaxWatchChanges \in Nat /\ MaxWatchFaults \in Nat

VARIABLES
  counts, ids,   \* the fleet: what members see of it, and what operators do besides
  standing,      \* of each user: member, operator, or gone from the org
  ticket,        \* stream_tickets: the audience granted, or "none"
  socket,        \* [st, room, got, gone]: the handler of each socket
  room,          \* the rooms: [audience, open, members, last]
  shown,         \* the last frame each socket was sent
  refresh,       \* the refresh under way: [st, of, members, visited, room, got]
  watchChanges, watchFaults,
  overtaken      \* history: sockets moved while their own snapshot was being read

watchVars == <<counts, ids, standing, ticket, socket, room, shown, refresh, watchChanges, watchFaults, overtaken>>

NoRoom == 0
Nothing == [counts |-> 0, ids |-> "nothing"]
Audience(u) == IF standing[u] = "operator" THEN "operator" ELSE "member"
\* loadRunnersSnapshot: a member's frame has no ids.
Snapshot(audience) == [counts |-> counts, ids |-> IF audience = "operator" THEN ids ELSE "hidden"]
AtRest == [st |-> "idle", of |-> {}, members |-> {}, visited |-> {}, room |-> NoRoom, got |-> Nothing]
EmptyRoom(audience) == [audience |-> audience, open |-> FALSE, members |-> {}, last |-> Nothing]

WatchInit ==
  /\ counts = 1 /\ ids = "a" /\ standing = [u \in Watcher |-> IF u \in FirstOperators THEN "operator" ELSE "member"]
  /\ ticket = [p \in Socket |-> "none"]
  /\ socket = [p \in Socket |-> [st |-> "new", room |-> NoRoom, got |-> Nothing, gone |-> FALSE]]
  /\ room = [r \in RoomIds |-> EmptyRoom("member")]
  /\ shown = [p \in Socket |-> Nothing] /\ refresh = AtRest
  /\ watchChanges = 0 /\ watchFaults = 0 /\ overtaken = {}

World == <<counts, ids, standing, watchChanges>>

Change ==
  /\ watchChanges < MaxWatchChanges /\ watchChanges' = watchChanges + 1
  /\ \/ counts' = 3 - counts /\ UNCHANGED <<ids, standing>>
     \/ ids' \in {"a", "b"} \ {ids} /\ UNCHANGED <<counts, standing>>
     \/ /\ \E u \in Watcher : standing' \in {[standing EXCEPT ![u] = s] : s \in {"member", "operator", "gone"} \ {standing[u]}}
        /\ UNCHANGED <<counts, ids>>
  /\ UNCHANGED <<ticket, socket, room, shown, refresh, watchFaults, overtaken>>

QueryFails == watchFaults < MaxWatchFaults /\ watchFaults' = watchFaults + 1

-----------------------------------------------------------------------------
(* Rooms, as functions of the rooms there are.                             *)

In(rooms, p) == {r \in RoomIds : rooms[r].open /\ p \in rooms[r].members}
Open(rooms, audience) == {r \in RoomIds : rooms[r].open /\ rooms[r].audience = audience}
\* An object nobody has a reference to any more.
Free(rooms) ==
  {r \in RoomIds : ~ rooms[r].open /\ refresh.room # r /\ r \notin refresh.visited
                   /\ \A p \in Socket : socket[p].st \in {"loading", "loaded"} => socket[p].room # r}

\* unsubscribe: an empty room is forgotten.
Left(rooms, p) ==
  [r \in RoomIds |-> IF r \in In(rooms, p)
                     THEN [rooms[r] EXCEPT !.members = @ \ {p}, !.open = rooms[r].members # {p}]
                     ELSE rooms[r]]

Entered(rooms, p, audience) ==
  LET there == Open(rooms, audience)
      r == IF there # {} THEN CHOOSE x \in there : TRUE ELSE CHOOSE x \in Free(rooms) : TRUE
      old == IF there # {} THEN rooms[r] ELSE EmptyRoom(audience)
  IN  [rooms EXCEPT ![r] = [old EXCEPT !.open = TRUE, !.members = @ \cup {p}]]

\* Mutant: the room it comes into owes it nothing.
MovedQuietly(rooms, p, audience) == Entered(Left(rooms, p), p, audience)

\* move: the next refresh sends the room it comes into whatever that saw last.
Moved(rooms, p, audience) ==
  LET into == Entered(Left(rooms, p), p, audience)
  IN  [r \in RoomIds |-> IF r \in Open(into, audience) THEN [into[r] EXCEPT !.last = Nothing] ELSE into[r]]

\* There was a room object for p to come into (bound).
Housed(p) == In(room', p) # {}

\* A frame for everyone in a room.
ToRoom(r, frame) == [p \in Socket |-> IF p \in room[r].members THEN frame ELSE shown[p]]

-----------------------------------------------------------------------------
(* A socket.                                                               *)

\* POST runners/ticket, and its row in stream_tickets.
Mint(p) ==
  /\ socket[p].st = "new" /\ standing[OwnerOf[p]] # "gone" /\ ticket[p] = "none"
  /\ ticket' = [ticket EXCEPT ![p] = Audience(OwnerOf[p])]
  /\ UNCHANGED <<World, socket, room, shown, refresh, watchFaults, overtaken>>

\* The ticket is spent, and the grant decides the room.
Subscribe(p) ==
  /\ socket[p].st = "new" /\ ticket[p] # "none"
  /\ ticket' = [ticket EXCEPT ![p] = "none"]
  /\ room' = Entered(room, p, ticket[p]) /\ Housed(p)
  /\ socket' = [socket EXCEPT ![p].st = "loading", ![p].room = CHOOSE r \in In(room', p) : TRUE]
  /\ UNCHANGED <<World, shown, refresh, watchFaults, overtaken>>

\* A snapshot for the audience of the grant, whatever became of it.
LoadForSocket(p) ==
  /\ socket[p].st = "loading"
  /\ socket' = [socket EXCEPT ![p].st = "loaded", ![p].got = Snapshot(room[socket[p].room].audience)]
  /\ UNCHANGED <<World, ticket, room, shown, refresh, watchFaults, overtaken>>

\* If the room saw the same, the newcomer alone gets it; else everyone in it does.
DeliverSnapshot(p) ==
  LET r == socket[p].room
  IN  /\ socket[p].st = "loaded" /\ socket' = [socket EXCEPT ![p].st = "live", ![p].room = NoRoom, ![p].got = Nothing]
      /\ IF socket[p].got = room[r].last
         THEN shown' = [shown EXCEPT ![p] = IF socket[p].gone THEN @ ELSE socket[p].got] /\ UNCHANGED room
         ELSE shown' = ToRoom(r, socket[p].got) /\ room' = [room EXCEPT ![r].last = socket[p].got]
      /\ UNCHANGED <<World, ticket, refresh, watchFaults, overtaken>>

\* The page leaves; what is being read for it is read to the end.
Closes(p) ==
  /\ socket[p].st \in {"loading", "loaded", "live"} /\ ~ socket[p].gone
  /\ socket' = [socket EXCEPT ![p].gone = TRUE] /\ room' = Left(room, p)
  /\ UNCHANGED <<World, ticket, shown, refresh, watchFaults, overtaken>>

\* The snapshot cannot be read: the handler closes the socket.
SnapshotFails(p) ==
  /\ socket[p].st = "loading" /\ QueryFails
  /\ socket' = [socket EXCEPT ![p].st = "live", ![p].room = NoRoom, ![p].gone = TRUE] /\ room' = Left(room, p)
  /\ UNCHANGED <<World, ticket, shown, refresh, overtaken>>

-----------------------------------------------------------------------------
(* refresh: calls that come during one are one more after it.              *)

Subscribed == {p \in Socket : In(room, p) # {}}
AudienceOf(p) == room[CHOOSE r \in In(room, p) : TRUE].audience

\* By the timer or a NOTIFY; those who are there now will be checked.
StartRefresh ==
  /\ refresh.st = "idle" /\ Subscribed # {}
  /\ refresh' = [AtRest EXCEPT !.st = "roles", !.of = {<<p, AudienceOf(p)>> : p \in Subscribed}]
  /\ UNCHANGED <<World, ticket, socket, room, shown, watchFaults, overtaken>>

\* resolveRoles; one that fails evicts nobody.
ReadRoles ==
  /\ refresh.st = "roles"
  /\ \/ /\ refresh' = [refresh EXCEPT !.st = "operators", !.members = {u \in Watcher : standing[u] # "gone"}]
        /\ UNCHANGED watchFaults
     \/ QueryFails /\ refresh' = [refresh EXCEPT !.st = "operators", !.members = Watcher]
  /\ UNCHANGED <<World, ticket, socket, room, shown, overtaken>>

\* What a check finds of a subscription: "gone", or its audience now; `known` unless the query failed.
Finding(m, known) ==
  IF OwnerOf[m[1]] \notin refresh.members THEN "gone" ELSE IF known THEN Audience(OwnerOf[m[1]]) ELSE m[2]

Treat(m, known, rooms) ==
  CASE Finding(m, known) = "gone" -> Left(rooms, m[1])
    [] Finding(m, known) = m[2] -> rooms
    [] OTHER -> Moved(rooms, m[1], Finding(m, known))

\* revalidate: resolveOperators, and who left is evicted, who changed is moved.
Revalidate ==
  /\ refresh.st = "operators"
  /\ \E known \in BOOLEAN :
       LET evicted == {m[1] : m \in {x \in refresh.of : Finding(x, known) = "gone"}}
           moved == {m[1] : m \in {x \in refresh.of : Finding(x, known) \notin {"gone", x[2]}}}
       IN  /\ IF known THEN UNCHANGED watchFaults ELSE QueryFails
           /\ room' = FoldSet(LAMBDA m, rooms : Treat(m, known, rooms), room, refresh.of)
           /\ \A p \in moved : Housed(p)
           /\ socket' = [p \in Socket |-> [socket[p] EXCEPT !.gone = @ \/ p \in evicted]]
           /\ overtaken' = overtaken \cup {p \in moved : socket[p].st \in {"loading", "loaded"}}
  /\ refresh' = [refresh EXCEPT !.st = "sending", !.of = {}, !.members = {}]
  /\ UNCHANGED <<World, ticket, shown>>

\* The rooms, those that are added on the way as well; one whose query fails is left for the next time.
LoadRoom(r) ==
  /\ refresh.st = "sending" /\ room[r].open /\ r \notin refresh.visited
  /\ \/ /\ refresh' = [refresh EXCEPT !.st = "loaded", !.visited = @ \cup {r}, !.room = r, !.got = Snapshot(room[r].audience)]
        /\ UNCHANGED watchFaults
     \/ QueryFails /\ refresh' = [refresh EXCEPT !.visited = @ \cup {r}]
  /\ UNCHANGED <<World, ticket, socket, room, shown, overtaken>>

SendRoom ==
  LET r == refresh.room
  IN  /\ refresh.st = "loaded"
      /\ refresh' = [refresh EXCEPT !.st = "sending", !.room = NoRoom, !.got = Nothing]
      /\ IF refresh.got = room[r].last THEN UNCHANGED <<shown, room>>
         ELSE shown' = ToRoom(r, refresh.got) /\ room' = [room EXCEPT ![r].last = refresh.got]
      /\ UNCHANGED <<World, ticket, socket, watchFaults, overtaken>>

EndRefresh ==
  /\ refresh.st = "sending" /\ \A r \in RoomIds : room[r].open => r \in refresh.visited
  /\ refresh' = AtRest
  /\ UNCHANGED <<World, ticket, socket, room, shown, watchFaults, overtaken>>

WatchNext ==
  \/ Change \/ StartRefresh \/ ReadRoles \/ Revalidate \/ SendRoom \/ EndRefresh
  \/ \E p \in Socket : \/ Mint(p) \/ Subscribe(p) \/ LoadForSocket(p) \/ DeliverSnapshot(p)
                       \/ Closes(p) \/ SnapshotFails(p)
  \/ \E r \in RoomIds : LoadRoom(r)

WatchSpec == WatchInit /\ [][WatchNext]_watchVars

-----------------------------------------------------------------------------
\* A frame that a room saw is not sent to it again (signatureOf), so whoever is in the
\* room must have it: between refreshes nobody shows anything else, whoever joined, left,
\* was moved or evicted on the way, and in particular nobody who is in the members' room
\* shows ids.  A socket that was moved while its own snapshot was being read is let off:
\* the snapshot, for its old audience, comes after the move.
RoomAgrees ==
  refresh.st = "idle" /\ (\A p \in Socket : socket[p].st \notin {"loading", "loaded"}) =>
    \A r \in RoomIds : room[r].open /\ room[r].last # Nothing =>
      \A p \in room[r].members : shown[p] = room[r].last \/ socket[p].gone \/ p \in overtaken
=============================================================================
