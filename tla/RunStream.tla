------------------------------ MODULE RunStream ------------------------------
(* apps/web: how a browser sees a run.  One run, one web host: the stored
   events, the LISTEN connection that says there are more, the feed that reads
   them past its cursor, the hub that sends them to the sockets of the run, the
   handler that answers a subscription with a snapshot, the re-check of roles,
   and the page that folds what it receives and asks REST for what it lacks.

   An event is its seq: 1 is run_started, MaxSeq is run_finished, those in Logs
   are log lines.  A run may also be settled without an event. *)
EXTENDS Naturals, Sequences, FiniteSets, FiniteSetsExt

CONSTANTS
  Browser,    \* pages that watch the run, each with one socket at a time
  MaxSeq,     \* the last event of the run
  Limit,      \* events of a page: of the feed, the snapshot and REST
  Logs,       \* the seqs that are log lines
  MaxFaults,  \* lost connections, failed reads and changes of role
  Kinds       \* which of them happen

ASSUME StreamAssumption ==
  /\ MaxSeq \in Nat \ {0, 1} /\ Limit \in Nat \ {0} /\ MaxFaults \in Nat
  /\ Logs \subseteq 2 .. MaxSeq - 1
  /\ Kinds \subseteq {"link", "read", "rest", "drop", "role", "silent", "push"}

Seqs == 1 .. MaxSeq
Roles == {"full", "redacted", "none"}
Cursors == 1 .. 2   \* one followed, one deleted while its read was in flight

VARIABLES
  stored, ended,   \* runs.last_seq; how the run was settled: no, event, silent
  role,            \* of the user behind the pages: what of the run they may read
  link, bus,       \* the LISTEN connection, and the notifications on their way
  cur, cursor,     \* the feed: the run's cursor (0: none), and the cursor objects
  push,            \* settled statuses that the host is reading
  sock,            \* the host's side of each socket
  wire,            \* frames on their way to each page
  page,            \* the state of each page
  check,           \* the re-check of roles in flight: whose sockets it asked about (of) and the
                   \* rooms of those that closed since (left); the room that a closed
                   \* socket was put into again (ghost)
  faults

ledger == <<stored, ended>>
feed   == <<cur, cursor>>
streamVars   == <<ledger, role, link, bus, feed, push, sock, wire, page, check, faults>>

Fault(kind) == kind \in Kinds /\ faults < MaxFaults /\ faults' = faults + 1

Visible(r) == IF r = "full" THEN Seqs ELSE Seqs \ Logs
\* The rows a query of at most Limit returns.
FirstOf(S) == {q \in S : Cardinality({p \in S : p < q}) < Limit}
After(n) == {q \in 1 .. stored : q > n}

\* Mutant: a peer enters its room only after its snapshot was sent.
JoinedLate == {b \in Browser : sock[b].st = "live"}

\* The sockets that are in a room of the hub: from subscribe() on.
Joined == {b \in Browser : sock[b].st \notin {"none", "asked"}}
Watched == Joined # {} \/ check.ghost # "none"

-----------------------------------------------------------------------------
(* The ledger and the bus. *)

Notified(n) == bus' = IF link THEN Append(bus, n) ELSE bus

\* A batch is stored, and its NOTIFY commits with it.
Store ==
  /\ ended = "no" /\ stored < MaxSeq
  /\ stored' = stored + 1
  /\ ended' = IF stored + 1 = MaxSeq THEN "event" ELSE "no"
  /\ Notified(stored + 1)
  /\ UNCHANGED <<role, link, feed, push, sock, wire, page, check, faults>>

\* The sweeper, a fenced or crashed runner: a status without an event.
SettleSilently ==
  /\ ended = "no" /\ stored > 0 /\ Fault("silent")
  /\ ended' = "silent" /\ Notified(0)
  /\ UNCHANGED <<stored, role, link, feed, push, sock, wire, page, check>>

ChangeRole ==
  /\ Fault("role")
  /\ role' \in Roles \ {role}
  /\ UNCHANGED <<ledger, link, bus, feed, push, sock, wire, page, check>>

\* The LISTEN connection drops: what is on its way is gone.
LoseLink ==
  /\ link /\ Fault("link")
  /\ link' = FALSE /\ bus' = <<>>
  /\ UNCHANGED <<ledger, role, feed, push, sock, wire, page, check>>

-----------------------------------------------------------------------------
(* The feed. *)

Pulled(c) == IF c.st = "idle" THEN [c EXCEPT !.st = "asked"] ELSE [c EXCEPT !.again = TRUE]
\* drain() is over: once more if a notification came meanwhile.
Ended(c) == IF c.again THEN [c EXCEPT !.st = "asked", !.again = FALSE]
            ELSE [c EXCEPT !.st = "idle"]

Forget == cur' = 0 /\ UNCHANGED cursor
Pull == cursor' = [cursor EXCEPT ![cur] = Pulled(@)] /\ UNCHANGED cur

\* RunEventFeed.notify and, for 0, SettledStatusFeed.announce.
DeliverNotify ==
  /\ bus # <<>> /\ bus' = Tail(bus)
  /\ LET n == Head(bus) IN
     \/ n = 0 /\ push' = (push \/ Watched) /\ UNCHANGED feed
     \/ n > 0 /\ cur = 0 /\ UNCHANGED <<push, feed>>
     \/ n > 0 /\ cur # 0 /\ ~Watched /\ Forget /\ UNCHANGED push
     \/ /\ n > 0 /\ cur # 0 /\ Watched /\ UNCHANGED push
        /\ IF n <= cursor[cur].seq /\ cursor[cur].st = "idle" THEN UNCHANGED feed ELSE Pull
  /\ UNCHANGED <<ledger, role, link, sock, wire, page, check, faults>>

\* onConnected: both feeds re-read what they may have missed.
Reconnect ==
  /\ ~link /\ link' = TRUE
  /\ push' = (push \/ Watched)
  /\ CASE cur = 0 -> UNCHANGED feed
       [] cur # 0 /\ ~Watched -> Forget
       [] cur # 0 /\ Watched  -> Pull
  /\ UNCHANGED <<ledger, role, bus, sock, wire, page, check, faults>>

\* drain(): a page is read, published, and the cursor moved behind it.
FeedRead(i) ==
  /\ cursor[i].st = "asked"
  /\ cursor' = [cursor EXCEPT ![i].st = "got", ![i].page = FirstOf(After(cursor[i].seq))]
  /\ UNCHANGED <<ledger, role, link, bus, cur, push, sock, wire, page, check, faults>>

\* History, for NoServerGap: a socket has, by its snapshot or by what was
\* published to it, everything up to `top`, and what is in `sent`.
Sent(k, S) ==
  IF k.st \notin {"send", "live"} THEN [k EXCEPT !.sent = @ \cup S]
  ELSE LET all == (1 .. k.top) \cup k.sent \cup S
           top == Max({n \in 0 .. MaxSeq : 1 .. n \subseteq all})
       IN  [k EXCEPT !.top = top, !.sent = {q \in all : q > top}]

\* The hub: every room of the run, logs to the full one only.
SeenBy(b, S) == S \cap Visible(sock[b].cohort)
Publish(S) ==
  /\ wire' = [b \in Browser |->
       IF b \in Joined /\ SeenBy(b, S) # {}
       THEN Append(wire[b], [k |-> "events", S |-> SeenBy(b, S)]) ELSE wire[b]]
  /\ sock' = [b \in Browser |-> IF b \in Joined THEN Sent(sock[b], S) ELSE sock[b]]

FeedPublish(i) ==
  LET c == cursor[i] IN
  /\ c.st = "got"
  /\ Publish(c.page)
  /\ cursor' = [cursor EXCEPT ![i] =
       LET moved == [c EXCEPT !.seq = Max(c.page \cup {@}), !.page = {}]
       IN  IF Cardinality(c.page) = Limit THEN [moved EXCEPT !.st = "asked"] ELSE Ended(moved)]
  /\ UNCHANGED <<ledger, role, link, bus, cur, push, page, check, faults>>

\* The read fails: a re-read is scheduled, at most one.
FeedFails(i) ==
  /\ cursor[i].st = "asked" /\ Fault("read")
  /\ cursor' = [cursor EXCEPT ![i] = Ended([@ EXCEPT !.retry = TRUE])]
  /\ UNCHANGED <<ledger, role, link, bus, cur, push, sock, wire, page, check>>

FeedRetries(i) ==
  /\ cursor[i].retry
  /\ LET c == [cursor[i] EXCEPT !.retry = FALSE] IN
     \/ /\ cur = i /\ ~Watched
        /\ cur' = 0 /\ cursor' = [cursor EXCEPT ![i] = c]
     \/ /\ cur # i \/ Watched
        /\ cursor' = [cursor EXCEPT ![i] = IF cur = i THEN Pulled(c) ELSE c]
        /\ UNCHANGED cur
  /\ UNCHANGED <<ledger, role, link, bus, push, sock, wire, page, check, faults>>

\* SettledStatusFeed.push: the row is read and sent to every room; a read that
\* fails is reported and forgotten.
PushStatus ==
  /\ push /\ push' = FALSE
  /\ \/ /\ wire' = [b \in Browser |-> IF b \in Joined /\ ended # "no"
                                      THEN Append(wire[b], [k |-> "status"]) ELSE wire[b]]
        /\ UNCHANGED faults
     \/ Fault("push") /\ UNCHANGED wire
  /\ UNCHANGED <<ledger, role, link, bus, feed, sock, page, check>>

-----------------------------------------------------------------------------
(* A subscription: the socket's handler. *)

NoSocket == [st |-> "none", cohort |-> "none", grant |-> "none",
             seq |-> 0, over |-> FALSE, S |-> {}, top |-> 0, sent |-> {}]

\* The ticket is redeemed and the peer in its room before anything is read.
Join(b) ==
  /\ sock[b].st = "asked"
  /\ sock' = [sock EXCEPT ![b].st = IF cur = 0 THEN "track" ELSE "row"]
  /\ UNCHANGED <<ledger, role, link, bus, feed, push, wire, page, check, faults>>

TrackRead(b) ==
  /\ sock[b].st = "track"
  /\ sock' = [sock EXCEPT ![b].st = "set", ![b].seq = stored]
  /\ UNCHANGED <<ledger, role, link, bus, feed, push, wire, page, check, faults>>

\* track(): a cursor somebody else has set meanwhile is kept.
Idle(c) == c.st = "idle" /\ ~c.retry
TrackSet(b) ==
  /\ sock[b].st = "set"
  /\ sock' = [sock EXCEPT ![b].st = "row", ![b].seq = 0]
  /\ \/ cur # 0 /\ UNCHANGED feed
     \/ /\ cur = 0
        /\ \E i \in Cursors :
             /\ Idle(cursor[i]) /\ cur' = i
             /\ cursor' = [cursor EXCEPT ![i].seq = sock[b].seq]
  /\ UNCHANGED <<ledger, role, link, bus, push, wire, page, check, faults>>

\* loadRunSnapshot: the run's row, then its events, the oldest Limit of them.
SnapshotRow(b) ==
  /\ sock[b].st = "row"
  /\ sock' = [sock EXCEPT ![b].st = "events", ![b].over = ended # "no"]
  /\ UNCHANGED <<ledger, role, link, bus, feed, push, wire, page, check, faults>>

SnapshotEvents(b) ==
  /\ sock[b].st = "events"
  /\ sock' = [sock EXCEPT ![b] =
       Sent([@ EXCEPT !.st = "send", !.top = stored,
                      !.S = FirstOf(After(0) \cap Visible(sock[b].grant))], {})]
  /\ UNCHANGED <<ledger, role, link, bus, feed, push, wire, page, check, faults>>

SendSnapshot(b) ==
  /\ sock[b].st = "send"
  /\ wire' = [wire EXCEPT ![b] = Append(@, [k |-> "snapshot", S |-> sock[b].S, over |-> sock[b].over])]
  /\ sock' = [sock EXCEPT ![b].st = "live", ![b].S = {}, ![b].over = FALSE, ![b].grant = "none"]
  /\ UNCHANGED <<ledger, role, link, bus, feed, push, page, check, faults>>

\* A socket dies, or its snapshot or its ticket cannot be read.
Drop(b) ==
  /\ sock[b].st # "none" /\ Fault("drop")
  /\ sock' = [sock EXCEPT ![b] = NoSocket]
  /\ check' = [check EXCEPT !.of = {m \in @ : m[1] # b},
                            !.left = @ \cup {m[2] : m \in {n \in check.of : n[1] = b}}]
  /\ wire' = [wire EXCEPT ![b] = <<>>]
  /\ page' = [page EXCEPT ![b].st = IF page[b].run = "over" THEN "closed" ELSE "off"]
  /\ UNCHANGED <<ledger, role, link, bus, feed, push>>

-----------------------------------------------------------------------------
(* The re-check of roles, every few seconds. *)

Unchecked == [st |-> "idle", role |-> "none", of |-> {}, left |-> {}, ghost |-> "none"]

CheckRoles ==
  /\ check.st = "idle"
  /\ (\E b \in Joined : sock[b].cohort # role) \/ check.ghost \notin {"none", role}
  /\ check' = [check EXCEPT !.st = "read", !.role = role,
                            !.of = {<<b, sock[b].cohort>> : b \in Joined}]
  /\ UNCHANGED <<ledger, role, link, bus, feed, push, sock, wire, page, faults>>

\* A socket that closed while the roles were read is subscribed again if its room is not
\* the one of its role, and stays there until a send to it throws.
Haunted ==
  IF check.role = "none" THEN {"none"}
  ELSE IF check.ghost # "none" \/ check.left \ {check.role} # {} THEN {"none", check.role}
  ELSE {"none"}
Checked == \E g \in Haunted : check' = [Unchecked EXCEPT !.ghost = g]

\* Mutant: strangers are closed, the others stay where they are.
ApplyEvictions ==
  /\ check.st = "read" /\ Checked
  /\ sock' = [b \in Browser |-> IF b \in Joined /\ check.role = "none" THEN NoSocket ELSE sock[b]]
  /\ wire' = [b \in Browser |-> IF b \in Joined /\ check.role = "none"
                THEN Append(wire[b], [k |-> "revoked"]) ELSE wire[b]]
  /\ UNCHANGED <<ledger, role, link, bus, feed, push, page, faults>>

\* Members of another room are moved, strangers closed; who joined meanwhile waits for the
\* next check.
ApplyRoles ==
  LET stays(b) == b \in Joined /\ <<b, sock[b].cohort>> \in check.of
      moved    == {b \in Browser : stays(b) /\ sock[b].cohort # check.role}
  IN
  /\ check.st = "read" /\ Checked
  /\ IF check.role = "none"
     THEN /\ sock' = [b \in Browser |-> IF b \in moved THEN NoSocket ELSE sock[b]]
          /\ wire' = [b \in Browser |-> IF b \in moved
                        THEN Append(wire[b], [k |-> "revoked"]) ELSE wire[b]]
     ELSE /\ sock' = [b \in Browser |-> IF b \in moved
                        THEN [sock[b] EXCEPT !.cohort = check.role] ELSE sock[b]]
          /\ UNCHANGED wire
  /\ UNCHANGED <<ledger, role, link, bus, feed, push, page, faults>>

-----------------------------------------------------------------------------
(* The page. *)

\* applyEvents: what is at or below lastSeq is dropped.
LastSeq(p) == Max(p.applied \cup {0})
Fold(p, S) ==
  LET new == {q \in S : q > LastSeq(p)} IN
  [p EXCEPT !.applied = @ \cup new,
            !.run = IF @ = "none" THEN @
                    ELSE IF MaxSeq \in new THEN "over"
                    ELSE IF 1 \in new THEN "running" ELSE @]

\* applySnapshot: the row and the projections, and then the events on top.
Opened(p, f) ==
  Fold([p EXCEPT !.run = IF f.over THEN "over" ELSE "running", !.applied = {}], f.S)

NoRest == [st |-> "no", after |-> 0, S |-> {}]
\* Mutant: the page takes what a snapshot brings for everything there is.
AskNothing(p) == p

Ask(p) == [p EXCEPT !.rest = [st |-> "asked", after |-> LastSeq(p), S |-> {}]]

\* connect(): a ticket for the role of now, a socket, a subscribe frame.
Connect(b) ==
  /\ page[b].st = "off"
  /\ \/ role = "none" /\ page' = [page EXCEPT ![b].st = "revoked"] /\ UNCHANGED sock
     \/ /\ role # "none"
        /\ page' = [page EXCEPT ![b].st = "open"]
        /\ sock' = [sock EXCEPT ![b] = [NoSocket EXCEPT !.st = "asked", !.cohort = role, !.grant = role]]
  /\ UNCHANGED <<ledger, role, link, bus, feed, push, wire, check, faults>>

\* applyRunRow moves a status forward, and only a run it knows.
Receive(b) ==
  /\ wire[b] # <<>>
  /\ LET f == Head(wire[b]) p == page[b] IN
     page' = [page EXCEPT ![b] =
       CASE f.k = "snapshot" -> Ask(Opened(p, f))
         [] f.k = "events"   -> Fold(p, f.S)
         [] f.k = "status"   -> [p EXCEPT !.run = IF @ = "none" THEN @ ELSE "over"]
         [] f.k = "revoked"  -> [p EXCEPT !.st = "revoked"]]
  /\ wire' = [wire EXCEPT ![b] = Tail(@)]
  /\ UNCHANGED <<ledger, role, link, bus, feed, push, sock, check, faults>>

\* catchUp(): pages of REST until one is not full.
RestRead(b) ==
  /\ page[b].rest.st = "asked" /\ role # "none"
  /\ page' = [page EXCEPT ![b].rest.st = "got",
                ![b].rest.S = FirstOf(After(page[b].rest.after) \cap Visible(role))]
  /\ UNCHANGED <<ledger, role, link, bus, feed, push, sock, wire, check, faults>>

RestReceive(b) ==
  /\ page[b].rest.st = "got"
  /\ LET S == page[b].rest.S
         p == Fold(page[b], S)
     IN  page' = [page EXCEPT ![b] = IF Cardinality(S) < Limit THEN [p EXCEPT !.rest = NoRest]
                                     ELSE Ask(p)]
  /\ UNCHANGED <<ledger, role, link, bus, feed, push, sock, wire, check, faults>>

\* Nobody catches the rejection: the page stays where it is, until its next snapshot.
RestFails(b) ==
  /\ page[b].rest.st = "asked"
  /\ Fault("rest") \/ (role = "none" /\ UNCHANGED faults)
  /\ page' = [page EXCEPT ![b].rest = [NoRest EXCEPT !.st = "failed"]]
  /\ UNCHANGED <<ledger, role, link, bus, feed, push, sock, wire, check>>

-----------------------------------------------------------------------------
StreamInit ==
  /\ stored = 0 /\ ended = "no" /\ role = "full"
  /\ link = TRUE /\ bus = <<>> /\ push = FALSE
  /\ cur = 0
  /\ cursor = [i \in Cursors |-> [seq |-> 0, st |-> "idle", page |-> {}, again |-> FALSE, retry |-> FALSE]]
  /\ sock = [b \in Browser |-> NoSocket] /\ wire = [b \in Browser |-> <<>>]
  /\ page = [b \in Browser |-> [st |-> "off", run |-> "none", applied |-> {}, rest |-> NoRest]]
  /\ check = Unchecked /\ faults = 0

Feed == \E i \in Cursors : FeedRead(i) \/ FeedPublish(i) \/ FeedRetries(i)
Handler(b) == Join(b) \/ TrackRead(b) \/ TrackSet(b) \/ SnapshotRow(b) \/ SnapshotEvents(b) \/ SendSnapshot(b)
Page(b) == Connect(b) \/ Receive(b) \/ RestRead(b) \/ RestReceive(b)
Work ==
  \/ Store \/ DeliverNotify \/ Reconnect \/ PushStatus \/ CheckRoles \/ ApplyRoles
  \/ Feed \/ \E b \in Browser : Handler(b) \/ Page(b)

StreamNext ==
  \/ Work
  \/ SettleSilently \/ ChangeRole \/ LoseLink \/ \E i \in Cursors : FeedFails(i)
  \/ \E b \in Browser : Drop(b) \/ RestFails(b)

\* The run goes on, promises settle, timers fire, PostgreSQL delivers while the
\* connection is up: as long as one of them has something to do, something is
\* done.  (Each has finitely much to do, so that nobody is starved.)
StreamFairness == WF_streamVars(Work)
StreamSpec == StreamInit /\ [][StreamNext]_streamVars

-----------------------------------------------------------------------------
(* Properties. *)

\* The socket promises an overlap, never a gap: whatever was stored after a
\* socket's snapshot was read, and is behind the feed's cursor, was published to
\* that socket; and as long as a socket waits for events there is a cursor.
NoServerGap ==
  \A b \in Browser : sock[b].st \in {"send", "live"} =>
    /\ cur # 0
    /\ sock[b].top + 1 .. cursor[cur].seq \subseteq sock[b].sent

\* When the faults are over, a page with a socket has reached the last event its
\* reader may see, and shows the run as over if it ended with run_finished, whatever
\* was lost, failed, dropped or deleted on the way (useRunStream.ts, run-event-feed.ts);
\* but nothing tries again what a page failed to ask REST for.
EventuallyCurrent ==
  <>[](\A b \in Browser : page[b].st = "open" /\ page[b].rest.st # "failed" =>
         /\ LastSeq(page[b]) >= Max({0} \cup ((1 .. stored) \cap Visible(role)))
         /\ ended = "event" => page[b].run = "over")

\* A change of role reaches every socket, those that join, close or come back while the
\* roles are read included: in the end nobody is in a room that is not the one of their
\* role, not even a socket that is closed (run-hub.ts, revalidate).
DemotionTakesEffect ==
  <>[]((\A b \in Joined : sock[b].cohort = role) /\ check.ghost \in {"none", role})
=============================================================================
