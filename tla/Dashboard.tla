-------------------------------- MODULE Dashboard --------------------------------
(* web/app.js, one page of the private dashboard, against a session that commits *)
(* picks and falls silent. The page fetches whole snapshots, on a timer, when    *)
(* its socket opens and for messages of the socket; the answers come in any      *)
(* order. Of a snapshot it keeps the revision, the last ingest, and whether the  *)
(* session calls itself stale; the session is complete with its last revision.   *)
EXTENDS Naturals, Sequences, FiniteSets

CONSTANTS MaxRevision, \* the revision of the complete board
          StaleAfter,  \* health.staleAfterSeconds
          DeadAfter,   \* health.deadAfterSeconds
          Offline,     \* TRANSPORT_STALE_MS
          MaxTime,     \* bound: the clock stops
          MaxFetches,  \* bound: fetches in flight
          MaxSockets,  \* bound: sockets the page opens
          MaxFailures, \* bound: fetches that fail
          Nothing      \* no snapshot, no fetch

ASSUME DashboardAssumption ==
  /\ MaxRevision \in Nat \ {0} /\ MaxTime \in Nat
  /\ StaleAfter \in Nat \ {0} /\ DeadAfter \in Nat /\ StaleAfter <= DeadAfter
  /\ Offline \in Nat
  /\ MaxFetches \in Nat \ {0} /\ MaxSockets \in Nat \ {0} /\ MaxFailures \in Nat

VARIABLES now,       \* the clock of session and page
          revision,  \* the session's revision
          ingested,  \* when the session last heard from its source
          fetches,   \* snapshot requests: asked, or the answer on its way
          sockets,   \* readyState of every socket the page opened
          inbox,     \* messages on the way to the open socket
          timer,     \* app.reconnectTimer is set
          snapshot,  \* app.snapshot
          fetchedAt, \* app.lastSuccessfulFetch
          cards,     \* recommendations are on the page
          pill,      \* app.connectionState
          failures

sessionVars == <<now, revision, ingested>>
socketVars == <<sockets, inbox, timer>>
pageVars == <<snapshot, fetchedAt, cards, pill>>
vars == <<sessionVars, fetches, socketVars, pageVars, failures>>

Asked == "asked"
Complete(rev) == rev = MaxRevision

(* What the session answers now; it recommends only while it is not stale.       *)
Elapsed == now - ingested
SessionStale == ~Complete(revision) /\ Elapsed >= StaleAfter
Snapshot ==
  [revision |-> revision, lastIngestAt |-> ingested, stale |-> SessionStale,
   dead |-> SessionStale /\ Elapsed >= DeadAfter, recommends |-> ~SessionStale]

Init ==
  /\ now = 0 /\ revision = 0 /\ ingested = 0
  /\ fetches = [f \in 1..MaxFetches |-> IF f = 1 THEN [state |-> Asked] ELSE Nothing]
  /\ sockets = <<"connecting">> /\ inbox = <<>> /\ timer = FALSE
  /\ snapshot = Nothing /\ fetchedAt = Nothing /\ cards = FALSE /\ pill = "loading"
  /\ failures = 0

SocketOpen == sockets[Len(sockets)] = "open"

-------------------------------------------------------------------------------
(* The session, and time *)

Tick ==
  /\ now < MaxTime
  /\ now' = now + 1
  /\ UNCHANGED <<revision, ingested, fetches, socketVars, pageVars, failures>>

Commit ==
  /\ revision < MaxRevision
  /\ revision' = revision + 1
  /\ ingested' = now
  /\ inbox' = IF SocketOpen THEN Append(inbox, [type |-> "updated", revision |-> revision + 1])
              ELSE inbox
  /\ UNCHANGED <<now, fetches, sockets, timer, pageVars, failures>>

Heartbeat ==
  /\ ingested' = now
  /\ UNCHANGED <<now, revision, fetches, socketVars, pageVars, failures>>

-------------------------------------------------------------------------------
(* fetchSnapshot *)

FetchBegins(f) == fetches[f] = Nothing /\ fetches' = [fetches EXCEPT ![f] = [state |-> Asked]]

(* A bug that could be: the timer polls only as a fallback for a missing socket. *)
PollsOffline == ~SocketOpen

Polls == TRUE

Poll ==
  /\ Polls
  /\ \E f \in 1..MaxFetches : FetchBegins(f)
  /\ UNCHANGED <<sessionVars, socketVars, pageVars, failures>>

Served(f) ==
  /\ fetches[f] # Nothing /\ fetches[f].state = Asked
  /\ fetches' = [fetches EXCEPT ![f] = [state |-> "served", answer |-> Snapshot]]
  /\ UNCHANGED <<sessionVars, socketVars, pageVars, failures>>

PillAfterRender(s) ==
  CASE Complete(s.revision) -> IF SocketOpen THEN "connected" ELSE "reconnecting"
    [] ~Complete(s.revision) /\ s.dead -> "error"
    [] ~Complete(s.revision) /\ s.stale /\ ~s.dead -> "stale"
    [] OTHER -> IF SocketOpen THEN "connected" ELSE "reconnecting"

Render(f) ==
  /\ fetches[f] # Nothing /\ fetches[f].state = "served"
  /\ snapshot' = fetches[f].answer
  /\ cards' = (fetches[f].answer.recommends /\ ~fetches[f].answer.stale)
  /\ pill' = PillAfterRender(fetches[f].answer)
  /\ fetchedAt' = now
  /\ fetches' = [fetches EXCEPT ![f] = Nothing]
  /\ UNCHANGED <<sessionVars, socketVars, failures>>

FetchFails(f) ==
  /\ failures < MaxFailures
  /\ fetches[f] # Nothing
  /\ fetches' = [fetches EXCEPT ![f] = Nothing]
  /\ failures' = failures + 1
  /\ pill' = IF snapshot = Nothing THEN "error" ELSE pill
  /\ UNCHANGED <<sessionVars, socketVars, snapshot, fetchedAt, cards>>

-------------------------------------------------------------------------------
(* connectSocket and scheduleReconnect *)

(* A bug that could be: an opened socket is shown as live whatever it carries.   *)
PillAfterOpenAlways == "connected"

PillAfterOpen ==
  IF snapshot # Nothing /\ snapshot.stale THEN pill ELSE "connected"

SocketOpens ==
  /\ sockets[Len(sockets)] = "connecting"
  /\ sockets' = [sockets EXCEPT ![Len(sockets)] = "open"]
  /\ inbox' = <<[type |-> "snapshot_required", revision |-> revision]>>
  /\ pill' = PillAfterOpen
  /\ \E f \in 1..MaxFetches : FetchBegins(f)
  /\ UNCHANGED <<sessionVars, timer, snapshot, fetchedAt, cards, failures>>

Message ==
  /\ SocketOpen /\ inbox # <<>>
  /\ inbox' = Tail(inbox)
  /\ LET incoming == Head(inbox).revision
         current == IF snapshot = Nothing THEN 0 ELSE snapshot.revision
     IN /\ pill' = IF incoming > current + 1 /\ current > 0 THEN "reconnecting" ELSE pill
        /\ IF Head(inbox).type = "snapshot_required" \/ incoming > current
           THEN \E f \in 1..MaxFetches : FetchBegins(f)
           ELSE UNCHANGED fetches
  /\ UNCHANGED <<sessionVars, sockets, timer, snapshot, fetchedAt, cards, failures>>

(* A bug that could be: the error handler schedules a reconnect of its own.      *)
TimerAfterErrorSet == TRUE

TimerAfterError == timer

SocketErrors ==
  /\ sockets[Len(sockets)] \in {"connecting", "open"}
  /\ Len(sockets) < MaxSockets
  /\ sockets' = [sockets EXCEPT ![Len(sockets)] = "closing"]
  /\ timer' = TimerAfterError
  /\ inbox' = <<>>
  /\ UNCHANGED <<sessionVars, fetches, pageVars, failures>>

SocketCloses(s) ==
  /\ \/ sockets[s] = "closing"
     \/ sockets[s] = "open" /\ Len(sockets) < MaxSockets
  /\ sockets' = [sockets EXCEPT ![s] = "closed"]
  /\ inbox' = IF s = Len(sockets) THEN <<>> ELSE inbox
  /\ timer' = TRUE
  /\ pill' = IF snapshot = Nothing THEN "error" ELSE "reconnecting"
  /\ UNCHANGED <<sessionVars, fetches, snapshot, fetchedAt, cards, failures>>

ConnectSocket ==
  /\ timer
  /\ timer' = FALSE
  /\ sockets' = Append(
       [s \in DOMAIN sockets |-> IF s = Len(sockets) /\ sockets[s] # "closed" THEN "closing"
                                 ELSE sockets[s]], "connecting")
  /\ inbox' = <<>>
  /\ pill' = IF snapshot = Nothing THEN "loading" ELSE "reconnecting"
  /\ UNCHANGED <<sessionVars, fetches, snapshot, fetchedAt, cards, failures>>

-------------------------------------------------------------------------------
(* The local timer: it changes the snapshot's health and the pill, never the     *)
(* recommendations already on the page.                                          *)

CheckStale ==
  /\ fetchedAt # Nothing
  /\ LET elapsed == now - snapshot.lastIngestAt
         late == ~Complete(snapshot.revision) /\ elapsed >= StaleAfter
         dead == late /\ elapsed >= DeadAfter
     IN /\ snapshot' = IF late THEN [snapshot EXCEPT !.stale = TRUE, !.dead = dead] ELSE snapshot
        /\ pill' = CASE dead -> "error"
                     [] late /\ ~dead -> "stale"
                     [] ~late /\ now - fetchedAt > Offline -> "error"
                     [] OTHER -> pill
  /\ UNCHANGED <<sessionVars, fetches, socketVars, fetchedAt, cards, failures>>

Next ==
  \/ Tick
  \/ Commit
  \/ Heartbeat
  \/ Poll
  \/ \E f \in 1..MaxFetches : Served(f) \/ Render(f) \/ FetchFails(f)
  \/ SocketOpens
  \/ Message
  \/ SocketErrors
  \/ \E s \in DOMAIN sockets : SocketCloses(s)
  \/ ConnectSocket
  \/ CheckStale

(* The poll interval fires for ever and what was asked is answered.              *)
Fairness ==
  /\ WF_vars(Poll)
  /\ \A f \in 1..MaxFetches : WF_vars(Served(f)) /\ WF_vars(Render(f))

Spec == Init /\ [][Next]_vars
FairSpec == Spec /\ Fairness

-------------------------------------------------------------------------------
(* At every moment the page has exactly one way to hear from the session: one    *)
(* socket that is connecting, open or about to report its close, or one set      *)
(* timer. It neither loses the channel nor doubles it (app.js:499).              *)
OneChannel ==
  Cardinality({s \in DOMAIN sockets : sockets[s] # "closed"}) + (IF timer THEN 1 ELSE 0) = 1

(* A page that says Live has a socket that is open, or closing after an error    *)
(* and about to say so, and knows of no staleness, whatever the order in which   *)
(* sockets, answers and the local timer wrote the pill (app.js:227, 446, 510,    *)
(* 552).                                                                         *)
LiveMeansLive ==
  pill = "connected" =>
    /\ sockets[Len(sockets)] \in {"open", "closing"}
    /\ snapshot # Nothing => ~snapshot.stale

(* Answers overtake each other and an old board may replace a new one, but the   *)
(* page of a completed draft settles on the complete board (app.js:478, 634).    *)
PageSettles ==
  <>[](revision = MaxRevision => snapshot # Nothing /\ snapshot.revision = MaxRevision)

(* Recommendations rendered before the source fell silent leave the page, though *)
(* the local timer does not remove them (app.js:442, 549).                       *)
AdviceWithdrawn ==
  <>[](SessionStale => ~cards)
================================================================================
