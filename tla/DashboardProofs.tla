---------------------------- MODULE DashboardProofs ----------------------------
(* The page's channel and its pill. All sockets but the last are closed, and the *)
(* timer is set exactly while the last one is; an answer of a completed draft is *)
(* never stale, so that whoever writes "connected" has an open socket and no     *)
(* staleness at hand, and whoever takes either away writes the pill as well.     *)
EXTENDS Dashboard, FiniteSetTheorems, TLAPS

States == {"connecting", "open", "closing", "closed"}

Last == sockets[Len(sockets)]

ChannelInv ==
  /\ sockets \in Seq(States) /\ Len(sockets) >= 1
  /\ timer \in BOOLEAN
  /\ \A s \in 1..Len(sockets) : s # Len(sockets) => sockets[s] = "closed"
  /\ timer <=> Last = "closed"

(* The answers on their way.                                                     *)
AnswersInv ==
  /\ DOMAIN fetches = 1..MaxFetches
  /\ \A f \in 1..MaxFetches :
       fetches[f] # Nothing /\ fetches[f].state = "served" =>
         /\ Complete(fetches[f].answer.revision) => ~fetches[f].answer.stale
         /\ fetches[f].answer.stale \in BOOLEAN
         /\ fetches[f].answer.dead => fetches[f].answer.stale

PageInv == ChannelInv /\ AnswersInv /\ LiveMeansLive

LEMMA InitEstablishes == Init => PageInv
<1> SUFFICES ASSUME Init PROVE PageInv
  OBVIOUS
<1>1. ChannelInv
  <2>1. sockets = <<"connecting">> /\ timer = FALSE
    BY DEF Init
  <2>2. sockets \in Seq(States) /\ Len(sockets) = 1 /\ Last = "connecting"
    BY <2>1 DEF States, Last
  <2>3. \A s \in 1..Len(sockets) : s # Len(sockets) => sockets[s] = "closed"
    BY <2>2
  <2>4. timer \in BOOLEAN /\ (timer <=> Last = "closed")
    BY <2>1, <2>2
  <2> QED
    BY <2>2, <2>3, <2>4 DEF ChannelInv
<1>2. AnswersInv
  BY DEF Init, AnswersInv, Asked
<1>3. LiveMeansLive
  BY DEF Init, LiveMeansLive
<1> QED
  BY <1>1, <1>2, <1>3 DEF PageInv

(* Sockets and timer change only together, and only in the four socket steps.    *)
LEMMA ChannelStep ==
  ASSUME ChannelInv, [Next]_vars
  PROVE  ChannelInv'
<1> USE DEF ChannelInv, States, Last
<1>1. CASE SocketOpens
  BY <1>1 DEF SocketOpens
<1>2. CASE SocketErrors
  BY <1>2 DEF SocketErrors, TimerAfterError
<1>3. ASSUME NEW s \in DOMAIN sockets, SocketCloses(s) PROVE ChannelInv'
  <2>1. s = Len(sockets)
    BY <1>3 DEF SocketCloses
  <2> QED
    BY <1>3, <2>1 DEF SocketCloses
<1>4. CASE ConnectSocket
  <2>1. \A s \in DOMAIN sockets : sockets[s] = "closed"
    BY <1>4 DEF ConnectSocket
  <2>2. [s \in DOMAIN sockets |-> IF s = Len(sockets) /\ sockets[s] # "closed" THEN "closing"
                                  ELSE sockets[s]] = sockets
    BY <2>1
  <2>3. sockets' = Append(sockets, "connecting") /\ timer' = FALSE
    BY <1>4, <2>2 DEF ConnectSocket
  <2>4. /\ sockets' \in Seq(States) /\ Len(sockets') = Len(sockets) + 1
        /\ \A s \in 1..Len(sockets) : sockets'[s] = sockets[s]
        /\ sockets'[Len(sockets')] = "connecting"
    BY <2>3
  <2>5. \A s \in 1..Len(sockets') : s # Len(sockets') => sockets'[s] = "closed"
    BY <2>1, <2>4
  <2>6. timer' \in BOOLEAN /\ (timer' <=> Last' = "closed")
    BY <2>3, <2>4
  <2>7. Len(sockets') >= 1
    BY <2>4
  <2> QED
    BY <2>4, <2>5, <2>6, <2>7
<1>5. CASE UNCHANGED <<sockets, timer>>
  BY <1>5
<1> QED
  BY <1>1, <1>2, <1>3, <1>4, <1>5
  DEF Next, vars, socketVars, Tick, Commit, Heartbeat, Poll, Served, Render, FetchFails, Message,
      CheckStale

(* What the session answers is consistent, and stays so on its way.              *)
LEMMA AnswersStep ==
  ASSUME AnswersInv, [Next]_vars
  PROVE  AnswersInv'
<1> USE DEF AnswersInv, Complete
<1>1. ASSUME NEW f \in 1..MaxFetches, FetchBegins(f) PROVE AnswersInv'
  BY <1>1 DEF FetchBegins, Asked
<1>2. ASSUME NEW f \in 1..MaxFetches, Served(f) PROVE AnswersInv'
  <2>1. fetches' = [fetches EXCEPT ![f] = [state |-> "served", answer |-> Snapshot]]
    BY <1>2 DEF Served
  <2>2. /\ Complete(Snapshot.revision) => ~Snapshot.stale
        /\ Snapshot.stale \in BOOLEAN
        /\ Snapshot.dead => Snapshot.stale
    BY DEF Snapshot, SessionStale
  <2> QED
    BY <2>1, <2>2
<1>3. ASSUME NEW f \in 1..MaxFetches, Render(f) \/ FetchFails(f) PROVE AnswersInv'
  BY <1>3 DEF Render, FetchFails
<1>4. CASE UNCHANGED fetches
  BY <1>4
<1> QED
  BY <1>1, <1>2, <1>3, <1>4
  DEF Next, vars, Tick, Commit, Heartbeat, Poll, SocketOpens, Message, SocketErrors, SocketCloses,
      ConnectSocket, CheckStale

(* No writer of the pill, and no step that closes the socket or learns of a      *)
(* staleness, leaves a false "connected" behind.                                 *)
LEMMA PillStep ==
  ASSUME PageInv, [Next]_vars
  PROVE  LiveMeansLive'
<1> USE DEF PageInv, LiveMeansLive
<1>1. CASE SocketOpens
  BY <1>1 DEF SocketOpens, PillAfterOpen, ChannelInv, States
<1>2. CASE SocketErrors
  BY <1>2 DEF SocketErrors, ChannelInv, States, pageVars
<1>3. CASE ConnectSocket \/ \E s \in DOMAIN sockets : SocketCloses(s)
  BY <1>3 DEF ConnectSocket, SocketCloses
<1>4. ASSUME NEW f \in 1..MaxFetches, Render(f) PROVE LiveMeansLive'
  <2>1. /\ snapshot' = fetches[f].answer /\ sockets' = sockets
        /\ pill' = PillAfterRender(fetches[f].answer)
    BY <1>4 DEF Render, socketVars
  <2>2. /\ Complete(fetches[f].answer.revision) => ~fetches[f].answer.stale
        /\ fetches[f].answer.stale \in BOOLEAN
        /\ fetches[f].answer.dead => fetches[f].answer.stale
    BY <1>4 DEF Render, AnswersInv
  <2>3. pill' = "connected" => SocketOpen /\ ~fetches[f].answer.stale
    BY <2>1, <2>2 DEF PillAfterRender
  <2> QED
    BY <2>1, <2>3 DEF SocketOpen
<1>5. ASSUME NEW f \in 1..MaxFetches, FetchFails(f) PROVE LiveMeansLive'
  BY <1>5 DEF FetchFails, socketVars
<1>6. CASE Message
  BY <1>6 DEF Message
<1>7. CASE CheckStale
  BY <1>7 DEF CheckStale, socketVars
<1>8. CASE UNCHANGED <<sockets, snapshot, pill>>
  BY <1>8
<1> QED
  BY <1>1, <1>2, <1>3, <1>4, <1>5, <1>6, <1>7, <1>8
  DEF Next, vars, socketVars, pageVars, Tick, Commit, Heartbeat, Poll, Served

(* The inductive invariant of the page.                                          *)
THEOREM InvariantHolds == Spec => []PageInv
<1>1. PageInv /\ [Next]_vars => PageInv'
  BY ChannelStep, AnswersStep, PillStep DEF PageInv
<1> QED
  BY <1>1, InitEstablishes, PTL DEF Spec

(* The page never has two ways to hear from the session, and never none.         *)
THEOREM ChannelIsOne == Spec => []OneChannel
<1>1. PageInv => OneChannel
  <2> SUFFICES ASSUME PageInv PROVE OneChannel
    OBVIOUS
  <2> DEFINE live == {s \in DOMAIN sockets : sockets[s] # "closed"}
  <2>1. CASE timer
    <3>1. live = {}
      BY <2>1 DEF PageInv, ChannelInv, Last
    <3> QED
      BY <2>1, <3>1, FS_EmptySet DEF OneChannel
  <2>2. CASE ~timer
    <3>1. live = {Len(sockets)}
      BY <2>2 DEF PageInv, ChannelInv, Last
    <3>2. Cardinality(live) = 1
      BY <3>1, FS_Singleton
    <3> QED
      BY <2>2, <3>2 DEF OneChannel
  <2> QED
    BY <2>1, <2>2 DEF PageInv, ChannelInv
<1> QED
  BY <1>1, InvariantHolds, PTL

(* A page that says Live has an open socket, or one about to report its error,   *)
(* and knows of no staleness.                                                    *)
THEOREM LiveIsLive == Spec => []LiveMeansLive
  BY InvariantHolds, PTL DEF PageInv
================================================================================
