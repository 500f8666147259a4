---------------------------- MODULE WorkerAccess ----------------------------
(***************************************************************************)
(* Who may feed a draft: the Worker's companion and service routes         *)
(* (src/src/index.ts), the CompanionRegistry Durable Object                *)
(* (src/src/companion-registry.ts) and the nonce table of DraftSession.    *)
(*                                                                         *)
(* A companion-ingest call is three steps with awaits in between: the      *)
(* registry authorizes the device; the signature and its timestamp are     *)
(* verified and the call is stamped with receivedAt; the session claims    *)
(* the nonce and commits.  Calls overlap, and the network delivers a       *)
(* signed request any number of times, at any time after it was signed.    *)
(*                                                                         *)
(* The draft is initialized.  Left out: names, versions and last_seen_at,  *)
(* which only the device list shows; the HMAC itself (a request carries a  *)
(* valid signature of its token); envelopes, which DraftSession models.    *)
(***************************************************************************)
EXTENDS Integers, FiniteSets

CONSTANTS
  Devices, Tokens,
  Service,       \* the live ingestor, which signs with the Worker's secret
  Holds,         \* the token in each laptop's keyring
  Enrolls,       \* bound: the pairs of device and token that register
  Signers,       \* bound: who signs requests, and is revoked and enabled
  Nonces,        \* one per signed request: a fresh UUID
  Calls,         \* bound: Worker calls in flight
  MaxPerMinute,  \* MAX_REGISTRATIONS_PER_MINUTE (20)
  Minute,        \* the length of a registration window
  Tolerance,     \* the 60 seconds a signature's timestamp may be off
  NonceTtl,      \* the 24 hours DraftSession keeps a nonce
  MaxDelay,      \* bound: each step of a call comes at most this late
  MaxSkew,       \* bound: a client's clock is off by this much
  MaxNow         \* bound on the clock

ASSUME AccessAssumption ==
  /\ Service \notin Devices
  /\ Holds \in [Devices -> Tokens]
  /\ Enrolls \subseteq Devices \X Tokens
  /\ Signers \subseteq Devices \cup {Service}
  /\ MaxPerMinute \in Nat \ {0}
  /\ Minute \in Nat \ {0} /\ Tolerance \in Nat /\ MaxDelay \in Nat
  /\ MaxSkew \in Nat /\ MaxNow \in Nat
  /\ NonceTtl \in Nat \ {0}
  /\ 2 * Tolerance + MaxDelay <= NonceTtl
  /\ MaxDelay <= Minute

VARIABLES
  devices,      \* companion_devices: device -> [token, window, revoked]
  windows,      \* registration_windows: window -> attempts
  sent,         \* the requests signed so far, by nonce
  calls,        \* the Worker calls in flight
  seen_nonces,  \* the session's nonce table
  applied,      \* how often the session committed each request
  now

vars == <<devices, windows, sent, calls, seen_nonces, applied, now>>

Idle == [step |-> "idle"]

Session == INSTANCE DraftSession
  WITH Teams <- {}, Players <- {}, EventIds <- {}, DraftInits <- {}, NoDraft <- Idle,
       Offers <- {}, MaxBatch <- 0, StaleAfter <- 1, DeadAfter <- 1, MaxConflicts <- 0,
       context <- Idle, status <- "live", revision <- 0, last_ingest_at <- 0,
       source_cursor <- 0, conflict_count <- 0, picks <- {}, announced <- 0

Windows == {t \div Minute : t \in 0..MaxNow}
Known == DOMAIN devices

Request == [signer : Signers, stamp : (-MaxSkew)..(MaxNow + MaxSkew), barred : BOOLEAN]
Call == [step : {"authorized", "verified"}, nonce : Nonces, at : 0..MaxNow]

TypeOK ==
  /\ Known \subseteq Devices
  /\ \A d \in Known : devices[d] \in [token : Tokens, window : Windows, revoked : BOOLEAN]
  /\ DOMAIN windows \subseteq Windows
  /\ \A w \in DOMAIN windows : windows[w] \in 1..MaxPerMinute
  /\ DOMAIN sent \subseteq Nonces /\ \A n \in DOMAIN sent : sent[n] \in Request
  /\ calls \in [Calls -> Call \cup {Idle}]
  /\ seen_nonces \subseteq [nonce : Nonces, seen_at : 0..MaxNow]
  /\ applied \in [Nonces -> Nat]
  /\ now \in 0..MaxNow

Init ==
  /\ devices = [d \in {} |-> Idle]
  /\ windows = [w \in {} |-> 0]
  /\ sent = [n \in {} |-> Idle]
  /\ calls = [c \in Calls |-> Idle]
  /\ seen_nonces = {}
  /\ applied = [n \in Nonces |-> 0]
  /\ now = 0

-----------------------------------------------------------------------------
(* The registry.  Its calls carry the time the Worker read, which can be   *)
(* up to MaxDelay old when the call runs.                                  *)

Window(t) == t \div Minute
Attempts(w) == IF w \in DOMAIN windows THEN windows[w] ELSE 0

(* Mutant: one registration too many.                                      *)
WindowOpenAtLimit(w) == Attempts(w) <= MaxPerMinute

WindowOpen(w) == Attempts(w) < MaxPerMinute

(* Mutant: the previous window is dropped at once.                         *)
KeptWindowsCurrent(w) == {v \in DOMAIN windows \cup {w} : v >= w}

(* The previous window is kept: a call stamped in it may still come.       *)
KeptWindows(w) == {v \in DOMAIN windows \cup {w} : v >= w - 1}

(* registerDevice of an unknown device.                                    *)
RegisterNew(d, k, t) ==
  LET w == Window(t) IN
  /\ d \notin Known
  /\ WindowOpen(w)
  /\ windows' = [v \in KeptWindows(w) |-> IF v = w THEN Attempts(w) + 1 ELSE windows[v]]
  /\ devices' = [e \in Known \cup {d} |->
                   IF e = d THEN [token |-> k, window |-> w, revoked |-> FALSE] ELSE devices[e]]
  /\ UNCHANGED <<sent, calls, seen_nonces, applied, now>>

(* registerDevice that changes nothing modelled: another token, a revoked  *)
(* device, a full window, or a known device that refreshes its name.       *)
RegisterKnownOrLimited(d, t) ==
  /\ d \in Known \/ ~WindowOpen(Window(t))
  /\ UNCHANGED vars

RevokeDevice(d) ==
  /\ d \in Known
  /\ devices' = [devices EXCEPT ![d].revoked = TRUE]
  /\ UNCHANGED <<windows, sent, calls, seen_nonces, applied, now>>

(* Requests of the device that are still on their way may pass again.      *)
EnableDevice(d) ==
  /\ d \in Known
  /\ devices' = [devices EXCEPT ![d].revoked = FALSE]
  /\ sent' = [n \in DOMAIN sent |->
                IF sent[n].signer = d THEN [sent[n] EXCEPT !.barred = FALSE] ELSE sent[n]]
  /\ UNCHANGED <<windows, calls, seen_nonces, applied, now>>

(* Mutant: a revoked device keeps its access.                              *)
MayIngestRevoked(d) ==
  \/ d = Service
  \/ d \in Known /\ devices[d].token = Holds[d]

(* authorizeDevice; the service route has no registry in front of it.      *)
MayIngest(d) ==
  \/ d = Service
  \/ d \in Known /\ devices[d].token = Holds[d] /\ ~devices[d].revoked

-----------------------------------------------------------------------------
(* Requests and the calls that carry them.                                 *)

(* A client signs a request by its own clock, which may be off.  barred    *)
(* notes that the device was revoked then, and was not enabled since.      *)
Sign(n, d, stamp) ==
  /\ n \notin DOMAIN sent
  /\ sent' = [m \in DOMAIN sent \cup {n} |->
                IF m = n THEN [signer |-> d, stamp |-> stamp,
                               barred |-> d \in Known /\ devices[d].revoked]
                         ELSE sent[m]]
  /\ UNCHANGED <<devices, windows, calls, seen_nonces, applied, now>>

Authorize(c, n) ==
  /\ calls[c] = Idle
  /\ n \in DOMAIN sent
  /\ MayIngest(sent[n].signer)
  /\ calls' = [calls EXCEPT ![c] = [step |-> "authorized", nonce |-> n, at |-> now]]
  /\ UNCHANGED <<devices, windows, sent, seen_nonces, applied, now>>

(* Mutant: only a timestamp from the future is refused.                    *)
TimelyPast(stamp) == stamp - now <= Tolerance

Timely(stamp) == stamp - now <= Tolerance /\ now - stamp <= Tolerance

(* The body is read, the signature verified, the call stamped receivedAt.  *)
Verify(c) ==
  /\ calls[c].step = "authorized"
  /\ Timely(sent[calls[c].nonce].stamp)
  /\ calls' = [calls EXCEPT ![c].step = "verified", ![c].at = now]
  /\ UNCHANGED <<devices, windows, sent, seen_nonces, applied, now>>

(* ingestBatch commits.                                                    *)
Ingest(c) ==
  /\ calls[c].step = "verified"
  /\ Session!NonceUnseen(calls[c].nonce)
  /\ Session!Remember(calls[c].nonce, calls[c].at)
  /\ applied' = [applied EXCEPT ![calls[c].nonce] = @ + 1]
  /\ calls' = [calls EXCEPT ![c] = Idle]
  /\ UNCHANGED <<devices, windows, sent, now>>

(* A call that ends without effect: a late or early timestamp, a replayed  *)
(* nonce, an envelope the session refuses, a connection cut.               *)
CallEnds(c) ==
  /\ calls[c] # Idle
  /\ calls' = [calls EXCEPT ![c] = Idle]
  /\ UNCHANGED <<devices, windows, sent, seen_nonces, applied, now>>

(* No step of a call comes later than MaxDelay.                            *)
Tick ==
  /\ now < MaxNow
  /\ \A c \in Calls : calls[c] # Idle => now - calls[c].at < MaxDelay
  /\ now' = now + 1
  /\ UNCHANGED <<devices, windows, sent, calls, seen_nonces, applied>>

Next ==
  \/ \E d \in Devices, k \in Tokens, t \in Session!ReceivedAt :
       <<d, k>> \in Enrolls /\ (RegisterNew(d, k, t) \/ RegisterKnownOrLimited(d, t))
  \/ \E d \in Devices \cap Signers : RevokeDevice(d) \/ EnableDevice(d)
  \/ \E n \in Nonces, d \in Signers, stamp \in (now - MaxSkew)..(now + MaxSkew) : Sign(n, d, stamp)
  \/ \E c \in Calls : (\E n \in Nonces : Authorize(c, n)) \/ Verify(c) \/ Ingest(c) \/ CallEnds(c)
  \/ Tick

Spec == Init /\ [][Next]_vars

-----------------------------------------------------------------------------
(* Properties.                                                             *)

(* However often the network delivers a signed request, and whatever calls *)
(* overlap, the session applies it at most once: a nonce outlives the time *)
(* in which its timestamp is accepted (SECURITY.md, laptop-companion.md:45)*)
AppliedOnce == \A n \in Nonces : applied[n] <= 1

(* A request signed while its device is revoked is never applied, unless   *)
(* the device is enabled while the request is still on its way; neither a  *)
(* registration nor an overlapping call opens a way around the revocation. *)
RevokedNeverApplied == \A n \in DOMAIN sent : sent[n].barred => applied[n] = 0

(* No window admits more than MaxPerMinute new devices, although the       *)
(* counters of old windows are deleted and calls can arrive late.          *)
RegistrationBounded ==
  \A w \in Windows : Cardinality({d \in Known : devices[d].window = w}) <= MaxPerMinute
=============================================================================
