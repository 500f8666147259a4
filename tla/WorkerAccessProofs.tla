------------------------- MODULE WorkerAccessProofs -------------------------
(***************************************************************************)
(* Theorems about WorkerAccess, for all devices, requests, calls and       *)
(* durations that meet AccessAssumption: a signed request is applied at    *)
(* most once, and one signed under revocation not at all.                  *)
(*                                                                         *)
(* The argument for AppliedOnce is about time.  A request is committed     *)
(* with a receivedAt within Tolerance of its stamp, so its nonce row is    *)
(* pruned, if ever, only later than stamp - Tolerance + NonceTtl; and no   *)
(* call can carry the request beyond stamp + Tolerance + MaxDelay.         *)
(***************************************************************************)
EXTENDS WorkerAccess, FiniteSetTheorems, TLAPS

(* What the proofs need of the variables' types.                           *)
Types ==
  /\ DOMAIN sent \subseteq Nonces
  /\ \A n \in DOMAIN sent : sent[n] \in [signer : Signers, stamp : Int, barred : BOOLEAN]
  /\ calls \in [Calls -> [step : {"authorized", "verified"}, nonce : Nonces, at : Int] \cup {Idle}]
  /\ seen_nonces \subseteq [nonce : Nonces, seen_at : Int]
  /\ applied \in [Nonces -> Nat]
  /\ now \in Nat

(* A call carries a signed request, and has just made its last step.       *)
CallsRecent ==
  \A c \in Calls : calls[c] # Idle =>
    /\ calls[c].nonce \in DOMAIN sent
    /\ calls[c].at <= now
    /\ now <= calls[c].at + MaxDelay

(* A verified call was stamped within Tolerance of its request.            *)
CallsTimely ==
  \A c \in Calls : calls[c].step = "verified" =>
    /\ calls[c].at <= sent[calls[c].nonce].stamp + Tolerance
    /\ sent[calls[c].nonce].stamp - Tolerance <= calls[c].at

(* The nonce table remembers the request.                                  *)
Remembered(n) ==
  \E row \in seen_nonces : row.nonce = n /\ sent[n].stamp - Tolerance <= row.seen_at

(* No call can carry the request any more.                                 *)
Expired(n) == now > sent[n].stamp + Tolerance + MaxDelay

AppliedSafely ==
  \A n \in Nonces :
    /\ applied[n] \in {0, 1}
    /\ applied[n] = 1 => n \in DOMAIN sent /\ (Remembered(n) \/ Expired(n))

(* A barred request's device is revoked, and no call carries the request.  *)
BarredOut ==
  \A n \in DOMAIN sent : sent[n].barred =>
    /\ sent[n].signer \in Known
    /\ sent[n].signer # Service
    /\ devices[sent[n].signer].revoked
    /\ applied[n] = 0
    /\ \A c \in Calls : calls[c] # Idle => calls[c].nonce # n

(* Only devices are registered, so the live ingestor is never revoked.     *)
OnlyDevices == Known \subseteq Devices

IInv ==
  /\ Types /\ CallsRecent /\ CallsTimely /\ AppliedSafely /\ BarredOut /\ OnlyDevices

-----------------------------------------------------------------------------
(* The inductive step, one lemma per group of actions.                     *)

(* Nothing is signed, in flight or applied at the start.                   *)
LEMMA InitEstablishesIInv == Init => IInv
BY DEF Init, IInv, Types, CallsRecent, CallsTimely, AppliedSafely, BarredOut, OnlyDevices,
       Known, Idle

(* The registry's actions leave requests and calls alone: registering adds *)
(* a device, revoking only revokes.                                        *)
LEMMA RegistryKeepsIInv ==
  ASSUME IInv,
         \/ \E d \in Devices, k \in Tokens, t \in Int : RegisterNew(d, k, t)
         \/ \E d \in Devices : RevokeDevice(d)
  PROVE  IInv'
<1>1. UNCHANGED <<sent, calls, seen_nonces, applied, now>>
  BY DEF RegisterNew, RevokeDevice
<1>2. Types' /\ CallsRecent' /\ CallsTimely' /\ AppliedSafely'
  BY <1>1 DEF IInv, Types, CallsRecent, CallsTimely, AppliedSafely, Remembered, Expired
<1>3. ASSUME NEW d \in Devices, NEW k \in Tokens, NEW t \in Int, RegisterNew(d, k, t)
      PROVE  BarredOut' /\ OnlyDevices'
  <2>1. Known' = Known \cup {d} /\ \A e \in Known : devices'[e] = devices[e]
    BY <1>3 DEF RegisterNew, Known
  <2> QED
    BY <1>1, <2>1 DEF IInv, BarredOut, OnlyDevices
<1>4. ASSUME NEW d \in Devices, RevokeDevice(d)
      PROVE  BarredOut' /\ OnlyDevices'
  <2>1. /\ Known' = Known
        /\ \A e \in Known : devices[e].revoked => devices'[e].revoked
    BY <1>4 DEF RevokeDevice, Known
  <2> QED
    BY <1>1, <2>1 DEF IInv, BarredOut, OnlyDevices
<1> QED
  BY <1>2, <1>3, <1>4 DEF IInv

(* Enabling a device lifts the bar from its requests, and moves no stamp.  *)
LEMMA EnableKeepsIInv ==
  ASSUME IInv, NEW d \in Devices, EnableDevice(d)
  PROVE  IInv'
<1>1. UNCHANGED <<calls, seen_nonces, applied, now>> /\ Known' = Known
  BY DEF EnableDevice, Known
<1>2. /\ DOMAIN sent' = DOMAIN sent
      /\ \A n \in DOMAIN sent :
           /\ sent'[n] \in [signer : Signers, stamp : Int, barred : BOOLEAN]
           /\ sent'[n].stamp = sent[n].stamp
           /\ sent'[n].signer = sent[n].signer
           /\ sent'[n].barred => sent[n].barred /\ sent[n].signer # d
  BY DEF EnableDevice, IInv, Types
<1>3. Types'
  BY <1>1, <1>2 DEF IInv, Types
<1>4. CallsRecent'
  BY <1>1, <1>2 DEF IInv, CallsRecent
<1>5. CallsTimely'
  <2> SUFFICES ASSUME NEW c \in Calls, calls[c].step = "verified"
               PROVE  /\ calls[c].at <= sent'[calls[c].nonce].stamp + Tolerance
                      /\ sent'[calls[c].nonce].stamp - Tolerance <= calls[c].at
    BY <1>1 DEF CallsTimely
  <2>1. calls[c] # Idle
    BY DEF Idle
  <2>2. calls[c].nonce \in DOMAIN sent
    BY <2>1 DEF IInv, CallsRecent
  <2> QED
    BY <1>2, <2>2 DEF IInv, CallsTimely
<1>6. AppliedSafely'
  BY <1>1, <1>2 DEF IInv, AppliedSafely, Remembered, Expired
<1>7. BarredOut' /\ OnlyDevices'
  <2>1. \A e \in Known : e # d => devices'[e] = devices[e]
    BY DEF EnableDevice, Known
  <2> QED
    BY <1>1, <1>2, <2>1 DEF IInv, BarredOut, OnlyDevices
<1> QED
  BY <1>3, <1>4, <1>5, <1>6, <1>7 DEF IInv

(* A request signed now has no call and no commit yet.                     *)
LEMMA SignKeepsIInv ==
  ASSUME IInv, NEW n \in Nonces, NEW d \in Signers, NEW stamp \in Int, Sign(n, d, stamp)
  PROVE  IInv'
<1>1. UNCHANGED <<devices, calls, seen_nonces, applied, now>> /\ Known' = Known
  BY DEF Sign, Known
<1>2. /\ n \notin DOMAIN sent
      /\ DOMAIN sent' = DOMAIN sent \cup {n}
      /\ \A m \in DOMAIN sent : sent'[m] = sent[m]
      /\ sent'[n] = [signer |-> d, stamp |-> stamp,
                     barred |-> d \in Known /\ devices[d].revoked]
  BY DEF Sign
<1>3. (d \in Known /\ devices[d].revoked) \in BOOLEAN
  OBVIOUS
<1>4. Types'
  <2>1. sent'[n] \in [signer : Signers, stamp : Int, barred : BOOLEAN]
    BY <1>2, <1>3
  <2> QED
    BY <1>1, <1>2, <2>1 DEF IInv, Types
<1>5. CallsRecent'
  BY <1>1, <1>2 DEF IInv, CallsRecent
<1>6. CallsTimely'
  <2> SUFFICES ASSUME NEW c \in Calls, calls[c].step = "verified"
               PROVE  /\ calls[c].at <= sent'[calls[c].nonce].stamp + Tolerance
                      /\ sent'[calls[c].nonce].stamp - Tolerance <= calls[c].at
    BY <1>1 DEF CallsTimely
  <2>1. calls[c].nonce \in DOMAIN sent
    BY DEF IInv, CallsRecent, Idle
  <2> QED
    BY <1>2, <2>1 DEF IInv, CallsTimely
<1>7. AppliedSafely'
  BY <1>1, <1>2 DEF IInv, AppliedSafely, Remembered, Expired
<1>8. BarredOut'
  <2>1. ASSUME NEW m \in DOMAIN sent, sent'[m].barred
        PROVE  /\ sent'[m].signer \in Known /\ sent'[m].signer # Service
               /\ devices[sent'[m].signer].revoked /\ applied[m] = 0
               /\ \A c \in Calls : calls[c] # Idle => calls[c].nonce # m
    BY <1>2, <2>1 DEF IInv, BarredOut
  <2>2. applied[n] = 0 /\ \A c \in Calls : calls[c] # Idle => calls[c].nonce # n
    BY <1>2 DEF IInv, AppliedSafely, CallsRecent
  <2>3. sent'[n].barred => d \in Known /\ d # Service /\ devices[d].revoked
    <3> DEFINE revoked == d \in Known /\ devices[d].revoked
    <3>1. sent'[n] = [signer |-> d, stamp |-> stamp, barred |-> revoked]
      BY <1>2
    <3> HIDE DEF revoked
    <3>2. sent'[n].barred = revoked
      BY <3>1
    <3>3. d \in Known => d # Service
      BY AccessAssumption DEF IInv, OnlyDevices
    <3> QED
      BY <3>2, <3>3, Zenon DEF revoked
  <2>4. sent'[n].signer = d
    BY <1>2
  <2> QED
    BY <1>1, <1>2, <2>1, <2>2, <2>3, <2>4 DEF BarredOut
<1>9. OnlyDevices'
  BY <1>1 DEF IInv, OnlyDevices
<1> QED
  BY <1>4, <1>5, <1>6, <1>7, <1>8, <1>9 DEF IInv

(* A call starts for a request that is not barred.                         *)
LEMMA AuthorizeKeepsIInv ==
  ASSUME IInv, NEW c \in Calls, NEW n \in Nonces, Authorize(c, n)
  PROVE  IInv'
<1>1. UNCHANGED <<devices, sent, seen_nonces, applied, now>> /\ Known' = Known
  BY DEF Authorize, Known
<1>2. /\ n \in DOMAIN sent
      /\ MayIngest(sent[n].signer)
      /\ calls' = [calls EXCEPT ![c] = [step |-> "authorized", nonce |-> n, at |-> now]]
  BY DEF Authorize
<1>3. \A e \in Calls : e # c => calls'[e] = calls[e]
  BY <1>2 DEF IInv, Types
<1>4. calls'[c] = [step |-> "authorized", nonce |-> n, at |-> now]
  BY <1>2 DEF IInv, Types
<1>5. Types'
  BY <1>1, <1>2 DEF IInv, Types
<1>6. CallsRecent'
  <2>1. now <= now + MaxDelay
    BY AccessAssumption DEF IInv, Types
  <2> QED
    BY <1>1, <1>2, <1>3, <1>4, <2>1 DEF IInv, CallsRecent, Types
<1>7. CallsTimely'
  BY <1>1, <1>3, <1>4 DEF IInv, CallsTimely
<1>8. AppliedSafely' /\ OnlyDevices'
  BY <1>1 DEF IInv, AppliedSafely, Remembered, Expired, OnlyDevices
<1>9. BarredOut'
  <2>1. ~sent[n].barred
    BY <1>2 DEF IInv, BarredOut, MayIngest
  <2> QED
    BY <1>1, <1>3, <1>4, <2>1 DEF IInv, BarredOut
<1> QED
  BY <1>5, <1>6, <1>7, <1>8, <1>9 DEF IInv

(* Verification stamps a call within Tolerance of its request.             *)
LEMMA VerifyKeepsIInv ==
  ASSUME IInv, NEW c \in Calls, Verify(c)
  PROVE  IInv'
<1> DEFINE n == calls[c].nonce
<1>1. UNCHANGED <<devices, sent, seen_nonces, applied, now>> /\ Known' = Known
  BY DEF Verify, Known
<1>2. calls[c] \in [step : {"authorized", "verified"}, nonce : Nonces, at : Int]
  BY DEF IInv, Types, Verify, Idle
<1>3. /\ Timely(sent[n].stamp)
      /\ calls' = [calls EXCEPT ![c].step = "verified", ![c].at = now]
  BY DEF Verify
<1>4. \A e \in Calls : e # c => calls'[e] = calls[e]
  BY <1>3 DEF IInv, Types
<1>5. calls'[c] = [step |-> "verified", nonce |-> n, at |-> now]
  BY <1>2, <1>3 DEF IInv, Types
<1>6. n \in DOMAIN sent /\ calls[c] # Idle
  BY DEF IInv, CallsRecent, Verify, Idle
<1>7. Types'
  <2>1. calls' = [e \in Calls |-> IF e = c THEN [step |-> "verified", nonce |-> n, at |-> now]
                                            ELSE calls[e]]
    BY <1>3, <1>4, <1>5 DEF IInv, Types
  <2>2. [step |-> "verified", nonce |-> n, at |-> now]
          \in [step : {"authorized", "verified"}, nonce : Nonces, at : Int]
    BY <1>2 DEF IInv, Types
  <2>3. calls' \in [Calls -> [step : {"authorized", "verified"}, nonce : Nonces, at : Int]
                              \cup {Idle}]
    BY <2>1, <2>2 DEF IInv, Types
  <2> QED
    BY <1>1, <2>3 DEF IInv, Types
<1>8. CallsRecent'
  <2>1. now <= now + MaxDelay
    BY AccessAssumption DEF IInv, Types
  <2> QED
    BY <1>1, <1>4, <1>5, <1>6, <2>1 DEF IInv, CallsRecent, Types
<1>9. CallsTimely'
  <2>1. now <= sent[n].stamp + Tolerance /\ sent[n].stamp - Tolerance <= now
    BY <1>3, <1>6, AccessAssumption DEF Timely, IInv, Types
  <2> QED
    BY <1>1, <1>4, <1>5, <2>1 DEF IInv, CallsTimely
<1>10. AppliedSafely' /\ OnlyDevices'
  BY <1>1 DEF IInv, AppliedSafely, Remembered, Expired, OnlyDevices
<1>11. BarredOut'
  BY <1>1, <1>4, <1>5, <1>6 DEF IInv, BarredOut
<1> QED
  BY <1>7, <1>8, <1>9, <1>10, <1>11 DEF IInv

(* The commit: its request was never applied, and stays remembered.        *)
LEMMA IngestKeepsIInv ==
  ASSUME IInv, NEW c \in Calls, Ingest(c)
  PROVE  IInv'
<1> DEFINE n == calls[c].nonce
           at == calls[c].at
<1>1. UNCHANGED <<devices, sent, now>> /\ Known' = Known
  BY DEF Ingest, Known
<1>2. /\ calls[c] \in [step : {"authorized", "verified"}, nonce : Nonces, at : Int]
      /\ calls[c] # Idle /\ calls[c].step = "verified"
  BY DEF IInv, Types, Ingest, Idle
<1>3. n \in DOMAIN sent /\ at <= now /\ now <= at + MaxDelay
  BY <1>2 DEF IInv, CallsRecent
<1>4. at <= sent[n].stamp + Tolerance /\ sent[n].stamp - Tolerance <= at
  BY <1>2 DEF IInv, CallsTimely
<1>5. \A row \in seen_nonces : row.nonce # n
  BY DEF Ingest, Session!NonceUnseen
<1>6. seen_nonces' = {row \in seen_nonces \cup {[nonce |-> n, seen_at |-> at]} :
                        row.seen_at >= at - NonceTtl}
  BY DEF Ingest, Session!Remember
<1>7. calls' = [calls EXCEPT ![c] = Idle] /\ applied' = [applied EXCEPT ![n] = @ + 1]
  BY DEF Ingest
<1>8. now \in Nat /\ at \in Int /\ n \in Nonces /\ MaxDelay \in Nat /\ Tolerance \in Nat
      /\ NonceTtl \in Nat /\ 2 * Tolerance + MaxDelay <= NonceTtl
  BY <1>2, AccessAssumption DEF IInv, Types
<1>9. \A m \in DOMAIN sent : sent[m].stamp \in Int
  BY DEF IInv, Types
<1>10. applied[n] = 0
  <2>1. ~Remembered(n)
    BY <1>5 DEF Remembered
  <2>2. ~Expired(n)
    BY <1>3, <1>4, <1>8, <1>9 DEF Expired
  <2> QED
    BY <1>8, <2>1, <2>2 DEF IInv, AppliedSafely
<1>11. applied' \in [Nonces -> Nat] /\ applied'[n] = 1
       /\ \A m \in Nonces : m # n => applied'[m] = applied[m]
  BY <1>7, <1>8, <1>10 DEF IInv, Types
<1>12. Types'
  <2>1. calls' \in [Calls -> [step : {"authorized", "verified"}, nonce : Nonces, at : Int]
                              \cup {Idle}]
    BY <1>7 DEF IInv, Types
  <2>2. seen_nonces' \subseteq [nonce : Nonces, seen_at : Int]
    BY <1>6, <1>8 DEF IInv, Types
  <2> QED
    BY <1>1, <1>11, <2>1, <2>2 DEF IInv, Types
<1>13. \A e \in Calls : calls'[e] = IF e = c THEN Idle ELSE calls[e]
  BY <1>7 DEF IInv, Types
<1>14. CallsRecent' /\ CallsTimely'
  BY <1>1, <1>13 DEF IInv, CallsRecent, CallsTimely, Idle
<1>15. AppliedSafely'
  <2> SUFFICES ASSUME NEW m \in Nonces, applied'[m] = 1
               PROVE  m \in DOMAIN sent /\ (Remembered(m)' \/ Expired(m)')
    BY <1>1, <1>11 DEF IInv, AppliedSafely
  <2>1. CASE m = n
    <3>1. [nonce |-> n, seen_at |-> at] \in seen_nonces'
      BY <1>6, <1>8
    <3> QED
      BY <1>1, <1>3, <1>4, <2>1, <3>1 DEF Remembered
  <2>2. CASE m # n
    <3>1. m \in DOMAIN sent /\ (Remembered(m) \/ Expired(m))
      BY <1>11, <2>2 DEF IInv, AppliedSafely
    <3>2. CASE Expired(m)
      BY <1>1, <3>1, <3>2 DEF Expired
    <3>3. CASE Remembered(m)
      <4>1. PICK row \in seen_nonces : row.nonce = m /\ sent[m].stamp - Tolerance <= row.seen_at
        BY <3>3 DEF Remembered
      <4>2. row.seen_at \in Int
        BY DEF IInv, Types
      <4>3. CASE row.seen_at >= at - NonceTtl
        <5>1. row \in seen_nonces'
          BY <1>6, <4>3
        <5> QED
          BY <1>1, <3>1, <4>1, <5>1 DEF Remembered
      <4>4. CASE ~(row.seen_at >= at - NonceTtl)
        <5>1. now > sent[m].stamp + Tolerance + MaxDelay
          BY <1>3, <1>8, <1>9, <3>1, <4>1, <4>2, <4>4
        <5> QED
          BY <1>1, <3>1, <5>1 DEF Expired
      <4> QED
        BY <4>3, <4>4
    <3> QED
      BY <3>1, <3>2, <3>3
  <2> QED
    BY <2>1, <2>2
<1>16. BarredOut' /\ OnlyDevices'
  <2>1. ~sent[n].barred
    BY <1>2, <1>3 DEF IInv, BarredOut
  <2>2. \A m \in DOMAIN sent : m \in Nonces
    BY DEF IInv, Types
  <2> QED
    BY <1>1, <1>11, <1>13, <2>1, <2>2 DEF IInv, BarredOut, OnlyDevices
<1> QED
  BY <1>12, <1>14, <1>15, <1>16 DEF IInv

(* A call that ends, and time that passes, only make calls fewer or older. *)
LEMMA CallEndsOrTickKeepsIInv ==
  ASSUME IInv, (\E c \in Calls : CallEnds(c)) \/ Tick
  PROVE  IInv'
<1>1. UNCHANGED <<devices, sent, seen_nonces, applied>> /\ Known' = Known
  BY DEF CallEnds, Tick, Known
<1>2. ASSUME NEW c \in Calls, CallEnds(c)
      PROVE  IInv'
  <2>1. now' = now /\ calls' = [calls EXCEPT ![c] = Idle]
    BY <1>2 DEF CallEnds
  <2>2. \A e \in Calls : calls'[e] = IF e = c THEN Idle ELSE calls[e]
    BY <2>1 DEF IInv, Types
  <2>3. Types'
    BY <1>1, <2>1 DEF IInv, Types
  <2>4. CallsRecent' /\ CallsTimely' /\ BarredOut'
    BY <1>1, <2>1, <2>2 DEF IInv, CallsRecent, CallsTimely, BarredOut, Idle
  <2> QED
    BY <1>1, <2>1, <2>3, <2>4 DEF IInv, AppliedSafely, Remembered, Expired, OnlyDevices
<1>3. ASSUME Tick
      PROVE  IInv'
  <2>1. /\ now' = now + 1 /\ calls' = calls
        /\ \A c \in Calls : calls[c] # Idle => now - calls[c].at < MaxDelay
    BY <1>3 DEF Tick
  <2>2. Types'
    BY <1>1, <2>1 DEF IInv, Types
  <2>3. CallsRecent'
    <3> SUFFICES ASSUME NEW c \in Calls, calls[c] # Idle
                 PROVE  /\ calls[c].nonce \in DOMAIN sent
                        /\ calls[c].at <= now + 1 /\ now + 1 <= calls[c].at + MaxDelay
      BY <1>1, <2>1 DEF CallsRecent
    <3>1. calls[c].at \in Int /\ now \in Nat /\ MaxDelay \in Nat
      BY AccessAssumption DEF IInv, Types
    <3> QED
      BY <2>1, <3>1 DEF IInv, CallsRecent
  <2>4. AppliedSafely'
    <3>1. \A n \in DOMAIN sent : Expired(n) => Expired(n)'
      BY <1>1, <2>1, AccessAssumption DEF Expired, IInv, Types
    <3>2. \A n \in DOMAIN sent : Remembered(n) => Remembered(n)'
      BY <1>1 DEF Remembered
    <3> QED
      BY <1>1, <3>1, <3>2 DEF IInv, AppliedSafely
  <2> QED
    BY <1>1, <2>1, <2>2, <2>3, <2>4 DEF IInv, CallsTimely, BarredOut, OnlyDevices
<1> QED
  BY <1>2, <1>3

(* A step that changes nothing.                                            *)
LEMMA StutterKeepsIInv == IInv /\ UNCHANGED vars => IInv'
BY DEF vars, IInv, Types, CallsRecent, CallsTimely, AppliedSafely, Remembered, Expired,
       BarredOut, OnlyDevices, Known

(* Every step keeps the invariant.                                         *)
LEMMA NextKeepsIInv == IInv /\ [Next]_vars => IInv'
<1> SUFFICES ASSUME IInv, [Next]_vars PROVE IInv'
  OBVIOUS
<1>1. ASSUME NEW d \in Devices, NEW k \in Tokens, NEW t \in Session!ReceivedAt,
             RegisterNew(d, k, t)
      PROVE  IInv'
  <2>1. t \in Int
    BY AccessAssumption DEF Session!ReceivedAt, IInv, Types
  <2> QED
    BY <1>1, <2>1, RegistryKeepsIInv
<1>2. ASSUME NEW d \in Devices, NEW t, RegisterKnownOrLimited(d, t)
      PROVE  IInv'
  BY <1>2, StutterKeepsIInv DEF RegisterKnownOrLimited
<1>3. ASSUME NEW d \in Devices, RevokeDevice(d)
      PROVE  IInv'
  BY <1>3, RegistryKeepsIInv
<1>4. ASSUME NEW d \in Devices, EnableDevice(d)
      PROVE  IInv'
  BY <1>4, EnableKeepsIInv
<1>5. ASSUME NEW n \in Nonces, NEW d \in Signers,
             NEW stamp \in (now - MaxSkew)..(now + MaxSkew), Sign(n, d, stamp)
      PROVE  IInv'
  <2>1. stamp \in Int
    BY AccessAssumption DEF IInv, Types
  <2> QED
    BY <1>5, <2>1, SignKeepsIInv
<1>6. ASSUME NEW c \in Calls, NEW n \in Nonces, Authorize(c, n)
      PROVE  IInv'
  BY <1>6, AuthorizeKeepsIInv
<1>7. ASSUME NEW c \in Calls, Verify(c)
      PROVE  IInv'
  BY <1>7, VerifyKeepsIInv
<1>8. ASSUME NEW c \in Calls, Ingest(c)
      PROVE  IInv'
  BY <1>8, IngestKeepsIInv
<1>9. ASSUME (\E c \in Calls : CallEnds(c)) \/ Tick
      PROVE  IInv'
  BY <1>9, CallEndsOrTickKeepsIInv
<1>10. CASE UNCHANGED vars
  BY <1>10, StutterKeepsIInv
<1> QED
  BY <1>1, <1>2, <1>3, <1>4, <1>5, <1>6, <1>7, <1>8, <1>9, <1>10, AccessAssumption DEF Next

-----------------------------------------------------------------------------

(* The inductive invariant holds in every reachable state.                 *)
THEOREM InvariantHolds == Spec => []IInv
BY InitEstablishesIInv, NextKeepsIInv, PTL DEF Spec

(* However often the network delivers a signed request and whatever calls  *)
(* overlap, the session applies it at most once.                           *)
THEOREM RequestsApplyOnce == Spec => []AppliedOnce
<1>1. IInv => AppliedOnce
  BY DEF IInv, AppliedSafely, AppliedOnce
<1> QED
  BY <1>1, InvariantHolds, PTL

(* A request signed under revocation is never applied, unless the device   *)
(* is enabled while the request is on its way.                             *)
THEOREM RevocationHolds == Spec => []RevokedNeverApplied
<1>1. IInv => RevokedNeverApplied
  BY DEF IInv, BarredOut, RevokedNeverApplied
<1> QED
  BY <1>1, InvariantHolds, PTL

-----------------------------------------------------------------------------
(* The type invariant.                                                     *)

(* A receivedAt is a time of the clock so far, at most MaxDelay old.       *)
LEMMA ReceivedAtRange ==
  ASSUME now \in 0..MaxNow, NEW t \in Session!ReceivedAt
  PROVE  t \in 0..MaxNow /\ t <= now /\ now <= t + MaxDelay
BY AccessAssumption DEF Session!ReceivedAt

(* A registration adds a well-typed row and counts it in its window.       *)
LEMMA RegisterKeepsTypes ==
  ASSUME TypeOK, NEW d \in Devices, NEW k \in Tokens, NEW t \in 0..MaxNow,
         RegisterNew(d, k, t)
  PROVE  TypeOK'
<1> DEFINE w == Window(t)
<1>1. UNCHANGED <<sent, calls, seen_nonces, applied, now>>
  BY DEF RegisterNew
<1>2. w \in Windows
  BY DEF Windows, Window
<1>3. /\ Known' \subseteq Devices
      /\ \A e \in Known' : devices'[e] \in [token : Tokens, window : Windows, revoked : BOOLEAN]
  BY <1>2 DEF RegisterNew, TypeOK, Known
<1>4. /\ WindowOpen(w)
      /\ windows' = [v \in KeptWindows(w) |-> IF v = w THEN Attempts(w) + 1 ELSE windows[v]]
  BY DEF RegisterNew
<1>5. Attempts(w) + 1 \in 1..MaxPerMinute
  BY <1>4, AccessAssumption DEF WindowOpen, Attempts, TypeOK
<1>6. /\ DOMAIN windows' \subseteq Windows
      /\ \A v \in DOMAIN windows' : windows'[v] \in 1..MaxPerMinute
  BY <1>2, <1>4, <1>5 DEF KeptWindows, TypeOK
<1> QED
  BY <1>1, <1>3, <1>6 DEF TypeOK, Request, Call

(* Every step keeps the types.                                             *)
LEMMA NextKeepsTypes == TypeOK /\ [Next]_vars => TypeOK'
<1> SUFFICES ASSUME TypeOK, [Next]_vars PROVE TypeOK'
  OBVIOUS
<1> USE AccessAssumption
<1>1. ASSUME NEW d \in Devices, NEW k \in Tokens, NEW t \in Session!ReceivedAt,
             RegisterNew(d, k, t)
      PROVE  TypeOK'
  BY <1>1, ReceivedAtRange, RegisterKeepsTypes DEF TypeOK
<1>2. ASSUME NEW d \in Devices, NEW t, RegisterKnownOrLimited(d, t)
      PROVE  TypeOK'
  BY <1>2 DEF RegisterKnownOrLimited, vars, TypeOK, Known
<1>3. ASSUME NEW d \in Devices, RevokeDevice(d)
      PROVE  TypeOK'
  BY <1>3 DEF RevokeDevice, TypeOK, Known
<1>4. ASSUME NEW d \in Devices, EnableDevice(d)
      PROVE  TypeOK'
  <2>1. DOMAIN sent' = DOMAIN sent /\ \A n \in DOMAIN sent : sent'[n] \in Request
    BY <1>4 DEF EnableDevice, TypeOK, Request
  <2>2. /\ Known' = Known
        /\ \A e \in Known : devices'[e] \in [token : Tokens, window : Windows, revoked : BOOLEAN]
    BY <1>4 DEF EnableDevice, TypeOK, Known
  <2>3. UNCHANGED <<windows, calls, seen_nonces, applied, now>>
    BY <1>4 DEF EnableDevice
  <2> QED
    BY <2>1, <2>2, <2>3 DEF TypeOK
<1>5. ASSUME NEW n \in Nonces, NEW d \in Signers,
             NEW stamp \in (now - MaxSkew)..(now + MaxSkew), Sign(n, d, stamp)
      PROVE  TypeOK'
  <2> DEFINE barred == d \in Known /\ devices[d].revoked
  <2>1. /\ sent' = [m \in DOMAIN sent \cup {n} |->
                      IF m = n THEN [signer |-> d, stamp |-> stamp, barred |-> barred]
                               ELSE sent[m]]
        /\ UNCHANGED <<devices, windows, calls, seen_nonces, applied, now>>
    BY <1>5 DEF Sign
  <2>2. barred \in BOOLEAN
    OBVIOUS
  <2>3. stamp \in (-MaxSkew)..(MaxNow + MaxSkew)
    BY DEF TypeOK
  <2> HIDE DEF barred
  <2>4. DOMAIN sent' \subseteq Nonces /\ \A m \in DOMAIN sent' : sent'[m] \in Request
    BY <2>1, <2>2, <2>3 DEF TypeOK, Request
  <2> QED
    BY <2>1, <2>4 DEF TypeOK, Known
<1>6. ASSUME NEW c \in Calls, NEW n \in Nonces, Authorize(c, n)
      PROVE  TypeOK'
  <2>1. [step |-> "authorized", nonce |-> n, at |-> now] \in Call
    BY DEF TypeOK, Call
  <2>2. calls' \in [Calls -> Call \cup {Idle}]
    BY <1>6, <2>1 DEF Authorize, TypeOK
  <2> QED
    BY <1>6, <2>2 DEF Authorize, TypeOK, Known
<1>7. ASSUME NEW c \in Calls, Verify(c)
      PROVE  TypeOK'
  <2>1. calls[c] \in Call
    BY <1>7 DEF Verify, TypeOK, Idle
  <2>2. [calls[c] EXCEPT !.step = "verified", !.at = now] \in Call
    BY <2>1 DEF TypeOK, Call
  <2>3. calls' = [calls EXCEPT ![c] = [calls[c] EXCEPT !.step = "verified", !.at = now]]
    BY <1>7, <2>1 DEF Verify, TypeOK, Call
  <2>4. calls' \in [Calls -> Call \cup {Idle}]
    BY <2>2, <2>3 DEF TypeOK
  <2> QED
    BY <1>7, <2>4 DEF Verify, TypeOK, Known
<1>8. ASSUME NEW c \in Calls, Ingest(c)
      PROVE  TypeOK'
  <2>1. calls[c].nonce \in Nonces /\ calls[c].at \in 0..MaxNow
    BY <1>8 DEF Ingest, TypeOK, Idle, Call
  <2>2. seen_nonces' \subseteq [nonce : Nonces, seen_at : 0..MaxNow]
    BY <1>8, <2>1 DEF Ingest, TypeOK, Session!Remember
  <2>3. applied' \in [Nonces -> Nat] /\ calls' \in [Calls -> Call \cup {Idle}]
    BY <1>8, <2>1 DEF Ingest, TypeOK
  <2> QED
    BY <1>8, <2>2, <2>3 DEF Ingest, TypeOK, Known
<1>9. ASSUME NEW c \in Calls, CallEnds(c)
      PROVE  TypeOK'
  BY <1>9 DEF CallEnds, TypeOK, Known
<1>10. CASE Tick
  BY <1>10 DEF Tick, TypeOK, Known
<1>11. CASE UNCHANGED vars
  BY <1>11 DEF vars, TypeOK, Known
<1> QED
  BY <1>1, <1>2, <1>3, <1>4, <1>5, <1>6, <1>7, <1>8, <1>9, <1>10, <1>11 DEF Next

(* Tables, requests and calls keep their types.                            *)
THEOREM TypeCorrect == Spec => []TypeOK
<1>1. Init => TypeOK
  BY AccessAssumption DEF Init, TypeOK, Known, Idle
<1> QED
  BY <1>1, NextKeepsTypes, PTL DEF Spec

-----------------------------------------------------------------------------
(* The registration limit.  A window's counter may be deleted while it     *)
(* still has members; but then some call was stamped two windows later,    *)
(* and no call stamped in the deleted window can still come.               *)

Members(w) == {d \in Known : devices[d].window = w}

Counted ==
  \A w \in DOMAIN windows : Cardinality(Members(w)) <= windows[w]

Closed(w) == \E t \in 0..now : w + 1 < Window(t)

ForgottenSafely ==
  \A w \in Windows : w \notin DOMAIN windows =>
    \/ Members(w) = {}
    \/ Closed(w) /\ Cardinality(Members(w)) <= MaxPerMinute

RInv == TypeOK /\ IsFiniteSet(Known) /\ Counted /\ ForgottenSafely

(* A time at most one window later is at most one window number later.     *)
LEMMA NextWindow ==
  ASSUME NEW a \in Nat, NEW b \in Nat, a <= b + Minute
  PROVE  Window(a) <= Window(b) + 1
BY AccessAssumption, SMTT(30) DEF Window

(* Window numbers are natural.                                             *)
LEMMA WindowNat == ASSUME NEW t \in Nat PROVE Window(t) \in Nat
BY AccessAssumption, SMTT(30) DEF Window

(* A registration is counted, and reopens no window that was forgotten.    *)
LEMMA RegisterKeepsLimit ==
  ASSUME RInv, NEW d \in Devices, NEW k \in Tokens, NEW t \in Session!ReceivedAt,
         RegisterNew(d, k, t)
  PROVE  RInv'
<1> DEFINE w == Window(t)
<1> USE AccessAssumption
<1>1. t \in 0..MaxNow /\ t <= now /\ now <= t + MaxDelay /\ now \in Nat
  BY ReceivedAtRange DEF RInv, TypeOK
<1>2. TypeOK'
  BY <1>1, RegisterKeepsTypes DEF RInv
<1>3. /\ d \notin Known /\ WindowOpen(w) /\ now' = now
      /\ windows' = [v \in KeptWindows(w) |-> IF v = w THEN Attempts(w) + 1 ELSE windows[v]]
      /\ Known' = Known \cup {d}
      /\ devices'[d].window = w
      /\ \A e \in Known : devices'[e] = devices[e]
  BY DEF RegisterNew, Known
<1>4. /\ w \in Windows /\ Windows \subseteq Nat
      /\ DOMAIN windows \subseteq Windows
      /\ \A v \in DOMAIN windows : windows[v] \in 1..MaxPerMinute
  BY <1>1, WindowNat DEF RInv, TypeOK, Windows, Window
<1>5. IsFiniteSet(Known')
  BY <1>3, FS_AddElement DEF RInv
<1>6. \A v \in Windows : IsFiniteSet(Members(v)) /\ Cardinality(Members(v)) \in Nat
  BY FS_Subset, FS_CardinalityType DEF RInv, Members
<1>7. \A v \in Windows : v # w => Members(v)' = Members(v)
  BY <1>3 DEF Members
<1>8. Members(w)' = Members(w) \cup {d}
  BY <1>3 DEF Members
<1>9. Cardinality(Members(w)') = Cardinality(Members(w)) + 1
  <2>1. d \notin Members(w)
    BY <1>3 DEF Members
  <2>2. IsFiniteSet(Members(w))
    BY <1>4, <1>6
  <2>3. Cardinality(Members(w) \cup {d}) = Cardinality(Members(w)) + 1
    BY <2>1, <2>2, FS_AddElement
  <2> QED
    BY <1>8, <2>3
<1>10. Cardinality(Members(w)) <= Attempts(w)
  <2>1. CASE w \in DOMAIN windows
    BY <2>1 DEF RInv, Counted, Attempts
  <2>2. CASE w \notin DOMAIN windows
    <3>1. \A u \in 0..now : Window(u) <= w + 1
      BY <1>1, NextWindow
    <3>2. ~Closed(w)
      BY <1>1, <1>4, <3>1, WindowNat DEF Closed
    <3>3. Members(w) = {}
      BY <1>4, <2>2, <3>2 DEF RInv, ForgottenSafely
    <3> QED
      BY <2>2, <3>3, FS_EmptySet DEF Attempts
  <2> QED
    BY <2>1, <2>2
<1>11. Counted'
  <2> SUFFICES ASSUME NEW v \in DOMAIN windows'
               PROVE  Cardinality(Members(v)') <= windows'[v]
    BY DEF Counted
  <2>1. v \in DOMAIN windows \cup {w}
    BY <1>3 DEF KeptWindows
  <2>2. CASE v = w
    <3>1. windows'[w] = Attempts(w) + 1 /\ Attempts(w) \in Nat
      BY <1>3, <1>4, <2>2 DEF KeptWindows, Attempts
    <3>2. Cardinality(Members(w)) \in Nat
      BY <1>4, <1>6
    <3>3. Cardinality(Members(w)') <= windows'[w]
      BY <1>9, <1>10, <3>1, <3>2
    <3> QED
      BY <2>2, <3>3
  <2>3. CASE v # w
    BY <1>3, <1>4, <1>7, <2>1, <2>3 DEF RInv, Counted, KeptWindows
  <2> QED
    BY <2>2, <2>3
<1>12. ForgottenSafely'
  <2> SUFFICES ASSUME NEW v \in Windows, v \notin DOMAIN windows'
               PROVE  \/ Members(v)' = {}
                      \/ Closed(v)' /\ Cardinality(Members(v)') <= MaxPerMinute
    BY DEF ForgottenSafely
  <2>1. v # w
    BY <1>3, <1>4 DEF KeptWindows
  <2>2. CASE v \notin DOMAIN windows
    BY <1>3, <1>7, <2>1, <2>2 DEF RInv, ForgottenSafely, Closed
  <2>3. CASE v \in DOMAIN windows
    <3>1. v + 1 < w
      BY <1>3, <1>4, <2>3 DEF KeptWindows
    <3>2. Closed(v)'
      BY <1>1, <1>3, <3>1 DEF Closed
    <3>3. Cardinality(Members(v)) <= MaxPerMinute
      BY <1>4, <1>6, <2>3 DEF RInv, Counted
    <3> QED
      BY <1>7, <2>1, <3>2, <3>3
  <2> QED
    BY <2>2, <2>3
<1> QED
  BY <1>2, <1>5, <1>11, <1>12 DEF RInv

(* No other step moves a device into a window.                             *)
LEMMA OthersKeepLimit ==
  ASSUME RInv, TypeOK', UNCHANGED windows, now' \in Nat, now <= now',
         Known' = Known, \A e \in Known : devices'[e].window = devices[e].window
  PROVE  RInv'
<1>1. \A w : Members(w)' = Members(w)
  BY DEF Members
<1>2. \A w : Closed(w) => Closed(w)'
  BY DEF Closed, RInv, TypeOK
<1> QED
  BY <1>1, <1>2 DEF RInv, Counted, ForgottenSafely

(* However late calls arrive and whichever counters are deleted, a window  *)
(* admits at most MaxPerMinute new devices.                                *)
THEOREM RegistrationIsBounded == Spec => []RegistrationBounded
<1>1. Init => RInv
  <2>1. ASSUME Init PROVE TypeOK
    BY <2>1, AccessAssumption DEF Init, TypeOK, Known, Idle
  <2>2. ASSUME Init PROVE Known = {} /\ DOMAIN windows = {}
    BY <2>2 DEF Init, Known
  <2> QED
    BY <2>1, <2>2, FS_EmptySet DEF RInv, Counted, ForgottenSafely, Members
<1>2. RInv /\ [Next]_vars => RInv'
  <2> SUFFICES ASSUME RInv, [Next]_vars PROVE RInv'
    OBVIOUS
  <2>1. TypeOK' /\ TypeOK
    BY NextKeepsTypes DEF RInv
  <2>2. ASSUME NEW d \in Devices, NEW k \in Tokens, NEW t \in Session!ReceivedAt,
               RegisterNew(d, k, t)
        PROVE  RInv'
    BY <2>2, RegisterKeepsLimit
  <2>3. ASSUME NEW d \in Devices, RevokeDevice(d) \/ EnableDevice(d)
        PROVE  RInv'
    <3>1. Known' = Known /\ \A e \in Known : devices'[e].window = devices[e].window
      BY <2>1, <2>3 DEF RevokeDevice, EnableDevice, TypeOK, Known
    <3>2. UNCHANGED <<windows, now>>
      BY <2>3 DEF RevokeDevice, EnableDevice
    <3> QED
      BY <2>1, <3>1, <3>2, OthersKeepLimit DEF TypeOK
  <2>4. CASE UNCHANGED <<devices, windows>> /\ now' \in {now, now + 1}
    BY <2>1, <2>4, OthersKeepLimit DEF TypeOK, Known
  <2> QED
    BY <2>2, <2>3, <2>4 DEF Next, RegisterKnownOrLimited, Sign, Authorize, Verify, Ingest,
       CallEnds, Tick, vars
<1>3. RInv => RegistrationBounded
  <2> SUFFICES ASSUME RInv, NEW w \in Windows
               PROVE  Cardinality(Members(w)) <= MaxPerMinute
    BY DEF RegistrationBounded, Members
  <2>1. IsFiniteSet(Members(w)) /\ Cardinality(Members(w)) \in Nat
    BY FS_Subset, FS_CardinalityType DEF RInv, Members
  <2>2. CASE w \in DOMAIN windows
    BY <2>1, <2>2, AccessAssumption DEF RInv, Counted, TypeOK
  <2>3. CASE w \notin DOMAIN windows
    <3>1. CASE Members(w) = {}
      BY <3>1, FS_EmptySet, AccessAssumption
    <3>2. CASE Members(w) # {}
      BY <2>3, <3>2 DEF RInv, ForgottenSafely
    <3> QED
      BY <3>1, <3>2
  <2> QED
    BY <2>2, <2>3
<1> QED
  BY <1>1, <1>2, <1>3, PTL DEF Spec
=============================================================================
