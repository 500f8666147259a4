---------------------------- MODULE LaptopProofs ----------------------------
(***************************************************************************)
(* Theorems about the processes of the laptop, for any number of them.     *)
(*                                                                         *)
(* A creation begins only while none was completed, so all that are        *)
(* completed overlapped one another, and every token that is loaded or     *)
(* enrolled is of one of them.  While no living process was started in a   *)
(* race, one lives, and past its wait for Chrome the pid file is its own.  *)
(* Every place of the configure command bounds the secrets, the initializer*)
(* and the routing by each other, and determines them while no             *)
(* configuration left secrets behind.                                      *)
(***************************************************************************)
EXTENDS Laptop, TLAPS

Steps == {"idle", "read", "store_id", "store_token", "loaded", "raised"}

Typed ==
  /\ device \in [id : Nat, token : Nat]
  /\ secrets \in [1..3 -> Nat]
  /\ call \in [Pids -> [step : Steps, id : Nat, token : Nat]]
  /\ created \in Nat /\ faults \in Nat
  /\ proc \in [Pids -> [at : Places \cup {"none"}, kind : Kinds \cup {"none"}, conf : Nat]]
  /\ conf \in Nat /\ init_file \in Nat
  /\ setup \in [at : {"idle", "secrets", "init", "config"}, done : 0..3, gen : Nat,
                previous : [1..3 -> Nat]]
  /\ setup.at = "secrets" => setup.done \in 0..2
  /\ setup.at \in {"init", "config"} => setup.done = 3
  /\ pid_file \in Pids \cup {0}

(* Creations are numbered as they begin; one that is under way or was      *)
(* completed has a number of its own.                                      *)
Numbered ==
  /\ \A n \in finished : n \in 1..created
  /\ \A c \in Pids :
       Creating(c) => call[c].id = call[c].token /\ call[c].id \in 1..created

(* A creation only begins while none was completed: whatever is under way  *)
(* or completed overlapped everything else that is or was.                 *)
Related ==
  /\ \A c, d \in Pids :
       Creating(c) /\ Creating(d) /\ c # d => Overlapped(call[c].id, call[d].id)
  /\ \A m, n \in finished : m = n \/ Overlapped(m, n)
  /\ \A n \in finished, c \in Pids : Creating(c) => Overlapped(n, call[c].id)

(* DEVICE_TOKEN, wherever it was read to, is of a completed creation.      *)
TokenKept ==
  /\ device.token = 0 => finished = {}
  /\ device.token # 0 => device.token \in finished
  /\ \A c \in Pids : call[c].step = "loaded" => call[c].token \in finished
  /\ \A r \in registry : r.token \in finished

Partner(n) == \E m \in 1..created : Overlapped(m, n)

(* What DEVICE_ID is, beside the second entry of a creation.               *)
Beside(n) ==
  \/ device.id = n
  \/ device.id # 0 /\ Overlapped(device.id, n)
  \/ device.id = 0 /\ Partner(n)

IdKept ==
  /\ device.token # 0 => Beside(device.token)
  /\ \A c \in Pids : call[c].step = "store_token" => Beside(call[c].id)
  /\ device.token = 0 /\ device.id # 0 =>
       \/ device.id \in torn
       \/ \E c \in Pids : call[c].step = "store_token" /\ call[c].id = device.id

KeyInv == Numbered /\ Related /\ TokenKept /\ IdKept

(* A call of load_or_create_device is under way in its process only.       *)
CallInv == \A p \in Pids : call[p].step # "idle" => proc[p].at = "load" /\ proc[p].conf = 0

LockInv ==
  ~raced =>
    /\ \A p, q \in Pids : Alive(p) /\ Alive(q) => p = q
    /\ \A p \in Companions : proc[p].at # "chrome" => pid_file = p

(* Secrets, initializer and routing are replaced in this order.            *)
SetupOrder ==
  /\ conf <= init_file /\ init_file <= setup.gen
  /\ \A n \in 1..3 : init_file <= secrets[n] /\ secrets[n] <= setup.gen
  /\ setup.at = "secrets" =>
       \A n \in 1..3 : /\ init_file <= setup.previous[n] /\ setup.previous[n] <= setup.gen
                       /\ n <= setup.done => secrets[n] = setup.gen
  /\ setup.at \in {"init", "config"} => \A n \in 1..3 : secrets[n] = setup.gen
  /\ setup.at = "config" => init_file = setup.gen

(* With nothing left behind, only the entries this command wrote differ    *)
(* from the routing.                                                       *)
SetupClean ==
  ~loose =>
    /\ setup.at \in {"idle", "secrets", "init"} => init_file = conf
    /\ setup.at = "idle" => \A n \in 1..3 : secrets[n] = conf
    /\ setup.at = "secrets" =>
         \A n \in 1..3 : /\ setup.previous[n] = conf
                         /\ secrets[n] = IF n <= setup.done THEN setup.gen ELSE conf

SetupInv == SetupOrder /\ SetupClean

IInv == Typed /\ KeyInv /\ CallInv /\ LockInv /\ SetupInv
-----------------------------------------------------------------------------
(* Types.                                                                  *)

LEMMA InitEstablishes == Init => IInv
<1> SUFFICES ASSUME Init
             PROVE  IInv
  OBVIOUS
<1>1. /\ device = Absent /\ call = [c \in Pids |-> NoCall] /\ created = 0 /\ faults = 0
      /\ secrets \in {[n \in 1..3 |-> 0], [n \in 1..3 |-> 1]}
      /\ proc = [p \in Pids |-> NoProcess] /\ conf = secrets[1] /\ init_file = conf
      /\ setup = [at |-> "idle", done |-> 0, gen |-> conf, previous |-> [n \in 1..3 |-> 0]]
      /\ registry = {} /\ finished = {} /\ pid_file = 0
  BY LaptopAssumption DEF Init, KeyringInit
<1>2. secrets \in [1..3 -> Nat] /\ \A n \in 1..3 : secrets[n] = conf
  BY <1>1
<1>3. Typed
  <2>1. conf \in Nat /\ init_file \in Nat
    BY <1>1, <1>2
  <2>2. setup \in [at : {"idle", "secrets", "init", "config"}, done : 0..3, gen : Nat,
                   previous : [1..3 -> Nat]] /\ setup.at = "idle"
    BY <1>1, <2>1
  <2>3. NoCall \in [step : Steps, id : Nat, token : Nat]
    BY DEF NoCall, Steps
  <2>4. NoProcess \in [at : Places \cup {"none"}, kind : Kinds \cup {"none"}, conf : Nat]
    BY DEF NoProcess
  <2>5. Absent \in [id : Nat, token : Nat]
    BY DEF Absent
  <2>6. QED
    BY <1>1, <1>2, <2>1, <2>2, <2>3, <2>4, <2>5 DEF Typed
<1>4. KeyInv
  <2>1. \A c \in Pids : call[c].step = "idle"
    BY <1>1 DEF NoCall
  <2>2. device.token = 0 /\ device.id = 0
    BY <1>1 DEF Absent
  <2>3. QED
    BY <1>1, <2>1, <2>2 DEF KeyInv, Numbered, Related, TokenKept, IdKept, Creating
<1>5. LockInv
  BY <1>1 DEF LockInv, Alive, Companions, NoProcess
<1>6. SetupInv
  <2>1. setup.at = "idle" /\ setup.gen = conf /\ conf \in Nat /\ init_file = conf
    BY <1>1, <1>2
  <2>2. SetupOrder
    BY <1>2, <2>1 DEF SetupOrder
  <2>3. SetupClean
    BY <1>2, <2>1 DEF SetupClean
  <2>4. QED
    BY <2>2, <2>3 DEF SetupInv
<1>7. CallInv
  BY <1>1 DEF CallInv, NoCall
<1>8. QED
  BY <1>3, <1>4, <1>5, <1>6, <1>7 DEF IInv

(* What a step does to the keyring's calls, seen from the device's entries.*)
Loads == \E p \in Pids : LoadsDevice(p)

(* The caller is forgotten, after its identity was enrolled or not at all. *)
Forgets(p) ==
  /\ Ended(p)
  /\ registry' = registry \/ Enrolls(p)
  /\ faults' = faults \/ faults' = faults + 1
  /\ UNCHANGED <<device, created, overlapped, finished>>

Rests ==
  /\ UNCHANGED <<device, call, created, creations, registry>>
  /\ faults' \in {faults, faults + 1, faults + 2}

LEMMA KeyMoves == Typed /\ Next => Loads \/ Rests \/ \E p \in Pids : Forgets(p)
<1> SUFFICES ASSUME Typed, Next
             PROVE  Loads \/ Rests \/ \E p \in Pids : Forgets(p)
  OBVIOUS
<1> USE DEF keyringVars, outside, files
<1>1. ASSUME NEW p \in Pids,
             \/ ChromeReady(p) \/ ChromeFails(p) \/ LoadsStored(p) \/ Initialized(p)
             \/ InitializeFails(p) \/ Finishes(p) \/ StartCommand(p) \/ ChromeMissing(p)
             \/ Spawn(p)
      PROVE  Rests
  <2>1. UNCHANGED <<keyringVars, registry>>
    BY <1>1 DEF ChromeReady, ChromeFails, LoadsStored, Initialized, InitializeFails,
         Finishes, StartCommand, ChromeMissing, Spawn
  <2>2. QED
    BY <2>1 DEF Rests
<1>2. ASSUME NEW p \in Pids,
             DeviceRaises(p) \/ Enrolls(p) \/ EnrollFails(p) \/ Crash(p) \/ ServiceKills(p)
      PROVE  Forgets(p)
  BY <1>2 DEF Forgets, DeviceRaises, Enrolls, EnrollFails, Crash, ServiceKills, Forget, Fault
<1>3. ASSUME NEW p \in Pids, Terminated(p),
             UNCHANGED <<device, created, overlapped, finished, faults, registry>>
      PROVE  Rests \/ Forgets(p)
  BY <1>3 DEF Terminated, Rests, Forgets, creations
<1>4. CASE StopCommand
  <2>1. pid_file \in Pids
    BY <1>4 DEF StopCommand, Typed
  <2>2. QED
    BY <1>3, <1>4, <2>1 DEF StopCommand
<1>5. CASE Recycle \/ OpenWindow \/ ServiceRetries \/ Configure \/ ConfigureReplaces
  BY <1>5 DEF Rests, Recycle, OpenWindow, ServiceRetries, ServiceStarts, Configure,
       ConfigureReplaces
<1>6. CASE StopButton \/ ReconnectButton
  <2>1. UNCHANGED <<device, created, overlapped, finished, faults, registry>>
    BY <1>6 DEF StopButton, ReconnectButton, Button
  <2>2. CASE \E p \in Pids : Terminated(p)
    BY <1>3, <2>1, <2>2
  <2>3. CASE ~\E p \in Pids : Terminated(p)
    BY <1>6, <2>1, <2>3 DEF StopButton, ReconnectButton, Button, Rests, creations
  <2>4. QED
    BY <2>2, <2>3
<1>7. CASE ConfigureStores
  BY <1>7 DEF ConfigureStores, StoreSecret, StoreSecretFails, Fault, Rests
<1>8. CASE ConfigureDies
  BY <1>8 DEF ConfigureDies, Fault, Rests
<1>9. QED
  BY <1>1, <1>2, <1>4, <1>5, <1>6, <1>7, <1>8 DEF Next, Loads
-----------------------------------------------------------------------------
(* The keyring.                                                            *)

LEMMA OverlapsBothWays == \A m, n : Overlapped(m, n) => Overlapped(n, m)
<1>1. \A m, n : {m, n} = {n, m}
  OBVIOUS
<1>2. QED
  BY <1>1 DEF Overlapped

(* A step that neither creates an identity nor writes an entry: whoever is *)
(* creating or has loaded afterwards was before, or has read the token that*)
(* is in the keyring, and a creation it cuts short is torn.                *)
Quiet ==
  /\ UNCHANGED <<device, created, overlapped, finished>>
  /\ torn \subseteq torn'
  /\ \A c \in Pids :
       call'[c].step \in {"store_id", "store_token"} => call'[c] = call[c]
  /\ \A c \in Pids :
       call'[c].step = "loaded" =>
         call'[c] = call[c] \/ (call'[c].token = device.token /\ device.token # 0)
  /\ \A c \in Pids :
       call[c].step = "store_token" => call'[c] = call[c] \/ call[c].id \in torn'
  /\ \A r \in registry' :
       r \in registry \/ \E c \in Pids : call[c].step = "loaded" /\ r.token = call[c].token

LEMMA QuietKeepsKey == KeyInv /\ Quiet => KeyInv'
<1> SUFFICES ASSUME KeyInv, Quiet
             PROVE  Numbered' /\ Related' /\ TokenKept' /\ IdKept'
  BY DEF KeyInv
<1>1. /\ device' = device /\ created' = created /\ overlapped' = overlapped
      /\ finished' = finished /\ torn \subseteq torn'
  BY DEF Quiet
<1>2. \A m, n : Overlapped(m, n)' <=> Overlapped(m, n)
  BY <1>1 DEF Overlapped
<1>3. \A c \in Pids : Creating(c)' => Creating(c) /\ call'[c] = call[c]
  BY DEF Quiet, Creating
<1>4. Numbered'
  BY <1>1, <1>3 DEF KeyInv, Numbered
<1>5. Related'
  BY <1>1, <1>2, <1>3 DEF KeyInv, Related
<1>6. TokenKept'
  <2>1. TokenKept
    BY DEF KeyInv
  <2>2. \A c \in Pids : call'[c].step = "loaded" => call'[c].token \in finished
    BY <2>1 DEF TokenKept, Quiet
  <2>3. \A r \in registry' : r.token \in finished
    BY <2>1 DEF TokenKept, Quiet
  <2>4. QED
    BY <1>1, <2>1, <2>2, <2>3 DEF TokenKept
<1>7. IdKept'
  <2>1. \A n : Beside(n)' <=> Beside(n)
    BY <1>1, <1>2 DEF Beside, Partner
  <2>2. \A c \in Pids : call'[c].step = "store_token" => call'[c] = call[c]
    BY DEF Quiet
  <2>3. /\ device.token # 0 => Beside(device.token)
        /\ \A c \in Pids : call'[c].step = "store_token" => Beside(call'[c].id)
    BY <2>2 DEF KeyInv, IdKept
  <2>4. ASSUME device'.token = 0, device'.id # 0
        PROVE  \/ device'.id \in torn'
               \/ \E c \in Pids : call'[c].step = "store_token" /\ call'[c].id = device'.id
    <3>1. \/ device.id \in torn
          \/ \E c \in Pids : call[c].step = "store_token" /\ call[c].id = device.id
      BY <1>1, <2>4 DEF KeyInv, IdKept
    <3>2. QED
      BY <1>1, <3>1 DEF Quiet
  <2>5. QED
    BY <1>1, <2>1, <2>3, <2>4 DEF IdKept
<1>8. QED
  BY <1>4, <1>5, <1>6, <1>7

LEMMA RestsAreQuiet == Rests => Quiet
BY DEF Rests, Quiet, creations

LEMMA ForgetsAreQuiet ==
  ASSUME NEW p \in Pids, Typed, Forgets(p)
  PROVE  Quiet
<1>1. \A c \in Pids : call'[c] = IF c = p THEN NoCall ELSE call[c]
  BY DEF Forgets, Ended, Typed
<1>2. NoCall.step = "idle"
  BY DEF NoCall
<1>3. UNCHANGED <<device, created, overlapped, finished>>
  BY DEF Forgets
<1>4. torn' = IF call[p].step = "store_token" THEN torn \cup {call[p].id} ELSE torn
  BY DEF Forgets, Ended
<1>5. \A r \in registry' :
        r \in registry \/ \E c \in Pids : call[c].step = "loaded" /\ r.token = call[c].token
  BY DEF Forgets, Enrolls
<1>6. /\ \A c \in Pids :
           call'[c].step \in {"store_id", "store_token", "loaded"} => call'[c] = call[c]
      /\ \A c \in Pids : call[c].step = "store_token" => call'[c] = call[c] \/ call[c].id \in torn'
  BY <1>1, <1>2, <1>4
<1>7. QED
  BY <1>3, <1>4, <1>5, <1>6 DEF Quiet

LEMMA ReadIdKeepsKey ==
  ASSUME NEW p \in Pids, Typed, KeyInv, ReadId(p), UNCHANGED registry
  PROVE  KeyInv'
<1>1. /\ call[p].step = "idle"
      /\ \A c \in Pids : call'[c] =
           IF c = p THEN [step |-> "read", id |-> device.id, token |-> 0] ELSE call[c]
  BY DEF ReadId, Typed
<1>2. /\ \A c \in Pids : c # p => call'[c] = call[c]
      /\ call'[p].step = "read"
  BY <1>1
<1>3. Quiet
  BY <1>1, <1>2 DEF Quiet, ReadId, creations
<1>4. QED
  BY <1>3, QuietKeepsKey

(* A new identity is only made up while no creation was completed; it      *)
(* overlaps whatever is being created then.                                *)
LEMMA CreationKeepsKey ==
  ASSUME NEW p \in Pids, Typed, KeyInv, device.token = 0,
         created' = created + 1, call[p].step = "read",
         call' = [call EXCEPT ![p] = [step |-> "store_id", id |-> created', token |-> created']],
         overlapped' = overlapped \cup
           {{created', call[d].id} : d \in {other \in Callers \ {p} : Creating(other)}},
         UNCHANGED <<device, torn, finished, registry>>
  PROVE  KeyInv'
<1>1. created \in Nat /\ finished = {} /\ device.token = 0
  BY DEF Typed, KeyInv, TokenKept
<1>2. /\ \A c \in Pids : c # p => call'[c] = call[c]
      /\ call'[p].step = "store_id" /\ call'[p].id = created + 1 /\ call'[p].token = created + 1
  BY DEF Typed
<1>3. \A m, n : Overlapped(m, n) => Overlapped(m, n)'
  BY DEF Overlapped
<1>4. \A d \in Pids : d # p /\ Creating(d) => {created', call[d].id} \in overlapped'
  <2> SUFFICES ASSUME NEW d \in Pids, d # p, Creating(d)
               PROVE  {created', call[d].id} \in overlapped'
    OBVIOUS
  <2>1. d \in {other \in Callers \ {p} : Creating(other)}
    BY LaptopAssumption
  <2>2. QED
    BY <2>1
<1>5. \A c \in Pids : c # p => (Creating(c)' <=> Creating(c))
  BY <1>2 DEF Creating
<1>6. Numbered'
  <2>1. \A c \in Pids : c # p /\ Creating(c)' =>
          call'[c].id = call'[c].token /\ call'[c].id \in 1..created
    BY <1>2, <1>5 DEF KeyInv, Numbered
  <2>2. created + 1 \in 1..created' /\ \A n \in 1..created : n \in 1..created'
    BY <1>1
  <2>3. \A c \in Pids : Creating(c)' => call'[c].id = call'[c].token /\ call'[c].id \in 1..created'
    BY <1>2, <2>1, <2>2
  <2>4. finished' = {}
    BY <1>1
  <2>5. QED
    BY <2>3, <2>4 DEF Numbered
<1>7. Related'
  <2>1. ASSUME NEW c \in Pids, NEW d \in Pids, Creating(c)', Creating(d)', c # d
        PROVE  {call'[c].id, call'[d].id} \in overlapped'
    <3>1. CASE c = p
      <4>1. call'[c].id = created' /\ call'[d] = call[d] /\ Creating(d)
        BY <1>2, <1>5, <2>1, <3>1
      <4>2. QED
        BY <1>4, <2>1, <3>1, <4>1
    <3>2. CASE d = p
      <4>1. call'[d].id = created' /\ call'[c] = call[c] /\ Creating(c)
        BY <1>2, <1>5, <2>1, <3>2
      <4>2. {created', call[c].id} \in overlapped'
        BY <1>4, <2>1, <3>2, <4>1
      <4>3. {call'[c].id, call'[d].id} = {created', call[c].id}
        BY <4>1
      <4>4. QED
        BY <4>2, <4>3
    <3>3. CASE c # p /\ d # p
      <4>1. Overlapped(call[c].id, call[d].id)
        BY <1>5, <2>1, <3>3 DEF KeyInv, Related
      <4>2. QED
        BY <1>2, <3>3, <4>1 DEF Overlapped
    <3>4. QED
      BY <3>1, <3>2, <3>3
  <2>2. finished' = {}
    BY <1>1
  <2>3. QED
    BY <2>1, <2>2 DEF Related, Overlapped
<1>8. TokenKept'
  BY <1>1, <1>2 DEF KeyInv, TokenKept
<1>9. IdKept'
  <2>1. \A n : Beside(n) => (Beside(n))'
    <3>1. \A m \in 1..created : m \in 1..created'
      BY <1>1
    <3>2. \A n : Partner(n) => Partner(n)'
      BY <1>3, <3>1 DEF Partner
    <3>3. QED
      BY <1>3, <3>2 DEF Beside
  <2>2. \A c \in Pids : call'[c].step = "store_token" => c # p /\ call'[c] = call[c]
    BY <1>2
  <2>3. \A c \in Pids : call'[c].step = "store_token" => Beside(call'[c].id)
    BY <2>2 DEF KeyInv, IdKept
  <2>4. \A c \in Pids : call[c].step = "store_token" => call'[c] = call[c]
    BY <1>2
  <2>5. device'.token = 0 /\ device'.id # 0 =>
          \/ device'.id \in torn'
          \/ \E c \in Pids : call'[c].step = "store_token" /\ call'[c].id = device'.id
    BY <2>4 DEF KeyInv, IdKept
  <2>6. device'.token = 0
    BY <1>1
  <2>7. QED
    BY <2>1, <2>3, <2>5, <2>6 DEF IdKept
<1>10. QED
  BY <1>6, <1>7, <1>8, <1>9 DEF KeyInv

LEMMA ReadTokenKeepsKey ==
  ASSUME NEW p \in Pids, Typed, KeyInv, ReadToken(p), UNCHANGED registry
  PROVE  KeyInv'
<1>1. call[p].step = "read" /\ UNCHANGED <<device, torn, finished>>
  BY DEF ReadToken
<1>2. CASE /\ device.token # 0
           /\ call' = [call EXCEPT ![p] =
                         [step |-> "loaded", id |-> call[p].id, token |-> device.token]]
           /\ UNCHANGED <<created, overlapped>>
  <2>1. \A c \in Pids : call'[c] =
          IF c = p THEN [step |-> "loaded", id |-> call[p].id, token |-> device.token] ELSE call[c]
    BY <1>2 DEF Typed
  <2>2. /\ \A c \in Pids : c # p => call'[c] = call[c]
        /\ call'[p].step = "loaded" /\ call'[p].token = device.token
    BY <2>1
  <2>3. Quiet
    BY <1>1, <1>2, <2>2 DEF Quiet
  <2>4. QED
    BY <2>3, QuietKeepsKey
<1>3. CASE /\ NoIdentity(call[p].id, device.token)
           /\ created' = created + 1
           /\ call' = [call EXCEPT ![p] =
                         [step |-> "store_id", id |-> created', token |-> created']]
           /\ overlapped' = overlapped \cup
                {{created', call[d].id} : d \in {other \in Callers \ {p} : Creating(other)}}
  <2>1. device.token = 0
    BY <1>3 DEF NoIdentity
  <2>2. QED
    BY <1>1, <1>3, <2>1, CreationKeepsKey
<1>4. CASE call' = [call EXCEPT ![p].step = "raised"] /\ UNCHANGED <<created, overlapped>>
  <2>1. /\ \A c \in Pids : c # p => call'[c] = call[c]
        /\ call'[p].step = "raised"
    BY <1>4 DEF Typed
  <2>2. Quiet
    BY <1>1, <1>4, <2>1 DEF Quiet
  <2>3. QED
    BY <2>2, QuietKeepsKey
<1>5. QED
  BY <1>2, <1>3, <1>4 DEF ReadToken

(* The new DEVICE_ID overlapped whatever else has an entry or writes one.  *)
LEMMA StoreIdKeepsKey ==
  ASSUME NEW p \in Pids, Typed, KeyInv, StoreId(p), UNCHANGED registry
  PROVE  KeyInv'
<1>1. /\ call[p].step = "store_id" /\ Creating(p)
      /\ UNCHANGED <<created, overlapped, torn, finished>>
  BY DEF StoreId, Creating, creations
<1>2. CASE Fault /\ call' = [call EXCEPT ![p].step = "raised"] /\ UNCHANGED device
  <2>1. /\ \A c \in Pids : c # p => call'[c] = call[c]
        /\ call'[p].step = "raised"
    BY <1>2 DEF Typed
  <2>2. Quiet
    BY <1>1, <1>2, <2>1 DEF Quiet
  <2>3. QED
    BY <2>2, QuietKeepsKey
<1>3. CASE /\ device' = [device EXCEPT !.id = call[p].id]
           /\ call' = [call EXCEPT ![p].step = "store_token"]
  <2>1. device'.id = call[p].id /\ device'.token = device.token
    BY <1>3 DEF Typed
  <2>2. /\ \A c \in Pids : c # p => call'[c] = call[c]
        /\ call'[p].step = "store_token" /\ call'[p].id = call[p].id /\ call'[p].token = call[p].token
    BY <1>3 DEF Typed
  <2>3. \A c \in Pids : (Creating(c)' <=> Creating(c)) /\ call'[c].id = call[c].id
                        /\ call'[c].token = call[c].token
    BY <1>1, <2>2 DEF Creating
  <2>4. \A m, n : Overlapped(m, n)' <=> Overlapped(m, n)
    BY <1>1 DEF Overlapped
  <2>5. Numbered'
    BY <1>1, <2>3 DEF KeyInv, Numbered
  <2>6. Related'
    BY <1>1, <2>3, <2>4 DEF KeyInv, Related
  <2>7. TokenKept'
    BY <1>1, <2>1, <2>2 DEF KeyInv, TokenKept
  <2>8. IdKept'
    <3>1. call[p].id # 0
      BY <1>1 DEF KeyInv, Numbered, Typed
    <3>2. \A n : Beside(n)' <=> call[p].id = n \/ Overlapped(call[p].id, n)
      BY <2>1, <2>4, <3>1 DEF Beside
    <3>3. device.token # 0 => Overlapped(call[p].id, device.token)
      BY <1>1, OverlapsBothWays DEF KeyInv, Related, TokenKept
    <3>4. \A c \in Pids : c # p /\ Creating(c) => Overlapped(call[p].id, call[c].id)
      BY <1>1 DEF KeyInv, Related
    <3>5. \A c \in Pids : call'[c].step = "store_token" => Creating(c)
      BY <2>3 DEF Creating
    <3>6. QED
      BY <2>1, <2>2, <2>3, <3>2, <3>3, <3>4, <3>5 DEF IdKept
  <2>9. QED
    BY <2>5, <2>6, <2>7, <2>8 DEF KeyInv
<1>4. QED
  BY <1>2, <1>3 DEF StoreId

(* The creation is completed: it overlapped all completed before.          *)
LEMMA CompletionKeepsKey ==
  ASSUME NEW p \in Pids, Typed, KeyInv, call[p].step = "store_token",
         device' = [device EXCEPT !.token = call[p].token],
         call' = [call EXCEPT ![p].step = "loaded"],
         finished' = finished \cup {call[p].id},
         UNCHANGED <<created, overlapped, torn, registry>>
  PROVE  KeyInv'
<1>1. device'.id = device.id /\ device'.token = call[p].token
  BY DEF Typed
<1>2. /\ \A c \in Pids : c # p => call'[c] = call[c]
      /\ call'[p].step = "loaded" /\ call'[p].id = call[p].id /\ call'[p].token = call[p].token
  BY DEF Typed
<1>3. Creating(p) /\ \A c \in Pids : Creating(c)' => c # p /\ Creating(c) /\ call'[c] = call[c]
  BY <1>2 DEF Creating
<1>4. \A m, n : Overlapped(m, n)' <=> Overlapped(m, n)
  BY DEF Overlapped
<1>5. call[p].id = call[p].token /\ call[p].id \in 1..created /\ call[p].id # 0
  BY <1>3 DEF KeyInv, Numbered, Typed
<1>6. Numbered'
  BY <1>3, <1>5 DEF KeyInv, Numbered
<1>7. Related'
  <2>1. /\ \A n \in finished : Overlapped(n, call[p].id) /\ Overlapped(call[p].id, n)
        /\ \A c \in Pids : c # p /\ Creating(c) => Overlapped(call[p].id, call[c].id)
    BY <1>3, OverlapsBothWays DEF KeyInv, Related
  <2>2. /\ \A c, d \in Pids :
             Creating(c)' /\ Creating(d)' /\ c # d => Overlapped(call'[c].id, call'[d].id)
        /\ \A n \in finished, c \in Pids : Creating(c)' => Overlapped(n, call'[c].id)
        /\ \A m, n \in finished : m = n \/ Overlapped(m, n)
    BY <1>3 DEF KeyInv, Related
  <2>3. \A c \in Pids : Creating(c)' => Overlapped(call[p].id, call'[c].id)
    BY <1>3, <2>1
  <2>4. \A m, n \in finished' : m = n \/ Overlapped(m, n)
    BY <2>1, <2>2
  <2>5. \A n \in finished', c \in Pids : Creating(c)' => Overlapped(n, call'[c].id)
    BY <2>2, <2>3
  <2>6. QED
    BY <1>4, <2>2, <2>4, <2>5 DEF Related
<1>8. TokenKept'
  BY <1>1, <1>2, <1>5 DEF KeyInv, TokenKept
<1>9. IdKept'
  <2>1. \A n : Beside(n)' <=> Beside(n)
    BY <1>1, <1>4 DEF Beside, Partner
  <2>2. Beside(call[p].id) /\ \A c \in Pids : call'[c].step = "store_token" => Beside(call'[c].id)
    BY <1>2 DEF KeyInv, IdKept
  <2>3. QED
    BY <1>1, <1>5, <2>1, <2>2 DEF IdKept
<1>10. QED
  BY <1>6, <1>7, <1>8, <1>9 DEF KeyInv

(* The rollback takes the DEVICE_ID from whatever overlapped the creation. *)
LEMMA RollbackKeepsKey ==
  ASSUME NEW p \in Pids, Typed, KeyInv, call[p].step = "store_token",
         device' = DeleteId,
         call' = [call EXCEPT ![p].step = "raised"],
         UNCHANGED <<created, overlapped, torn, finished, registry>>
  PROVE  KeyInv'
<1>1. device'.id = 0 /\ device'.token = device.token
  BY DEF Typed, DeleteId
<1>2. /\ \A c \in Pids : c # p => call'[c] = call[c]
      /\ call'[p].step = "raised"
  BY DEF Typed
<1>3. Creating(p) /\ \A c \in Pids : Creating(c)' => c # p /\ Creating(c) /\ call'[c] = call[c]
  BY <1>2 DEF Creating
<1>4. \A m, n : Overlapped(m, n)' <=> Overlapped(m, n)
  BY DEF Overlapped
<1>5. call[p].id \in 1..created
  BY <1>3 DEF KeyInv, Numbered
<1>6. Numbered'
  BY <1>3 DEF KeyInv, Numbered
<1>7. Related'
  BY <1>3, <1>4 DEF KeyInv, Related
<1>8. TokenKept'
  BY <1>1, <1>2 DEF KeyInv, TokenKept
<1>9. IdKept'
  <2>1. \A n : Overlapped(call[p].id, n) => Beside(n)'
    BY <1>1, <1>4, <1>5 DEF Beside, Partner
  <2>2. device.token # 0 => Overlapped(call[p].id, device.token)
    BY <1>3, OverlapsBothWays DEF KeyInv, Related, TokenKept
  <2>3. \A c \in Pids : call'[c].step = "store_token" => Overlapped(call[p].id, call'[c].id)
    <3>1. \A c \in Pids : call'[c].step = "store_token" => Creating(c)'
      BY DEF Creating
    <3>2. QED
      BY <1>3, <3>1 DEF KeyInv, Related
  <2>4. QED
    BY <1>1, <2>1, <2>2, <2>3 DEF IdKept
<1>10. QED
  BY <1>6, <1>7, <1>8, <1>9 DEF KeyInv

LEMMA StoreTokenKeepsKey ==
  ASSUME NEW p \in Pids, Typed, KeyInv, StoreToken(p), UNCHANGED registry
  PROVE  KeyInv'
<1>1. call[p].step = "store_token" /\ UNCHANGED <<created, overlapped>>
  BY DEF StoreToken
<1>2. CASE /\ device' = [device EXCEPT !.token = call[p].token]
           /\ call' = [call EXCEPT ![p].step = "loaded"]
           /\ finished' = finished \cup {call[p].id}
           /\ UNCHANGED torn
  BY <1>1, <1>2, CompletionKeepsKey
<1>3. CASE /\ device' = DeleteId
           /\ call' = [call EXCEPT ![p].step = "raised"]
           /\ UNCHANGED <<torn, finished>>
  BY <1>1, <1>3, RollbackKeepsKey
<1>4. CASE /\ call' = [call EXCEPT ![p].step = "raised"]
           /\ torn' = torn \cup {call[p].id}
           /\ UNCHANGED <<device, finished>>
  <2>1. /\ \A c \in Pids : c # p => call'[c] = call[c]
        /\ call'[p].step = "raised"
    BY <1>4 DEF Typed
  <2>2. Quiet
    BY <1>1, <1>4, <2>1 DEF Quiet
  <2>3. QED
    BY <2>2, QuietKeepsKey
<1>5. QED
  BY <1>2, <1>3, <1>4 DEF StoreToken

LEMMA NextKeepsKey == Typed /\ KeyInv /\ Next => KeyInv'
<1> SUFFICES ASSUME Typed, KeyInv, Next
             PROVE  KeyInv'
  OBVIOUS
<1>1. ASSUME NEW p \in Pids, LoadsDevice(p)
      PROVE  KeyInv'
  <2>1. UNCHANGED registry
    BY <1>1 DEF LoadsDevice, outside
  <2>2. QED
    BY <1>1, <2>1, ReadIdKeepsKey, ReadTokenKeepsKey, StoreIdKeepsKey, StoreTokenKeepsKey
       DEF LoadsDevice
<1>2. QED
  BY <1>1, KeyMoves, RestsAreQuiet, ForgetsAreQuiet, QuietKeepsKey DEF Loads
-----------------------------------------------------------------------------
(* The processes and the pid file.                                         *)

(* A process ends, a living one goes on, or one begins.                    *)
Gone(p) ==
  /\ Alive(p)
  /\ proc' = [proc EXCEPT ![p] = NoProcess]
  /\ call' = [call EXCEPT ![p] = NoCall] \/ (call' = call /\ call[p].step = "idle")
  /\ pid_file' \in {pid_file, 0}
  /\ UNCHANGED raced

Goes(p) ==
  /\ Alive(p)
  /\ \A q \in Pids : q # p => proc'[q] = proc[q]
  /\ proc'[p].at # "none"
  /\ call' = [call EXCEPT ![p] = NoCall] \/ (call' = call /\ call[p].step = "idle")
  /\ \/ pid_file' \in {p, pid_file} /\ (proc'[p].kind = "start" \/ proc'[p].at = "chrome")
     \/ pid_file' = p
     \/ pid_file' = pid_file /\ proc[p].kind # "start" /\ proc[p].at # "chrome"
  /\ UNCHANGED raced

Comes(p) ==
  /\ \A q \in Pids : q # p => proc'[q] = proc[q]
  /\ ~Alive(p)
  /\ proc'[p].kind = "start" \/ proc'[p].at = "chrome"
  /\ UNCHANGED <<call, pid_file>>
  /\ ~raced' => /\ ~Starting /\ (Companions = {} \/ ~AlreadyRunning)
                /\ ~raced \/ \A q \in Pids : ~Alive(q)

Stays ==
  /\ UNCHANGED <<proc, pid_file, raced>>
  /\ UNCHANGED call \/ Loads

LEMMA ProcMoves ==
  Typed /\ CallInv /\ Next => Stays \/ \E p \in Pids : Gone(p) \/ Goes(p) \/ Comes(p)
<1> SUFFICES ASSUME Typed, CallInv, Next
             PROVE  Stays \/ \E p \in Pids : Gone(p) \/ Goes(p) \/ Comes(p)
  OBVIOUS
<1> USE DEF keyringVars, outside, files
<1>1. \A p \in Pids : proc[p].at # "none" => Alive(p)
  BY DEF Alive
<1>2. \A p \in Pids : proc[p].at # "load" \/ proc[p].conf # 0 => call[p].step = "idle"
  BY DEF CallInv
<1>3. \A p \in Pids : call[p].step # "idle" => Alive(p)
  BY DEF CallInv, Alive
<1>4. ASSUME NEW p \in Pids, NEW well, Leaves(p, well), Alive(p), UNCHANGED raced,
             Forget(p) \/ (UNCHANGED call /\ call[p].step = "idle")
      PROVE  Gone(p)
  BY <1>4 DEF Leaves, PidFileAfter, Gone, Forget, Ended
<1>5. ASSUME NEW p \in Pids, NEW x, proc' = [proc EXCEPT ![p].at = x]
      PROVE  /\ \A q \in Pids : q # p => proc'[q] = proc[q]
             /\ proc'[p].at = x /\ proc'[p].kind = proc[p].kind
  BY <1>5 DEF Typed
<1>6. ASSUME NEW p \in Pids, ChromeReady(p)
      PROVE  Goes(p)
  BY <1>1, <1>2, <1>5, <1>6 DEF ChromeReady, Goes
<1>7. ASSUME NEW p \in Pids, ChromeFails(p)
      PROVE  Gone(p)
  BY <1>1, <1>2, <1>4, <1>7 DEF ChromeFails
<1>8. ASSUME NEW p \in Pids, LoadsDevice(p)
      PROVE  Stays
  BY <1>8 DEF LoadsDevice, Loads, Stays
<1>9. ASSUME NEW p \in Pids, DeviceRaises(p) \/ EnrollFails(p)
      PROVE  Gone(p)
  BY <1>3, <1>4, <1>9 DEF DeviceRaises, EnrollFails
<1>10. ASSUME NEW p \in Pids, GoesOn(p), Alive(p), proc[p].at # "chrome", UNCHANGED <<pid_file, raced>>,
              call' = [call EXCEPT ![p] = NoCall] \/ (call' = call /\ call[p].step = "idle")
       PROVE  Goes(p)
  <2>1. CASE proc[p].kind = "start"
    <3>1. proc' = [proc EXCEPT ![p].at = "spawn"]
      BY <1>10, <2>1 DEF GoesOn
    <3>2. /\ \A q \in Pids : q # p => proc'[q] = proc[q]
          /\ proc'[p].at = "spawn" /\ proc'[p].kind = proc[p].kind
      BY <1>5, <3>1
    <3>3. QED
      BY <1>10, <2>1, <3>2 DEF Goes
  <2>2. CASE proc[p].kind # "start"
    <3>1. proc' = [proc EXCEPT ![p].at = "run"]
      BY <1>10, <2>2 DEF GoesOn
    <3>2. /\ \A q \in Pids : q # p => proc'[q] = proc[q]
          /\ proc'[p].at = "run" /\ proc'[p].kind = proc[p].kind
      BY <1>5, <3>1
    <3>3. QED
      BY <1>10, <2>2, <3>2 DEF Goes
  <2>3. QED
    BY <2>1, <2>2
<1>11. ASSUME NEW p \in Pids, Enrolls(p)
       PROVE  Goes(p)
  <2>1. proc[p].at # "chrome"
    BY <1>11 DEF Enrolls, CallInv
  <2>2. QED
    BY <1>3, <1>10, <1>11, <2>1 DEF Enrolls, Forget, Ended
<1>12. ASSUME NEW p \in Pids, LoadsStored(p)
       PROVE  Gone(p) \/ Goes(p)
  <2>1. Alive(p) /\ call[p].step = "idle" /\ UNCHANGED <<call, raced>> /\ proc[p].at # "chrome"
    BY <1>1, <1>2, <1>12 DEF LoadsStored
  <2>2. CASE Leaves(p, FALSE)
    BY <1>4, <2>1, <2>2
  <2>3. CASE proc' = [proc EXCEPT ![p].at = "initialize"] /\ UNCHANGED pid_file
    BY <1>5, <2>1, <2>3 DEF Goes
  <2>4. QED
    BY <1>12, <2>2, <2>3 DEF LoadsStored
<1>13. ASSUME NEW p \in Pids, Initialized(p)
       PROVE  Goes(p)
  BY <1>1, <1>2, <1>10, <1>13 DEF Initialized
<1>14. ASSUME NEW p \in Pids, InitializeFails(p) \/ Finishes(p) \/ ChromeMissing(p)
       PROVE  Gone(p)
  BY <1>1, <1>2, <1>4, <1>14 DEF InitializeFails, Finishes, ChromeMissing
<1>15. ASSUME NEW p \in Pids, Crash(p) \/ ServiceKills(p)
       PROVE  Gone(p)
  BY <1>1, <1>15 DEF Crash, ServiceKills, Forget, Ended, Dies, Gone
<1>16. ASSUME NEW p \in Pids, NEW kind, NEW place, Begins(p, kind, place)
       PROVE  /\ \A q \in Pids : q # p => proc'[q] = proc[q]
              /\ ~Alive(p) /\ proc'[p].kind = kind /\ proc'[p].at = place
  BY <1>16 DEF Begins, Free, Typed
<1>17. ASSUME NEW p \in Pids, StartCommand(p)
       PROVE  Comes(p)
  BY <1>16, <1>17 DEF StartCommand, Comes
<1>18. ASSUME NEW p \in Pids, ServiceStarts(p), UNCHANGED <<call, pid_file>>
       PROVE  Comes(p)
  BY <1>16, <1>18 DEF ServiceStarts, Comes
<1>19. ASSUME NEW p \in Pids, Spawn(p)
       PROVE  Goes(p)
  <2>1. /\ \A q \in Pids : q # p => proc'[q] = proc[q]
        /\ proc'[p].at = "chrome"
    BY <1>19 DEF Spawn, Typed
  <2>2. QED
    BY <1>1, <1>2, <1>19, <2>1 DEF Spawn, Goes
<1>20. ASSUME NEW p \in Pids, Terminated(p), Alive(p), UNCHANGED <<pid_file, raced>>
       PROVE  Gone(p) \/ Goes(p)
  <2>1. CASE proc[p].at \in {"run", "stopping"}
    <3>1. proc' = [proc EXCEPT ![p].at = "stopping"] /\ call' = call
      BY <1>20, <2>1 DEF Terminated
    <3>2. CASE proc[p].kind = "start"
      BY <1>2, <1>5, <1>20, <2>1, <3>1, <3>2 DEF Goes
    <3>3. CASE proc[p].kind # "start"
      BY <1>2, <1>5, <1>20, <2>1, <3>1, <3>3 DEF Goes
    <3>4. QED
      BY <3>2, <3>3
  <2>2. CASE proc[p].at \notin {"run", "stopping"}
    BY <1>20, <2>2 DEF Terminated, Ended, Gone
  <2>3. QED
    BY <2>1, <2>2
<1>21. CASE StopCommand
  <2>1. pid_file \in Pids /\ Alive(pid_file)
    BY <1>21 DEF StopCommand, Typed
  <2>2. QED
    BY <1>20, <1>21, <2>1 DEF StopCommand
<1>22. CASE Recycle \/ Configure \/ ConfigureStores \/ ConfigureReplaces \/ ConfigureDies
  BY <1>22 DEF Recycle, Configure, ConfigureStores, ConfigureReplaces, ConfigureDies,
       StoreSecret, StoreSecretFails, Stays
<1>23. CASE OpenWindow \/ ServiceRetries
  BY <1>18, <1>23 DEF OpenWindow, ServiceRetries
<1>24. CASE StopButton \/ ReconnectButton
  <2>1. UNCHANGED <<pid_file, raced>>
    BY <1>24 DEF StopButton, ReconnectButton, Button
  <2>2. \/ \E p \in Pids : Alive(p) /\ Terminated(p)
        \/ UNCHANGED <<proc, call>>
    BY <1>24 DEF StopButton, ReconnectButton, Button
  <2>3. QED
    BY <1>20, <2>1, <2>2 DEF Stays
<1>25. QED
  BY <1>6, <1>7, <1>8, <1>9, <1>11, <1>12, <1>13, <1>14, <1>15, <1>17, <1>19, <1>21, <1>22,
     <1>23, <1>24 DEF Next

LEMMA NextKeepsCalls == Typed /\ CallInv /\ Next => CallInv'
<1> SUFFICES ASSUME Typed, CallInv, Next
             PROVE  CallInv'
  OBVIOUS
<1>1. \A p \in Pids : (call' = [call EXCEPT ![p] = NoCall] =>
                         /\ \A q \in Pids : q # p => call'[q] = call[q]
                         /\ call'[p].step = "idle")
  BY DEF Typed, NoCall
<1>2. ASSUME NEW p \in Pids, Gone(p)
      PROVE  CallInv'
  <2>1. \A q \in Pids : q # p => proc'[q] = proc[q] /\ call'[q] = call[q]
    BY <1>1, <1>2 DEF Gone, Typed
  <2>2. call'[p].step = "idle"
    BY <1>1, <1>2 DEF Gone
  <2>3. QED
    BY <2>1, <2>2 DEF CallInv
<1>3. ASSUME NEW p \in Pids, Goes(p)
      PROVE  CallInv'
  <2>1. \A q \in Pids : q # p => proc'[q] = proc[q] /\ call'[q] = call[q]
    BY <1>1, <1>3 DEF Goes
  <2>2. call'[p].step = "idle"
    BY <1>1, <1>3 DEF Goes
  <2>3. QED
    BY <2>1, <2>2 DEF CallInv
<1>4. ASSUME NEW p \in Pids, Comes(p)
      PROVE  CallInv'
  <2>1. call[p].step = "idle"
    BY <1>4 DEF Comes, Alive, CallInv
  <2>2. \A q \in Pids : q # p => proc'[q] = proc[q]
    BY <1>4 DEF Comes
  <2>3. UNCHANGED call
    BY <1>4 DEF Comes
  <2>4. QED
    BY <2>1, <2>2, <2>3 DEF CallInv
<1>5. ASSUME Stays
      PROVE  CallInv'
  <2>1. CASE UNCHANGED call
    BY <1>5, <2>1 DEF Stays, CallInv
  <2>2. CASE Loads
    <3>1. PICK p \in Pids : LoadsDevice(p)
      BY <2>2 DEF Loads
    <3>2. \A q \in Pids : q # p => call'[q] = call[q]
      BY <3>1 DEF LoadsDevice, ReadId, ReadToken, StoreId, StoreToken, Typed
    <3>3. proc[p].at = "load" /\ proc[p].conf = 0 /\ UNCHANGED proc
      BY <3>1 DEF LoadsDevice
    <3>4. QED
      BY <3>2, <3>3 DEF CallInv
  <2>3. QED
    BY <1>5, <2>1, <2>2 DEF Stays
<1>6. QED
  BY <1>2, <1>3, <1>4, <1>5, ProcMoves

LEMMA NextKeepsLock == Typed /\ CallInv /\ LockInv /\ Next => LockInv'
<1> SUFFICES ASSUME Typed, CallInv, LockInv, Next, ~raced'
             PROVE  /\ \A p, q \in Pids : Alive(p)' /\ Alive(q)' => p = q
                    /\ \A p \in Companions' : proc'[p].at # "chrome" => pid_file' = p
  BY DEF LockInv
<1>1. ASSUME ~raced
      PROVE  /\ \A p, q \in Pids : Alive(p) /\ Alive(q) => p = q
             /\ \A p \in Pids : Alive(p) /\ proc[p].kind # "start" /\ proc[p].at # "chrome"
                                => pid_file = p
  BY <1>1 DEF LockInv, Companions
<1>2. ASSUME NEW p \in Pids, Gone(p)
      PROVE  \A q \in Pids : ~Alive(q)'
  <2>1. ~raced /\ Alive(p)
    BY <1>2 DEF Gone
  <2>2. \A q \in Pids : Alive(q)' => q # p /\ Alive(q)
    BY <1>2 DEF Gone, Alive, NoProcess, Typed
  <2>3. QED
    BY <1>1, <2>1, <2>2
<1>3. ASSUME NEW p \in Pids, Goes(p)
      PROVE  /\ \A q \in Pids : Alive(q)' => q = p
             /\ proc'[p].kind = "start" \/ proc'[p].at = "chrome" \/ pid_file' = p
  <2>1. ~raced /\ Alive(p)
    BY <1>3 DEF Goes
  <2>2. \A q \in Pids : q # p /\ Alive(q)' => Alive(q)
    BY <1>3 DEF Goes, Alive
  <2>3. proc[p].kind # "start" /\ proc[p].at # "chrome" => pid_file = p
    BY <1>1, <2>1
  <2>4. proc'[p].kind = "start" \/ proc'[p].at = "chrome" \/ pid_file' = p
    BY <1>3, <2>3 DEF Goes
  <2>5. QED
    BY <1>1, <2>1, <2>2, <2>4
<1>4. ASSUME NEW p \in Pids, Comes(p)
      PROVE  /\ \A q \in Pids : Alive(q)' => q = p
             /\ proc'[p].kind = "start" \/ proc'[p].at = "chrome"
  <2>1. ~Starting /\ (Companions = {} \/ ~AlreadyRunning) /\ (~raced \/ \A q \in Pids : ~Alive(q))
    BY <1>4 DEF Comes
  <2>2. ASSUME NEW q \in Pids, Alive(q)
        PROVE  FALSE
    <3>1. q \in Companions /\ proc[q].at # "chrome"
      BY <2>1, <2>2 DEF Starting, Companions
    <3>2. pid_file = q /\ q # 0
      BY <1>1, <2>1, <2>2, <3>1, LaptopAssumption DEF Companions
    <3>3. QED
      BY <2>1, <2>2, <3>1, <3>2 DEF AlreadyRunning, ProcessAlive
  <2>3. \A q \in Pids : q # p => ~Alive(q)'
    BY <1>4, <2>2 DEF Comes, Alive
  <2>4. QED
    BY <1>4, <2>3 DEF Comes
<1>5. ASSUME Stays
      PROVE  LockInv'
  BY <1>5 DEF Stays, LockInv, Companions, Alive
<1>6. \A q : q \in Companions' => q \in Pids /\ Alive(q)' /\ proc'[q].kind # "start"
  BY DEF Companions
<1>7. CASE \E p \in Pids : Gone(p)
  BY <1>2, <1>6, <1>7
<1>8. CASE \E p \in Pids : Goes(p) \/ Comes(p)
  <2>1. PICK p \in Pids : Goes(p) \/ Comes(p)
    BY <1>8
  <2>2. /\ \A q \in Pids : Alive(q)' => q = p
        /\ proc'[p].kind = "start" \/ proc'[p].at = "chrome" \/ pid_file' = p
    BY <1>3, <1>4, <2>1
  <2>3. QED
    BY <1>6, <2>2
<1>9. CASE Stays
  BY <1>5, <1>9 DEF LockInv
<1>10. QED
  BY <1>7, <1>8, <1>9, ProcMoves
-----------------------------------------------------------------------------
(* The configure command.                                                  *)

SetupRests == UNCHANGED <<secrets, setup, files, loose>>

LEMMA SetupMoves ==
  Next => SetupRests \/ Configure \/ ConfigureStores \/ ConfigureReplaces \/ ConfigureDies
<1> SUFFICES ASSUME Next, ~(Configure \/ ConfigureStores \/ ConfigureReplaces \/ ConfigureDies)
             PROVE  SetupRests
  OBVIOUS
<1> USE DEF keyringVars, outside, files
<1>1. ASSUME NEW p \in Pids,
             \/ ChromeReady(p) \/ ChromeFails(p) \/ LoadsStored(p) \/ Initialized(p)
             \/ InitializeFails(p) \/ Finishes(p) \/ StartCommand(p) \/ ChromeMissing(p)
             \/ Spawn(p)
      PROVE  SetupRests
  <2>1. UNCHANGED <<keyringVars, files, setup>>
    BY <1>1 DEF ChromeReady, ChromeFails, LoadsStored, Initialized, InitializeFails,
         Finishes, StartCommand, ChromeMissing, Spawn
  <2>2. QED
    BY <2>1 DEF SetupRests
<1>2. ASSUME NEW p \in Pids,
             DeviceRaises(p) \/ Enrolls(p) \/ EnrollFails(p) \/ Crash(p) \/ ServiceKills(p)
      PROVE  SetupRests
  BY <1>2 DEF SetupRests, DeviceRaises, Enrolls, EnrollFails, Crash, ServiceKills, Forget
<1>3. ASSUME NEW p \in Pids, LoadsDevice(p)
      PROVE  SetupRests
  BY <1>3 DEF SetupRests, LoadsDevice, ReadId, ReadToken, StoreId, StoreToken
<1>4. CASE StopCommand \/ StopButton \/ ReconnectButton
  BY <1>4 DEF StopCommand, StopButton, ReconnectButton, Button, SetupRests
<1>5. CASE Recycle \/ OpenWindow \/ ServiceRetries
  BY <1>5 DEF SetupRests, Recycle, OpenWindow, ServiceRetries
<1>6. QED
  BY <1>1, <1>2, <1>3, <1>4, <1>5 DEF Next

(* What the configure command reads, of the types.                         *)
SetupFacts ==
  /\ secrets \in [1..3 -> Nat] /\ conf \in Nat /\ init_file \in Nat
  /\ setup.gen \in Nat /\ setup.previous \in [1..3 -> Nat] /\ setup.done \in Nat
  /\ setup.at = "secrets" => setup.done \in 0..2

LEMMA TypedSetup == Typed => SetupFacts
BY DEF Typed, SetupFacts

(* The next secret is written.                                             *)
LEMMA StoreKeepsSetup ==
  ASSUME Typed, SetupInv, setup.at = "secrets", UNCHANGED files,
         StoreSecret(setup.done + 1, setup.gen),
         setup' = [setup EXCEPT !.done = @ + 1, !.at = IF setup.done = 2 THEN "init" ELSE @]
  PROVE  SetupInv'
<1>1. SetupFacts /\ setup.done \in 0..2 /\ UNCHANGED <<conf, init_file, loose>>
  BY TypedSetup DEF SetupFacts, StoreSecret, files
<1>2. /\ setup'.done = setup.done + 1 /\ setup'.gen = setup.gen
      /\ setup'.previous = setup.previous
      /\ setup'.at = IF setup.done = 2 THEN "init" ELSE "secrets"
  BY DEF Typed
<1>3. \A n \in 1..3 : secrets'[n] = IF n = setup.done + 1 THEN setup.gen ELSE secrets[n]
  BY <1>1 DEF StoreSecret, SetupFacts
<1>4. SetupOrder'
  <2>1. /\ conf <= init_file /\ init_file <= setup.gen
        /\ \A n \in 1..3 : init_file <= secrets[n] /\ secrets[n] <= setup.gen
        /\ \A n \in 1..3 : /\ init_file <= setup.previous[n] /\ setup.previous[n] <= setup.gen
                           /\ n <= setup.done => secrets[n] = setup.gen
    BY DEF SetupInv, SetupOrder
  <2>2. \A n \in 1..3 : init_file <= secrets'[n] /\ secrets'[n] <= setup.gen
    BY <1>1, <1>3, <2>1 DEF SetupFacts
  <2>3. \A n \in 1..3 : n <= setup.done + 1 => secrets'[n] = setup.gen
    BY <1>1, <1>3, <2>1 DEF SetupFacts
  <2>4. setup.done = 2 => \A n \in 1..3 : secrets'[n] = setup.gen
    BY <2>3
  <2>5. QED
    BY <1>1, <1>2, <2>1, <2>2, <2>3, <2>4 DEF SetupOrder
<1>5. SetupClean'
  <2> SUFFICES ASSUME ~loose
               PROVE  SetupClean'
    BY <1>1 DEF SetupClean
  <2>1. /\ init_file = conf
        /\ \A n \in 1..3 : /\ setup.previous[n] = conf
                           /\ secrets[n] = IF n <= setup.done THEN setup.gen ELSE conf
    BY DEF SetupInv, SetupClean
  <2>2. \A n \in 1..3 : secrets'[n] = IF n <= setup.done + 1 THEN setup.gen ELSE conf
    BY <1>1, <1>3, <2>1 DEF SetupFacts
  <2>3. QED
    BY <1>1, <1>2, <2>1, <2>2 DEF SetupClean
<1>6. QED
  BY <1>4, <1>5 DEF SetupInv

(* A configuration is over: what it leaves is in order, and clean when the *)
(* secrets are again those of the routing.                                 *)
LEMMA OverKeepsSetup ==
  ASSUME Typed, SetupInv, setup' = SetupOver, UNCHANGED <<conf, init_file>>,
         \A n \in 1..3 : init_file <= secrets'[n] /\ secrets'[n] <= setup.gen,
         ~loose' => init_file = conf /\ \A n \in 1..3 : secrets'[n] = conf
  PROVE  SetupInv'
<1>1. setup'.at = "idle" /\ setup'.gen = setup.gen
  BY DEF SetupOver, Typed
<1>2. conf <= init_file /\ init_file <= setup.gen
  BY DEF SetupInv, SetupOrder
<1>3. SetupOrder'
  BY <1>1, <1>2 DEF SetupOrder
<1>4. SetupClean'
  BY <1>1 DEF SetupClean
<1>5. QED
  BY <1>3, <1>4 DEF SetupInv

(* The write of a secret raises, and a restoration may raise as well.      *)
LEMMA RefusalKeepsSetup ==
  ASSUME Typed, SetupInv, setup.at = "secrets", UNCHANGED files,
         StoreSecretFails(setup.done + 1, setup.previous), setup' = SetupOver
  PROVE  SetupInv'
<1>1. SetupFacts /\ setup.done \in 0..2 /\ UNCHANGED <<conf, init_file>>
  BY TypedSetup DEF SetupFacts, files
<1>2. PICK restored : restored = Restored(setup.done + 1, setup.previous)
  OBVIOUS
<1>3. /\ restored \in [1..3 -> Nat]
      /\ \A n \in 1..3 : restored[n] = IF n <= setup.done THEN setup.previous[n] ELSE secrets[n]
  BY <1>1, <1>2 DEF Restored, SetupFacts
<1>4. \/ secrets' = restored /\ loose' = loose
      \/ loose' = TRUE /\ \E m \in 1..3 : secrets' = [restored EXCEPT ![m] = secrets[m]]
  <2>1. \A m \in 1..((setup.done + 1) - 1) : m \in 1..3
    BY <1>1
  <2>2. QED
    BY <1>2, <2>1 DEF StoreSecretFails
<1>5. \A n \in 1..3 : /\ init_file <= secrets[n] /\ secrets[n] <= setup.gen
                      /\ init_file <= setup.previous[n] /\ setup.previous[n] <= setup.gen
  BY DEF SetupInv, SetupOrder
<1>6. \A n \in 1..3 : secrets'[n] \in {secrets[n], setup.previous[n]}
  BY <1>3, <1>4
<1>7. \A n \in 1..3 : init_file <= secrets'[n] /\ secrets'[n] <= setup.gen
  BY <1>5, <1>6
<1>8. ASSUME ~loose'
      PROVE  init_file = conf /\ \A n \in 1..3 : secrets'[n] = conf
  <2>1. ~loose /\ secrets' = restored
    BY <1>4, <1>8
  <2>2. /\ init_file = conf
        /\ \A n \in 1..3 : /\ setup.previous[n] = conf
                           /\ secrets[n] = IF n <= setup.done THEN setup.gen ELSE conf
    BY <2>1 DEF SetupInv, SetupClean
  <2>3. QED
    BY <1>3, <2>1, <2>2
<1>9. QED
  BY <1>1, <1>7, <1>8, OverKeepsSetup

LEMMA ReplacementKeepsSetup == Typed /\ SetupInv /\ ConfigureReplaces => SetupInv'
<1> SUFFICES ASSUME Typed, SetupInv, ConfigureReplaces
             PROVE  SetupInv'
  OBVIOUS
<1>1. /\ UNCHANGED secrets /\ SetupFacts /\ loose' = (loose /\ setup.at = "init")
      /\ conf <= init_file /\ init_file <= setup.gen
      /\ \A n \in 1..3 : secrets[n] = setup.gen
  BY TypedSetup DEF ConfigureReplaces, SetupInv, SetupOrder
<1>2. CASE setup.at = "init"
  <2>1. setup' = [setup EXCEPT !.at = "config"] /\ init_file' = setup.gen /\ conf' = conf
    BY <1>2 DEF ConfigureReplaces
  <2>2. setup'.at = "config" /\ setup'.gen = setup.gen
    BY <2>1 DEF Typed
  <2>3. conf' <= init_file' /\ init_file' <= setup'.gen
    BY <1>1, <2>1, <2>2 DEF SetupFacts
  <2>4. \A n \in 1..3 : init_file' <= secrets'[n] /\ secrets'[n] <= setup'.gen
    BY <1>1, <2>1, <2>2 DEF SetupFacts
  <2>5. SetupOrder'
    BY <1>1, <2>1, <2>2, <2>3, <2>4 DEF SetupOrder
  <2>6. SetupClean'
    BY <2>2 DEF SetupClean
  <2>7. QED
    BY <2>5, <2>6 DEF SetupInv
<1>3. CASE setup.at = "config"
  <2>1. setup' = SetupOver /\ init_file' = init_file /\ conf' = setup.gen /\ init_file = setup.gen
    BY <1>3 DEF ConfigureReplaces, SetupInv, SetupOrder
  <2>2. setup'.at = "idle" /\ setup'.gen = setup.gen
    BY <2>1 DEF SetupOver, Typed
  <2>3. setup.gen <= setup.gen
    BY <1>1 DEF SetupFacts
  <2>4. SetupOrder'
    BY <1>1, <2>1, <2>2, <2>3 DEF SetupOrder
  <2>5. SetupClean'
    BY <1>1, <2>1, <2>2 DEF SetupClean
  <2>6. QED
    BY <2>4, <2>5 DEF SetupInv
<1>4. QED
  BY <1>2, <1>3 DEF ConfigureReplaces

LEMMA NextKeepsSetup == Typed /\ SetupInv /\ Next => SetupInv'
<1> SUFFICES ASSUME Typed, SetupInv, Next
             PROVE  SetupInv'
  OBVIOUS
<1>1. CASE SetupRests
  BY <1>1 DEF SetupRests, SetupInv, SetupOrder, SetupClean, files
<1>2. CASE Configure
  <2>1. /\ setup.at = "idle" /\ UNCHANGED <<secrets, loose, conf, init_file>>
        /\ setup' = [at |-> "secrets", done |-> 0, gen |-> setup.gen + 1, previous |-> secrets]
    BY <1>2 DEF Configure, keyringVars, files
  <2>2. /\ setup'.at = "secrets" /\ setup'.done = 0 /\ setup'.previous = secrets
        /\ setup'.gen = setup.gen + 1
    BY <2>1
  <2>3. \A n \in 1..3 : ~(n <= 0)
    OBVIOUS
  <2>4. SetupFacts /\ conf <= init_file /\ init_file <= setup.gen
        /\ \A n \in 1..3 : init_file <= secrets[n] /\ secrets[n] <= setup.gen
    BY TypedSetup DEF SetupInv, SetupOrder
  <2>5. /\ init_file <= setup.gen + 1
        /\ \A n \in 1..3 : secrets[n] <= setup.gen + 1
    BY <2>4 DEF SetupFacts
  <2>6. SetupOrder'
    BY <2>1, <2>2, <2>3, <2>4, <2>5 DEF SetupOrder
  <2>7. SetupClean'
    BY <2>1, <2>2, <2>3 DEF SetupInv, SetupClean
  <2>8. QED
    BY <2>6, <2>7 DEF SetupInv
<1>3. CASE ConfigureStores
  BY <1>3, StoreKeepsSetup, RefusalKeepsSetup DEF ConfigureStores
<1>4. CASE ConfigureReplaces
  BY <1>4, ReplacementKeepsSetup
<1>5. CASE ConfigureDies
  <2>1. /\ setup.at # "idle" /\ loose' = (loose \/ setup.done > 0)
        /\ setup' = SetupOver /\ UNCHANGED <<secrets, conf, init_file>>
    BY <1>5 DEF ConfigureDies, files
  <2>2. \A n \in 1..3 : init_file <= secrets'[n] /\ secrets'[n] <= setup.gen
    BY <2>1 DEF SetupInv, SetupOrder
  <2>3. ASSUME ~loose'
        PROVE  init_file = conf /\ \A n \in 1..3 : secrets'[n] = conf
    <3>1. ~loose /\ setup.done = 0
      <4>1. ~loose /\ ~(setup.done > 0)
        BY <2>1, <2>3, Zenon
      <4>2. setup.done \in Nat
        BY TypedSetup DEF SetupFacts
      <4>3. setup.done = 0
        BY <4>1, <4>2
      <4>4. QED
        BY <4>1, <4>3
    <3>2. setup.at = "secrets"
      BY <2>1, <3>1 DEF Typed
    <3>3. QED
      BY <2>1, <3>1, <3>2 DEF SetupInv, SetupClean
  <2>4. QED
    BY <2>1, <2>2, <2>3, OverKeepsSetup
<1>6. QED
  BY <1>1, <1>2, <1>3, <1>4, <1>5, SetupMoves
-----------------------------------------------------------------------------
(* Types are kept.                                                         *)

Call == [step : Steps, id : Nat, token : Nat]
Place == [at : Places \cup {"none"}, kind : Kinds \cup {"none"}, conf : Nat]

LEMMA CallsTyped ==
  Typed /\ Next =>
    /\ device' \in [id : Nat, token : Nat] /\ call' \in [Pids -> Call]
    /\ created' \in Nat /\ faults' \in Nat
<1> SUFFICES ASSUME Typed, Next
             PROVE  /\ device' \in [id : Nat, token : Nat] /\ call' \in [Pids -> Call]
                    /\ created' \in Nat /\ faults' \in Nat
  OBVIOUS
<1>1. /\ device \in [id : Nat, token : Nat] /\ call \in [Pids -> Call]
      /\ created \in Nat /\ faults \in Nat
  BY DEF Typed, Call
<1>2. CASE Rests
  BY <1>1, <1>2 DEF Rests
<1>3. ASSUME NEW p \in Pids, Forgets(p)
      PROVE  /\ device' \in [id : Nat, token : Nat] /\ call' \in [Pids -> Call]
             /\ created' \in Nat /\ faults' \in Nat
  <2>1. NoCall \in Call
    BY DEF NoCall, Call, Steps
  <2>2. call' = [call EXCEPT ![p] = NoCall]
    BY <1>3 DEF Forgets, Ended
  <2>3. call' \in [Pids -> Call]
    BY <1>1, <2>1, <2>2
  <2>4. QED
    BY <1>1, <1>3, <2>3 DEF Forgets
<1>4. ASSUME NEW p \in Pids, LoadsDevice(p)
      PROVE  /\ device' \in [id : Nat, token : Nat] /\ call' \in [Pids -> Call]
             /\ created' \in Nat /\ faults' \in Nat
  <2>1. call[p].id \in Nat /\ call[p].token \in Nat /\ device.id \in Nat /\ device.token \in Nat
    BY <1>1 DEF Call
  <2>2. \A step \in Steps, id \in Nat, token \in Nat : [step |-> step, id |-> id, token |-> token] \in Call
    BY DEF Call
  <2>3. \A step \in Steps : [call EXCEPT ![p].step = step] \in [Pids -> Call]
    BY <1>1 DEF Call
  <2>4. \A new \in Call : [call EXCEPT ![p] = new] \in [Pids -> Call]
    BY <1>1
  <2>5. {"read", "loaded", "store_id", "store_token", "raised"} \subseteq Steps
    BY DEF Steps
  <2>6. CASE ReadId(p)
    <3>1. [step |-> "read", id |-> device.id, token |-> 0] \in Call
      BY <2>1, <2>2, <2>5
    <3>2. QED
      BY <1>1, <2>4, <2>6, <3>1 DEF ReadId
  <2>7. CASE ReadToken(p)
    <3>1. created' \in Nat
      BY <1>1, <2>7 DEF ReadToken
    <3>2. /\ [step |-> "loaded", id |-> call[p].id, token |-> device.token] \in Call
          /\ [step |-> "store_id", id |-> created', token |-> created'] \in Call
      BY <2>1, <2>2, <2>5, <3>1
    <3>3. call' \in [Pids -> Call]
      BY <2>3, <2>4, <2>5, <2>7, <3>2 DEF ReadToken
    <3>4. QED
      BY <1>1, <2>7, <3>1, <3>3 DEF ReadToken
  <2>8. CASE StoreId(p)
    <3>1. call' \in [Pids -> Call]
      BY <2>3, <2>5, <2>8 DEF StoreId
    <3>2. device' \in [id : Nat, token : Nat] /\ faults' \in Nat
      BY <1>1, <2>1, <2>8 DEF StoreId, Fault
    <3>3. QED
      BY <1>1, <2>8, <3>1, <3>2 DEF StoreId
  <2>9. CASE StoreToken(p)
    <3>1. call' \in [Pids -> Call]
      BY <2>3, <2>5, <2>9 DEF StoreToken
    <3>2. device' \in [id : Nat, token : Nat]
      BY <1>1, <2>1, <2>9 DEF StoreToken, DeleteId
    <3>3. faults' \in Nat
      BY <1>1, <2>9 DEF StoreToken, Fault
    <3>4. QED
      BY <1>1, <2>9, <3>1, <3>2, <3>3 DEF StoreToken
  <2>10. QED
    BY <1>4, <2>6, <2>7, <2>8, <2>9 DEF LoadsDevice
<1>5. QED
  BY <1>2, <1>3, <1>4, KeyMoves DEF Loads

LEMMA PlacesTyped == Typed /\ Next => proc' \in [Pids -> Place]
<1> SUFFICES ASSUME Typed, Next
             PROVE  proc' \in [Pids -> Place]
  OBVIOUS
<1>1. proc \in [Pids -> Place] /\ conf \in Nat
  BY DEF Typed, Place
<1>2. /\ NoProcess \in Place
      /\ \A at \in Places, kind \in Kinds : [at |-> at, kind |-> kind, conf |-> conf] \in Place
  BY <1>1 DEF NoProcess, Place
<1>3. ASSUME NEW p \in Pids, NEW at \in Places, proc' = [proc EXCEPT ![p].at = at]
      PROVE  proc' \in [Pids -> Place]
  BY <1>1, <1>3 DEF Place
<1>4. \A p \in Pids, new \in Place : [proc EXCEPT ![p] = new] \in [Pids -> Place]
  BY <1>1
<1>5. ASSUME NEW p \in Pids, proc' = [proc EXCEPT ![p] = NoProcess]
      PROVE  proc' \in [Pids -> Place]
  BY <1>2, <1>4, <1>5
<1>6. {"chrome", "load", "initialize", "spawn", "run", "stopping"} \subseteq Places
      /\ {"service", "detached", "start"} \subseteq Kinds
  BY DEF Places, Kinds
<1>7. ASSUME NEW p \in Pids, ChromeReady(p)
      PROVE  proc' \in [Pids -> Place]
  BY <1>3, <1>6, <1>7 DEF ChromeReady
<1>8. ASSUME NEW p \in Pids, GoesOn(p)
      PROVE  proc' \in [Pids -> Place]
  BY <1>3, <1>6, <1>8 DEF GoesOn
<1>9. ASSUME NEW p \in Pids, \/ ChromeFails(p) \/ DeviceRaises(p) \/ EnrollFails(p)
                             \/ InitializeFails(p) \/ Finishes(p) \/ ChromeMissing(p)
      PROVE  proc' \in [Pids -> Place]
  BY <1>5, <1>9 DEF ChromeFails, DeviceRaises, EnrollFails, InitializeFails, Finishes,
       ChromeMissing, Leaves
<1>10. ASSUME NEW p \in Pids, Crash(p) \/ ServiceKills(p)
       PROVE  proc' \in [Pids -> Place]
  BY <1>5, <1>10 DEF Crash, ServiceKills, Dies
<1>11. ASSUME NEW p \in Pids, LoadsStored(p)
       PROVE  proc' \in [Pids -> Place]
  BY <1>3, <1>5, <1>6, <1>11 DEF LoadsStored, Leaves
<1>12. ASSUME NEW p \in Pids, NEW kind \in Kinds, NEW at \in Places, Begins(p, kind, at)
       PROVE  proc' \in [Pids -> Place]
  BY <1>2, <1>4, <1>12 DEF Begins
<1>13. ASSUME NEW p \in Pids, StartCommand(p) \/ ServiceStarts(p)
       PROVE  proc' \in [Pids -> Place]
  BY <1>6, <1>12, <1>13 DEF StartCommand, ServiceStarts
<1>14. ASSUME NEW p \in Pids, Spawn(p)
       PROVE  proc' \in [Pids -> Place]
  <2>1. [at |-> "chrome", kind |-> "detached", conf |-> conf] \in Place
    BY <1>2, <1>6
  <2>2. QED
    BY <1>4, <1>14, <2>1 DEF Spawn
<1>15. ASSUME NEW p \in Pids, Terminated(p)
       PROVE  proc' \in [Pids -> Place]
  BY <1>3, <1>5, <1>6, <1>15 DEF Terminated
<1>16. CASE StopCommand
  <2>1. pid_file \in Pids
    BY <1>16 DEF StopCommand, Typed
  <2>2. QED
    BY <1>15, <1>16, <2>1 DEF StopCommand
<1>17. CASE StopButton \/ ReconnectButton
  BY <1>1, <1>15, <1>17 DEF StopButton, ReconnectButton, Button
<1>18. CASE Recycle \/ Configure \/ ConfigureStores \/ ConfigureReplaces \/ ConfigureDies
  BY <1>1, <1>18 DEF Recycle, Configure, ConfigureStores, ConfigureReplaces, ConfigureDies
<1>19. ASSUME NEW p \in Pids, Enrolls(p) \/ Initialized(p)
       PROVE  proc' \in [Pids -> Place]
  BY <1>8, <1>19 DEF Enrolls, Initialized
<1>20. ASSUME NEW p \in Pids, LoadsDevice(p)
       PROVE  proc' \in [Pids -> Place]
  BY <1>1, <1>20 DEF LoadsDevice
<1>21. CASE OpenWindow \/ ServiceRetries
  BY <1>13, <1>21 DEF OpenWindow, ServiceRetries
<1>22. QED
  BY <1>7, <1>9, <1>10, <1>11, <1>13, <1>14, <1>16, <1>17, <1>18, <1>19, <1>20, <1>21 DEF Next

Setup == [at : {"idle", "secrets", "init", "config"}, done : 0..3, gen : Nat,
          previous : [1..3 -> Nat]]

SetupTyped ==
  /\ secrets \in [1..3 -> Nat]
  /\ conf \in Nat /\ init_file \in Nat
  /\ setup \in Setup
  /\ setup.at = "secrets" => setup.done \in 0..2
  /\ setup.at \in {"init", "config"} => setup.done = 3

LEMMA NextKeepsSetupTyped == Typed /\ Next => SetupTyped'
<1> SUFFICES ASSUME Typed, Next
             PROVE  SetupTyped'
  OBVIOUS
<1>1. SetupTyped
  BY DEF Typed, SetupTyped, Setup
<1>2. CASE SetupRests
  BY <1>1, <1>2 DEF SetupRests, SetupTyped, files
<1>3. SetupOver \in Setup /\ SetupOver.at = "idle"
  <2>1. PICK zeros \in [1..3 -> Nat] : zeros = [n \in 1..3 |-> 0]
    OBVIOUS
  <2>2. SetupOver = [setup EXCEPT !.at = "idle", !.done = 0, !.previous = zeros]
    BY <2>1 DEF SetupOver
  <2>3. setup \in Setup
    BY <1>1 DEF SetupTyped
  <2>4. SetupOver = [at |-> "idle", done |-> 0, gen |-> setup.gen, previous |-> zeros]
    BY <2>2, <2>3 DEF Setup
  <2>5. QED
    BY <2>3, <2>4 DEF Setup
<1>4. CASE Configure
  <2>1. [at |-> "secrets", done |-> 0, gen |-> setup.gen + 1, previous |-> secrets]
          \in Setup
    BY <1>1 DEF SetupTyped, Setup
  <2>2. setup'.at = "secrets" /\ setup'.done = 0 /\ setup' \in Setup
    BY <1>4, <2>1 DEF Configure
  <2>3. UNCHANGED <<secrets, conf, init_file>>
    BY <1>4 DEF Configure, keyringVars, files
  <2>4. QED
    BY <1>1, <2>2, <2>3 DEF SetupTyped
<1>5. CASE ConfigureStores
  <2>1. /\ setup.at = "secrets" /\ setup.done \in 0..2 /\ UNCHANGED <<conf, init_file>>
        /\ setup.gen \in Nat /\ setup.previous \in [1..3 -> Nat]
    BY <1>1, <1>5 DEF ConfigureStores, SetupTyped, Setup, files
  <2>2. secrets' \in [1..3 -> Nat]
    <3>1. CASE StoreSecret(setup.done + 1, setup.gen)
      BY <1>1, <2>1, <3>1 DEF StoreSecret, SetupTyped
    <3>2. CASE StoreSecretFails(setup.done + 1, setup.previous)
      <4>1. Restored(setup.done + 1, setup.previous) \in [1..3 -> Nat]
        BY <1>1, <2>1 DEF Restored, SetupTyped
      <4>2. \A m \in 1..3 : [Restored(setup.done + 1, setup.previous) EXCEPT ![m] = secrets[m]]
                              \in [1..3 -> Nat]
        BY <1>1, <4>1 DEF SetupTyped
      <4>3. \A m \in 1..((setup.done + 1) - 1) : m \in 1..3
        BY <2>1
      <4>4. QED
        BY <3>2, <4>1, <4>2, <4>3 DEF StoreSecretFails
    <3>3. QED
      BY <1>5, <3>1, <3>2 DEF ConfigureStores
  <2>3. \/ /\ setup' \in Setup /\ setup'.done = setup.done + 1
           /\ setup'.at = IF setup.done = 2 THEN "init" ELSE "secrets"
        \/ setup' = SetupOver
    <3>1. \/ setup' = [setup EXCEPT !.done = @ + 1, !.at = IF setup.done = 2 THEN "init" ELSE @]
          \/ setup' = SetupOver
      BY <1>5 DEF ConfigureStores
    <3>2. setup \in Setup /\ setup.done + 1 \in 0..3
      BY <1>1, <2>1 DEF SetupTyped
    <3>3. QED
      BY <2>1, <3>1, <3>2 DEF Setup
  <2>4. QED
    BY <1>1, <1>3, <2>1, <2>2, <2>3 DEF SetupTyped
<1>6. CASE ConfigureReplaces
  <2>1. \/ setup.at = "init" /\ setup' \in Setup /\ setup'.done = setup.done /\ setup'.at = "config"
        \/ setup' = SetupOver
    BY <1>1, <1>6 DEF ConfigureReplaces, SetupTyped, Setup
  <2>2. setup.gen \in Nat /\ init_file \in Nat /\ conf \in Nat
    BY <1>1 DEF SetupTyped, Setup
  <2>3. init_file' \in Nat /\ conf' \in Nat /\ UNCHANGED secrets
    BY <1>6, <2>2 DEF ConfigureReplaces, keyringVars
  <2>4. QED
    BY <1>1, <1>3, <2>1, <2>3 DEF SetupTyped
<1>7. CASE ConfigureDies
  BY <1>1, <1>3, <1>7 DEF ConfigureDies, SetupTyped, files
<1>8. QED
  BY <1>2, <1>4, <1>5, <1>6, <1>7, SetupMoves

LEMMA NextKeepsTyped == Typed /\ CallInv /\ Next => Typed'
<1> SUFFICES ASSUME Typed, CallInv, Next
             PROVE  Typed'
  OBVIOUS
<1>1. pid_file' \in Pids \cup {0}
  BY ProcMoves DEF Gone, Goes, Comes, Stays, Typed
<1>2. QED
  BY <1>1, CallsTyped, PlacesTyped, NextKeepsSetupTyped
     DEF Typed, SetupTyped, Call, Place, Setup
-----------------------------------------------------------------------------
(* The theorems.                                                           *)

LEMMA NextKeeps == IInv /\ [Next]_vars => IInv'
<1> SUFFICES ASSUME IInv, [Next]_vars
             PROVE  IInv'
  OBVIOUS
<1>1. CASE Next
  BY <1>1, NextKeepsTyped, NextKeepsKey, NextKeepsCalls, NextKeepsLock, NextKeepsSetup DEF IInv
<1>2. CASE UNCHANGED vars
  <2>1. UNCHANGED <<device, secrets, call, created, faults, overlapped, torn, finished, loose,
                    proc, conf, init_file, setup, pid_file, registry, raced>>
    BY <1>2 DEF vars, keyringVars, creations, files, outside
  <2>2. Typed'
    BY <2>1 DEF IInv, Typed
  <2>3. KeyInv'
    <3>1. Quiet
      BY <2>1 DEF Quiet
    <3>2. QED
      BY <3>1, QuietKeepsKey DEF IInv
  <2>4. CallInv' /\ LockInv'
    BY <2>1 DEF IInv, CallInv, LockInv, Companions, Alive
  <2>5. SetupInv'
    BY <2>1 DEF IInv, SetupInv, SetupOrder, SetupClean
  <2>6. QED
    BY <2>2, <2>3, <2>4, <2>5 DEF IInv
<1>3. QED
  BY <1>1, <1>2

(* The inductive invariant holds of the laptop's processes.                *)
THEOREM InvariantHolds == Spec => []IInv
<1>1. Init => IInv
  BY InitEstablishes
<1>2. IInv /\ [Next]_vars => IInv'
  BY NextKeeps
<1>3. QED
  BY <1>1, <1>2, PTL DEF Spec

(* Whatever number of processes create, overlap, crash, fail and undo, the *)
(* keyring holds nothing, both entries of one creation, or what is left of *)
(* one that was cut short or still stores its token, or of two that        *)
(* overlapped each other (credentials.py:112-155).                         *)
THEOREM DeviceStaysWhole == Spec => []DeviceIsWhole
<1>1. IInv => DeviceIsWhole
  <2> SUFFICES ASSUME IInv
               PROVE  DeviceIsWhole
    OBVIOUS
  <2>1. IdKept /\ device \in [id : Nat, token : Nat]
    BY DEF IInv, KeyInv, Typed
  <2>2. CASE device.token # 0
    <3>1. Beside(device.token)
      BY <2>1, <2>2 DEF IdKept
    <3>2. QED
      BY <2>1, <2>2, <3>1 DEF Beside, Partner, DeviceIsWhole, Whole
  <2>3. CASE device.token = 0 /\ device.id = 0
    BY <2>1, <2>3 DEF Absent, DeviceIsWhole
  <2>4. CASE device.token = 0 /\ device.id # 0
    BY <2>1, <2>4, LaptopAssumption DEF IdKept, DeviceIsWhole
  <2>5. QED
    BY <2>2, <2>3, <2>4
<1>2. QED
  BY <1>1, InvariantHolds, PTL

(* Whatever number of starts interleave, crash and fail, the Worker knows  *)
(* two tokens only of creations that overlapped each other, and an id with *)
(* another creation's token only if those two overlapped or the id's       *)
(* creation was never completed (credentials.py:112-155, cli.py:58-63,     *)
(* runtime.py:130-138).                                                    *)
THEOREM IdentityStaysOne == Spec => []IdentityIsOne
<1>1. IInv => IdentityIsOne
  <2> SUFFICES ASSUME IInv, NEW r \in registry, NEW s \in registry
               PROVE  /\ r.token = s.token \/ Overlapped(r.token, s.token)
                      /\ r.id = r.token \/ Overlapped(r.id, r.token) \/ r.id \notin finished
    BY DEF IdentityIsOne
  <2>1. r.token \in finished /\ s.token \in finished
    BY DEF IInv, KeyInv, TokenKept
  <2>2. \A m, n \in finished : m = n \/ Overlapped(m, n)
    BY DEF IInv, KeyInv, Related
  <2>3. QED
    BY <2>1, <2>2
<1>2. QED
  BY <1>1, InvariantHolds, PTL

(* While no living process was started in a race, there is one companion   *)
(* past its wait for Chrome at most, and the pid file is its own; this     *)
(* holds again once the processes of a race are gone                       *)
(* (cli.py:192-206, 281-283, 312-323).                                     *)
THEOREM PidFileStaysLocked == Spec => []PidFileLocks
<1>1. IInv => PidFileLocks
  BY DEF IInv, LockInv, PidFileLocks, Companions
<1>2. QED
  BY <1>1, InvariantHolds, PTL

(* Wherever configurations are refused or interrupted, the secrets are at  *)
(* least as new as the initializer, and it as the routing; all three are of*)
(* one configuration unless one left secrets behind and none was completed *)
(* since (cli.py:159-183, credentials.py:87-108).                          *)
THEOREM SetupStaysWhole == Spec => []SetupAllOrNothing
<1>1. IInv => SetupAllOrNothing
  BY DEF IInv, SetupInv, SetupOrder, SetupClean, SetupAllOrNothing
<1>2. QED
  BY <1>1, InvariantHolds, PTL
=============================================================================
