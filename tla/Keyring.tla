------------------------------ MODULE Keyring ------------------------------
(***************************************************************************)
(* The laptop's secrets (src/companion/src/draft_companion/credentials.py):*)
(* load_or_create_device, which any process may call at any time, and      *)
(* store_credentials, of which one call runs at a time.                    *)
(*                                                                         *)
(* The keyring is external: it reads and writes one entry at a time, and a *)
(* write may raise.  An entry holds the number of the creation, or of the  *)
(* configuration, its value comes from; 0 stands for no entry.             *)
(***************************************************************************)
EXTENDS Naturals, Sequences, FiniteSets

CONSTANTS
  Callers,       \* the processes that may call load_or_create_device
  MaxCreations,  \* bound on device identities made up
  MaxSetups,     \* bound on configurations
  MaxFaults      \* bound on writes that raise and processes that crash

ASSUME KeyringAssumption ==
  /\ MaxCreations \in Nat /\ MaxSetups \in Nat /\ MaxFaults \in Nat

CredentialNames ==
  <<"INGEST_HMAC_CURRENT", "CF_ACCESS_CLIENT_ID", "CF_ACCESS_CLIENT_SECRET">>

VARIABLES
  device,      \* the entries DEVICE_ID and DEVICE_TOKEN
  secrets,     \* the three credential entries, in the order they are stored
  call,        \* the load_or_create_device call of each process
  created,     \* identities made up so far
  faults,
  overlapped,  \* history: the pairs of creations that were under way at once
  torn,        \* history: the creations that left their first entry behind
  finished,    \* history: the creations that stored both entries
  loose        \* history: a configuration left secrets behind, and none was completed since

(* No action reads the history; the properties do.                         *)
creations == <<overlapped, torn, finished>>
keyringVars == <<device, secrets, call, created, faults, creations, loose>>

Identity == [id : 0..MaxCreations, token : 0..MaxCreations]
Absent == [id |-> 0, token |-> 0]
NoCall == [step |-> "idle", id |-> 0, token |-> 0]
Secrets == [1..3 -> 0..MaxSetups]

KeyringTypeOK ==
  /\ device \in Identity
  /\ secrets \in Secrets
  /\ \A c \in Callers :
       /\ call[c].step \in {"idle", "read", "store_id", "store_token", "loaded", "raised"}
       /\ call[c].id \in 0..MaxCreations /\ call[c].token \in 0..MaxCreations
  /\ created \in 0..MaxCreations
  /\ faults \in 0..MaxFaults
  /\ overlapped \subseteq SUBSET (1..created)
  /\ torn \subseteq 1..created /\ finished \subseteq 1..created
  /\ loose \in BOOLEAN

KeyringInit ==
  /\ device = Absent
  /\ secrets \in {[n \in 1..3 |-> 0], [n \in 1..3 |-> 1]}
  /\ call = [c \in Callers |-> NoCall]
  /\ created = 0 /\ faults = 0
  /\ overlapped = {} /\ torn = {} /\ finished = {} /\ loose = FALSE

Fault == faults < MaxFaults /\ faults' = faults + 1

-----------------------------------------------------------------------------
(* load_or_create_device.                                                  *)

ReadId(c) ==
  /\ call[c].step = "idle"
  /\ call' = [call EXCEPT ![c] = [step |-> "read", id |-> device.id, token |-> 0]]
  /\ UNCHANGED <<device, secrets, created, faults, creations, loose>>

Creating(c) == call[c].step \in {"store_id", "store_token"}

(* Mutant: half an identity counts as none.                                *)
NoIdentityEither(id, token) == id = 0 \/ token = 0

NoIdentity(id, token) == id = 0 /\ token = 0

(* Both entries: the identity.  Neither: a new one.  One of them: an error.*)
ReadToken(c) ==
  /\ call[c].step = "read"
  /\ LET id == call[c].id
         token == device.token
     IN  \/ /\ id # 0 /\ token # 0
            /\ call' = [call EXCEPT ![c] = [step |-> "loaded", id |-> id, token |-> token]]
            /\ UNCHANGED <<created, overlapped>>
         \/ /\ NoIdentity(id, token)
            /\ created < MaxCreations
            /\ created' = created + 1
            /\ call' = [call EXCEPT ![c] =
                          [step |-> "store_id", id |-> created', token |-> created']]
            /\ overlapped' = overlapped \cup
                 {{created', call[d].id} : d \in {other \in Callers \ {c} : Creating(other)}}
         \/ /\ (id = 0) # (token = 0)
            /\ call' = [call EXCEPT ![c].step = "raised"]
            /\ UNCHANGED <<created, overlapped>>
  /\ UNCHANGED <<device, secrets, faults, torn, finished, loose>>

StoreId(c) ==
  /\ call[c].step = "store_id"
  /\ \/ /\ device' = [device EXCEPT !.id = call[c].id]
        /\ call' = [call EXCEPT ![c].step = "store_token"]
        /\ UNCHANGED faults
     \/ /\ Fault
        /\ call' = [call EXCEPT ![c].step = "raised"]
        /\ UNCHANGED device
  /\ UNCHANGED <<secrets, created, creations, loose>>

(* Mutant: a failed second write leaves the first one behind.              *)
DeleteIdNever == device

(* The rollback of a failed second write.                                  *)
DeleteId == [device EXCEPT !.id = 0]

StoreToken(c) ==
  /\ call[c].step = "store_token"
  /\ \/ /\ device' = [device EXCEPT !.token = call[c].token]
        /\ call' = [call EXCEPT ![c].step = "loaded"]
        /\ finished' = finished \cup {call[c].id}
        /\ UNCHANGED <<faults, torn>>
     \/ /\ Fault
        /\ device' = DeleteId
        /\ call' = [call EXCEPT ![c].step = "raised"]
        /\ UNCHANGED <<torn, finished>>
     \/ /\ faults + 2 <= MaxFaults           \* both the write and its rollback raise
        /\ faults' = faults + 2
        /\ call' = [call EXCEPT ![c].step = "raised"]
        /\ torn' = torn \cup {call[c].id}
        /\ UNCHANGED <<device, finished>>
  /\ UNCHANGED <<secrets, created, overlapped, loose>>

(* The caller goes on, or is gone; between the writes it leaves one behind.*)
Ended(c) ==
  /\ call' = [call EXCEPT ![c] = NoCall]
  /\ torn' = IF call[c].step = "store_token" THEN torn \cup {call[c].id} ELSE torn

Forget(c) ==
  /\ Ended(c)
  /\ UNCHANGED <<device, secrets, created, overlapped, finished, loose>>

-----------------------------------------------------------------------------
(* store_credentials, for the configuration "gen".                         *)

(* One more of the three entries is written.                               *)
StoreSecret(n, gen) ==
  /\ secrets' = [secrets EXCEPT ![n] = gen]
  /\ UNCHANGED <<device, call, created, faults, creations, loose>>

(* Mutant: the rollback forgets the entry written last.                    *)
RestoredFirst(n, previous) == [m \in 1..3 |-> IF m < n - 1 THEN previous[m] ELSE secrets[m]]

(* The entries before n had been written when the write of n raised.       *)
Restored(n, previous) == [m \in 1..3 |-> IF m < n THEN previous[m] ELSE secrets[m]]

(* The write of entry n raises; every entry written before is restored, or *)
(* some restoration raises as well.                                        *)
StoreSecretFails(n, previous) ==
  /\ \/ /\ Fault
        /\ secrets' = Restored(n, previous)
        /\ UNCHANGED loose
     \/ /\ faults + 2 <= MaxFaults
        /\ faults' = faults + 2
        /\ \E m \in 1..(n - 1) :
             secrets' = [Restored(n, previous) EXCEPT ![m] = secrets[m]]
        /\ loose' = TRUE
  /\ UNCHANGED <<device, call, created, creations>>

-----------------------------------------------------------------------------
(* The three-entry and the two-entry store, as their callers rely on them. *)

Whole(identity) == identity.id = identity.token /\ identity.id # 0

Overlapped(m, n) == {m, n} \in overlapped

(* Whatever overlaps, crashes, fails and is undone, the keyring holds       *)
(* nothing, both entries of one creation, or what names its own cause: the *)
(* first entry of a creation that is storing its second or was cut short,  *)
(* or else, of two creations that overlapped each other, an entry of each, *)
(* or the second of one after the other's rollback took the first.  So     *)
(* creations that follow each other never mix (credentials.py:112-155).    *)
DeviceIsWhole ==
  \/ device = Absent \/ Whole(device)
  \/ /\ device.token = 0
     /\ \/ device.id \in torn
        \/ \E c \in Callers : call[c].step = "store_token" /\ call[c].id = device.id
  \/ /\ device.id # 0 /\ device.token # 0
     /\ Overlapped(device.id, device.token)
  \/ /\ device.id = 0
     /\ \E n \in 1..created : Overlapped(n, device.token)
=============================================================================
