--------------------------- MODULE AccountsProofs ---------------------------
(***************************************************************************)
(* What holds of the accounts and of the personal vault for every number   *)
(* of users, callers, devices, syncs, edits and troubles.                  *)
(*                                                                         *)
(* The key of the personal vault.  The property speaks of the keys of the  *)
(* payloads on the server and of the key the server hands out.  What       *)
(* carries it from step to step is what the devices hold in between: a     *)
(* device that looks for the key has read it from the database it has a    *)
(* token of; its local row, the key it saw and the key it has put agree    *)
(* with the server; and while the server has no key, one device at most is *)
(* making one.                                                             *)
(***************************************************************************)
EXTENDS Accounts, PersonalVault, FiniteSetTheorems, TLAPS

-----------------------------------------------------------------------------
(* The personal vault *)

\* A device between the answer of GET /v1/vaults and the end of its sync.
Window == {"ensure", "key", "put", "keep", "push"}

\* A device that has found no key and has not put one yet.
Maker(r, e) == r.token = e /\ r.pc \in {"ensure", "key", "put"} /\ r.seen.key = 0

\* What a device holds by itself, when n keys were made and e databases.
Sound(r, n, e) ==
  /\ r \in Desktop
  /\ r.token <= e /\ r.seen.key <= n /\ r.fresh <= n
  /\ \A a \in r.rows : a.of <= e /\ a.key <= n
  /\ \A a, b \in r.rows : a.of = b.of => a = b
  /\ r.pc \in Window => r.seen.of = r.token
  /\ r.pc = "put" => r.seen.key = 0
  /\ r.pc \in {"put", "keep"} =>
       r.fresh > 0 /\ \A a \in r.rows : a.of = r.seen.of => a.key = 0
  /\ r.pc = "fingerprint" => r.before \subseteq r.pending
  /\ r.pc = "wipe" => r.before = {}

\* A device agrees with the key of the database e.
Agrees(r, key, e) ==
  /\ \A a \in r.rows : a.of = e /\ a.key # 0 => a.key = key
  /\ r.token = e /\ r.pc \in Window => r.seen.key \in {0, key}
  /\ r.token = e /\ r.pc = "keep" => r.fresh = key
  /\ Maker(r, e) => key = 0

ServerSound ==
  /\ epoch \in 1 .. MaxTroubles + 1
  /\ remoteVault \in RemoteVault
  /\ remoteVault.of = epoch /\ remoteVault.key <= keysMade
  /\ itemKeys \subseteq 1 .. keysMade
  /\ {keysMade, edits, deskKills, personalResets} \subseteq Nat
  /\ raced \in BOOLEAN

DesksSound ==
  /\ desk \in [Desk -> Desktop]
  /\ \A d \in Desk : Sound(desk[d], keysMade, epoch)

KeyAgreed ==
  ~raced =>
    /\ itemKeys \subseteq {remoteVault.key}
    /\ \A d \in Desk : Agrees(desk[d], remoteVault.key, epoch)
    /\ \A d, o \in Desk : Maker(desk[d], epoch) /\ Maker(desk[o], epoch) => d = o

VaultInv == ServerSound /\ DesksSound /\ KeyAgreed

-----------------------------------------------------------------------------
(* One device *)

\* What is sound stays so when keys are made and databases replaced.
LEMMA SoundGrows ==
  ASSUME NEW r, NEW n \in Nat, NEW m \in Nat, NEW e \in Nat, NEW f \in Nat,
         n <= m, e <= f, Sound(r, n, e)
  PROVE  Sound(r, m, f)
<1>1. r \in Desktop
  BY DEF Sound
<1>2. /\ r.token \in Nat /\ r.seen.key \in Nat /\ r.fresh \in Nat
      /\ \A a \in r.rows : a.of \in Nat /\ a.key \in Nat
  BY <1>1 DEF Desktop, RemoteVault
<1> HIDE DEF Desktop
<1> QED  BY <1>1, <1>2 DEF Sound

\* A sync that ends leaves the rows and the queue.
LEMMA EndedIs ==
  ASSUME NEW r \in Desktop
  PROVE  /\ Ended(r) \in Desktop
         /\ Ended(r).pc = "idle" /\ Ended(r).token = 0 /\ Ended(r).fresh = 0
         /\ Ended(r).seen.key = 0 /\ Ended(r).before = {}
         /\ Ended(r).rows = r.rows /\ Ended(r).pending = r.pending
BY DEF Ended, Desktop, Absent, RemoteVault

LEMMA EndedIsSound ==
  ASSUME NEW r, NEW n \in Nat, NEW e \in Nat, Sound(r, n, e)
  PROVE  /\ Sound(Ended(r), n, e)
         /\ \A key : Agrees(r, key, e) => Agrees(Ended(r), key, e)
         /\ ~Maker(Ended(r), e)
<1>1. r \in Desktop
  BY DEF Sound
<1>2. PICK k : k = Ended(r)
  OBVIOUS
<1>3. /\ k \in Desktop
      /\ k.pc = "idle" /\ k.token = 0 /\ k.fresh = 0
      /\ k.seen.key = 0 /\ k.before = {}
      /\ k.rows = r.rows /\ k.pending = r.pending
  BY <1>1, <1>2, EndedIs
<1> HIDE DEF Desktop
<1>4. ~Maker(k, e)
  BY <1>3 DEF Maker
<1>5. Sound(k, n, e)
  BY <1>3 DEF Sound, Window
<1>6. \A key : Agrees(r, key, e) => Agrees(k, key, e)
  BY <1>3, <1>4 DEF Agrees, Window
<1> QED  BY <1>2, <1>4, <1>5, <1>6

\* The rows with one key set: one row for each vault, and the others as before.
LEMMA SetKeyRows ==
  ASSUME VaultInv, NEW d \in Desk, NEW v \in Nat, NEW key \in Nat
  PROVE  /\ SetKey(d, v, key) \in SUBSET [of : Nat, key : Nat]
         /\ [of |-> v, key |-> key] \in SetKey(d, v, key)
         /\ \A a \in SetKey(d, v, key) :
              \/ a.of = v /\ a.key = key
              \/ a.of # v /\ a \in desk[d].rows
         /\ \A a, b \in SetKey(d, v, key) : a.of = b.of => a = b
<1>1. /\ desk[d].rows \in SUBSET [of : Nat, key : Nat]
      /\ \A a, b \in desk[d].rows : a.of = b.of => a = b
  BY DEF VaultInv, DesksSound, Sound, Desktop
<1> QED  BY <1>1 DEF SetKey

LEMMA KeyOfRow ==
  ASSUME VaultInv, NEW d \in Desk, NEW v, HasRow(d, v)
  PROVE  /\ \E a \in desk[d].rows : a.of = v /\ a.key = KeyOf(d, v)
         /\ \A a \in desk[d].rows : a.of = v => a.key = KeyOf(d, v)
<1>1. \A a, b \in desk[d].rows : a.of = b.of => a = b
  BY DEF VaultInv, DesksSound, Sound
<1>2. PICK a \in desk[d].rows : a.of = v
  BY DEF HasRow
<1>3. PICK b : b = CHOOSE r \in desk[d].rows : r.of = v
  OBVIOUS
<1>4. b \in desk[d].rows /\ b.of = v
  BY <1>2, <1>3
<1>5. KeyOf(d, v) = b.key
  BY <1>3 DEF KeyOf
<1> QED  BY <1>1, <1>4, <1>5

\* A step of one device that leaves the key of the server.
LEMMA DeskLocal ==
  ASSUME VaultInv, ServerSound', NEW d \in Desk, NEW k,
         desk' = [desk EXCEPT ![d] = k],
         epoch' = epoch, remoteVault'.key = remoteVault.key, keysMade <= keysMade',
         raced => raced',
         raced' \/ itemKeys' \subseteq itemKeys \cup {remoteVault.key},
         Sound(k, keysMade', epoch),
         Agrees(desk[d], remoteVault.key, epoch) => Agrees(k, remoteVault.key, epoch),
         Maker(k, epoch) => \/ Maker(desk[d], epoch) \/ raced'
                            \/ \A o \in Desk \ {d} : ~Maker(desk[o], epoch)
  PROVE  VaultInv'
<1>1. /\ epoch \in Nat /\ keysMade \in Nat /\ keysMade' \in Nat
      /\ desk \in [Desk -> Desktop]
  BY DEF VaultInv, ServerSound, DesksSound
<1>2. /\ desk'[d] = k
      /\ \A o \in Desk \ {d} : desk'[o] = desk[o]
  BY <1>1
<1>3. desk' \in [Desk -> Desktop]
  BY <1>1 DEF Sound
<1>4. \A o \in Desk : Sound(desk'[o], keysMade', epoch')
  <2> TAKE o \in Desk
  <2>1. CASE o = d
    BY <2>1, <1>2
  <2>2. CASE o # d
    <3>1. Sound(desk[o], keysMade, epoch)
      BY DEF VaultInv, DesksSound
    <3>2. Sound(desk[o], keysMade', epoch)
      BY <3>1, <1>1, SoundGrows
    <3> QED  BY <3>2, <2>2, <1>2
  <2> QED  BY <2>1, <2>2
<1>5. KeyAgreed'
  <2> SUFFICES ASSUME ~raced'
               PROVE  /\ itemKeys' \subseteq {remoteVault'.key}
                      /\ \A o \in Desk : Agrees(desk'[o], remoteVault'.key, epoch')
                      /\ \A p, o \in Desk :
                           Maker(desk'[p], epoch') /\ Maker(desk'[o], epoch') => p = o
    BY DEF KeyAgreed
  <2>1. /\ itemKeys \subseteq {remoteVault.key}
        /\ \A o \in Desk : Agrees(desk[o], remoteVault.key, epoch)
        /\ \A p, o \in Desk : Maker(desk[p], epoch) /\ Maker(desk[o], epoch) => p = o
    BY DEF VaultInv, KeyAgreed
  <2>2. \A p, o \in Desk : Maker(desk'[p], epoch') /\ Maker(desk'[o], epoch') => p = o
    BY <2>1, <1>2
  <2> QED  BY <2>1, <2>2, <1>2
<1> QED  BY <1>3, <1>4, <1>5 DEF VaultInv, DesksSound

\* A step of one device that leaves the server alone.
LEMMA DeskQuiet ==
  ASSUME VaultInv, NEW d \in Desk, NEW k,
         desk' = [desk EXCEPT ![d] = k],
         UNCHANGED <<epoch, remoteVault, itemKeys, raced, keysMade>>,
         {edits', deskKills', personalResets'} \subseteq Nat,
         Sound(k, keysMade, epoch),
         \A key : Agrees(desk[d], key, epoch) => Agrees(k, key, epoch),
         Maker(k, epoch) => Maker(desk[d], epoch)
  PROVE  VaultInv'
<1>1. ServerSound'
  BY DEF VaultInv, ServerSound
<1>2. keysMade \in Nat
  BY DEF VaultInv, ServerSound
<1>3. Sound(k, keysMade', epoch)
  BY Zenon
<1>4. /\ keysMade <= keysMade' /\ remoteVault'.key = remoteVault.key
      /\ itemKeys' \subseteq itemKeys \cup {remoteVault.key}
  BY <1>2
<1> QED  BY <1>1, <1>3, <1>4, DeskLocal

-----------------------------------------------------------------------------
(* The steps *)

\* The server has no key and no payload, the devices have no row.
LEMMA VaultInitially ==
  PersonalVaultInit => VaultInv
<1> SUFFICES ASSUME PersonalVaultInit
             PROVE  VaultInv
  OBVIOUS
<1>1. ServerSound
  <2>1. epoch = 1 /\ keysMade = 0 /\ edits = 0 /\ deskKills = 0 /\ personalResets = 0
        /\ itemKeys = {}
    BY DEF PersonalVaultInit
  <2>2. remoteVault \in RemoteVault /\ remoteVault.of = 1 /\ remoteVault.key = 0
    BY DEF PersonalVaultInit, Absent, RemoteVault
  <2>3. epoch \in 1 .. MaxTroubles + 1
    BY <2>1, PersonalVaultAssumption
  <2>4. raced \in BOOLEAN
    BY Zenon DEF PersonalVaultInit
  <2> QED  BY <2>1, <2>2, <2>3, <2>4 DEF ServerSound
<1>2. \A d \in Desk : /\ desk[d] \in Desktop /\ desk[d].pc = "idle" /\ desk[d].rows = {}
                      /\ desk[d].token = 0 /\ desk[d].seen.key = 0 /\ desk[d].fresh = 0
  BY DEF PersonalVaultInit, Desktop, Absent, RemoteVault
<1>3. desk \in [Desk -> Desktop]
  BY <1>2 DEF PersonalVaultInit
<1>4. epoch = 1 /\ keysMade = 0 /\ itemKeys = {}
  BY DEF PersonalVaultInit
<1> HIDE DEF Desktop
<1>5. DesksSound
  BY <1>2, <1>3, <1>4 DEF DesksSound, Sound, Window
<1>6. KeyAgreed
  BY <1>2, <1>4 DEF KeyAgreed, Agrees, Maker, Window
<1> QED  BY <1>1, <1>5, <1>6 DEF VaultInv

LEMMA DeskLoginKeeps ==
  ASSUME VaultInv, NEW d \in Desk, DeskLogin(d)
  PROVE  VaultInv'
<1>0. /\ epoch \in Nat /\ keysMade \in Nat /\ desk \in [Desk -> Desktop]
      /\ desk[d] \in Desktop /\ Sound(desk[d], keysMade, epoch)
      /\ remoteVault \in RemoteVault
  BY DEF VaultInv, ServerSound, DesksSound
<1> DEFINE k == [desk[d] EXCEPT !.session = epoch]
<1>1. /\ k \in Desktop /\ k.pc = desk[d].pc /\ k.token = desk[d].token
      /\ k.seen = desk[d].seen /\ k.fresh = desk[d].fresh /\ k.rows = desk[d].rows
      /\ k.before = desk[d].before /\ k.pending = desk[d].pending
  BY <1>0 DEF Desktop
<1>2. desk' = [desk EXCEPT ![d] = k]
  BY <1>0 DEF DeskLogin
<1> HIDE DEF k, Desktop
<1>3. Sound(k, keysMade, epoch)
  BY <1>0, <1>1 DEF Sound
<1>4. \A key : Agrees(desk[d], key, epoch) => Agrees(k, key, epoch)
  BY <1>1 DEF Agrees, Maker
<1>5. Maker(k, epoch) => Maker(desk[d], epoch)
  BY <1>1 DEF Maker
<1>6. /\ epoch' = epoch /\ itemKeys' = itemKeys /\ raced' = raced /\ keysMade' = keysMade
      /\ remoteVault' \in RemoteVault /\ remoteVault'.key = remoteVault.key
      /\ remoteVault'.of = remoteVault.of
      /\ <<edits, deskKills, personalResets>>' = <<edits, deskKills, personalResets>>
  BY <1>0 DEF DeskLogin, RemoteVault, deskBounds
<1>7. ServerSound'
  BY <1>6 DEF VaultInv, ServerSound
<1>8. keysMade <= keysMade' /\ Sound(k, keysMade', epoch)
  BY <1>0, <1>3, <1>6
<1> QED  BY <1>2, <1>4, <1>5, <1>6, <1>7, <1>8, DeskLocal

LEMMA BeginSyncKeeps ==
  ASSUME VaultInv, NEW d \in Desk, BeginSync(d)
  PROVE  VaultInv'
<1>0. /\ epoch \in Nat /\ keysMade \in Nat /\ desk \in [Desk -> Desktop]
      /\ desk[d] \in Desktop /\ Sound(desk[d], keysMade, epoch)
      /\ remoteVault \in RemoteVault
  BY DEF VaultInv, ServerSound, DesksSound
<1> DEFINE k == [desk[d] EXCEPT !.pc = "fingerprint", !.token = epoch, !.syncs = @ + 1,
                            !.before = desk[d].pending]
<1>a. desk[d].syncs + 1 \in Nat
  BY <1>0 DEF Desktop
<1>b. desk[d].pending \in SUBSET Nat
  BY <1>0 DEF Desktop
<1>1. /\ k \in Desktop /\ k.pc = "fingerprint" /\ k.token = epoch
      /\ k.seen = desk[d].seen /\ k.fresh = desk[d].fresh /\ k.rows = desk[d].rows
      /\ k.before = desk[d].pending /\ k.pending = desk[d].pending
  BY <1>0, <1>a, <1>b DEF Desktop
<1>2. desk' = [desk EXCEPT ![d] = k]
  BY <1>0 DEF BeginSync
<1> HIDE DEF k, Desktop
<1>3. Sound(k, keysMade, epoch)
  BY <1>0, <1>1 DEF Sound, Window
<1>4. /\ \A key : Agrees(desk[d], key, epoch) => Agrees(k, key, epoch)
      /\ ~Maker(k, epoch)
  BY <1>1 DEF Agrees, Maker, Window
<1>6. /\ UNCHANGED <<epoch, remoteVault, itemKeys, raced, keysMade>>
      /\ {edits', deskKills', personalResets'} \subseteq Nat
  BY DEF BeginSync, remoteVars, deskBounds, VaultInv, ServerSound
<1> QED  BY <1>0, <1>2, <1>3, <1>4, <1>6, DeskQuiet

\* Only a storage with nothing queued is wiped.
LEMMA CheckFingerprintKeeps ==
  ASSUME VaultInv, NEW d \in Desk, CheckFingerprint(d)
  PROVE  VaultInv'
<1>0. /\ epoch \in Nat /\ keysMade \in Nat /\ desk \in [Desk -> Desktop]
      /\ desk[d] \in Desktop /\ Sound(desk[d], keysMade, epoch)
      /\ remoteVault \in RemoteVault
  BY DEF VaultInv, ServerSound, DesksSound
<1>6. /\ UNCHANGED <<epoch, remoteVault, itemKeys, raced, keysMade>>
      /\ {edits', deskKills', personalResets'} \subseteq Nat
  BY DEF CheckFingerprint, remoteVars, deskBounds, VaultInv, ServerSound
<1>8. CASE SameServer(d) \/ MayWipe(d)
  <2> DEFINE k == [desk[d] EXCEPT !.read = epoch,
                                  !.pc = IF SameServer(d) THEN "list" ELSE "wipe"]
  <2>1. /\ k \in Desktop /\ k.pc = IF SameServer(d) THEN "list" ELSE "wipe"
        /\ k.token = desk[d].token
        /\ k.seen = desk[d].seen /\ k.fresh = desk[d].fresh /\ k.rows = desk[d].rows
        /\ k.before = desk[d].before /\ k.pending = desk[d].pending
    BY <1>0 DEF Desktop
  <2>2. desk' = [desk EXCEPT ![d] = k]
    BY <1>0, <1>8 DEF CheckFingerprint
  <2> HIDE DEF k, Desktop
  <2>3. k.pc = "wipe" => k.before = {}
    BY <1>0, <1>8, <2>1 DEF CheckFingerprint, DeskAt, MayWipe, Sound
  <2>4. Sound(k, keysMade, epoch)
    BY <1>0, <2>1, <2>3 DEF Sound, Window
  <2>5. /\ \A key : Agrees(desk[d], key, epoch) => Agrees(k, key, epoch)
        /\ ~Maker(k, epoch)
    BY <2>1 DEF Agrees, Maker, Window
  <2> QED  BY <1>0, <2>2, <2>4, <2>5, <1>6, DeskQuiet
<1>9. CASE ~(SameServer(d) \/ MayWipe(d))
  <2>1. desk' = [desk EXCEPT ![d] = Ended(desk[d])]
    BY <1>0, <1>9 DEF CheckFingerprint
  <2>2. /\ Sound(Ended(desk[d]), keysMade, epoch)
        /\ \A key : Agrees(desk[d], key, epoch) => Agrees(Ended(desk[d]), key, epoch)
        /\ ~Maker(Ended(desk[d]), epoch)
    BY <1>0, EndedIsSound
  <2> QED  BY <1>6, <2>1, <2>2, DeskQuiet
<1> QED  BY <1>8, <1>9

LEMMA WipeStorageKeeps ==
  ASSUME VaultInv, NEW d \in Desk, WipeStorage(d)
  PROVE  VaultInv'
<1>0. /\ epoch \in Nat /\ keysMade \in Nat /\ desk \in [Desk -> Desktop]
      /\ desk[d] \in Desktop /\ Sound(desk[d], keysMade, epoch)
      /\ remoteVault \in RemoteVault
  BY DEF VaultInv, ServerSound, DesksSound
<1> DEFINE k == [desk[d] EXCEPT !.pc = "list", !.rows = {}, !.pending = {}]
<1>1. /\ k \in Desktop /\ k.pc = "list" /\ k.token = desk[d].token
      /\ k.seen = desk[d].seen /\ k.fresh = desk[d].fresh /\ k.rows = {}
  BY <1>0 DEF Desktop
<1>2. desk' = [desk EXCEPT ![d] = k]
  BY <1>0 DEF WipeStorage
<1> HIDE DEF k, Desktop
<1>3. Sound(k, keysMade, epoch)
  BY <1>0, <1>1 DEF Sound, Window
<1>4. /\ \A key : Agrees(desk[d], key, epoch) => Agrees(k, key, epoch)
      /\ ~Maker(k, epoch)
  BY <1>1 DEF Agrees, Maker, Window
<1>6. /\ UNCHANGED <<epoch, remoteVault, itemKeys, raced, keysMade>>
      /\ {edits', deskKills', personalResets'} \subseteq Nat
  BY DEF WipeStorage, remoteVars, deskBounds, VaultInv, ServerSound
<1> QED  BY <1>0, <1>2, <1>3, <1>4, <1>6, DeskQuiet

\* The first device that finds no key is alone, or a race was seen.
LEMMA FetchVaultsKeeps ==
  ASSUME VaultInv, NEW d \in Desk, FetchVaults(d)
  PROVE  VaultInv'
<1>0. /\ epoch \in Nat /\ keysMade \in Nat /\ desk \in [Desk -> Desktop]
      /\ desk[d] \in Desktop /\ Sound(desk[d], keysMade, epoch)
      /\ remoteVault \in RemoteVault
  BY DEF VaultInv, ServerSound, DesksSound
<1>1. /\ UNCHANGED <<epoch, remoteVault, itemKeys, keysMade>>
      /\ UNCHANGED <<edits, deskKills, personalResets>>
  BY DEF FetchVaults, remoteVars, deskBounds
<1>2. raced => raced'
  BY DEF FetchVaults
<1>3. raced' \in BOOLEAN
  BY Zenon DEF FetchVaults
<1>4. ServerSound'
  BY <1>1, <1>3 DEF VaultInv, ServerSound
<1>5. /\ keysMade <= keysMade' /\ itemKeys' \subseteq itemKeys \cup {remoteVault.key}
      /\ epoch' = epoch /\ remoteVault'.key = remoteVault.key
  BY <1>0, <1>1
<1> DEFINE stored == [desk[d] EXCEPT !.known = desk[d].read]
<1>6. /\ stored \in Desktop /\ stored.pc = desk[d].pc /\ stored.token = desk[d].token
      /\ stored.seen = desk[d].seen /\ stored.fresh = desk[d].fresh
      /\ stored.rows = desk[d].rows /\ stored.before = desk[d].before
      /\ stored.pending = desk[d].pending
  BY <1>0 DEF Desktop
<1>7. /\ Sound(stored, keysMade, epoch)
      /\ \A key : Agrees(desk[d], key, epoch) => Agrees(stored, key, epoch)
  <2> HIDE DEF stored, Desktop
  <2> QED  BY <1>0, <1>6 DEF Sound, Agrees, Maker
<1>8. CASE ~Authorized(d)
  <2>1. desk' = [desk EXCEPT ![d] = Ended(desk[d])]
    BY <1>0, <1>8 DEF FetchVaults
  <2>2. /\ Sound(Ended(desk[d]), keysMade', epoch)
        /\ \A key : Agrees(desk[d], key, epoch) => Agrees(Ended(desk[d]), key, epoch)
        /\ ~Maker(Ended(desk[d]), epoch)
    BY <1>0, <1>1, EndedIsSound
  <2> QED  BY <1>2, <1>4, <1>5, <2>1, <2>2, DeskLocal
<1>9. CASE Authorized(d) /\ remoteVault.state # "live"
  <2>1. desk' = [desk EXCEPT ![d] = Ended(stored)]
    BY <1>0, <1>9 DEF FetchVaults
  <2> HIDE DEF stored
  <2>2. /\ Sound(Ended(stored), keysMade', epoch)
        /\ \A key : Agrees(stored, key, epoch) => Agrees(Ended(stored), key, epoch)
        /\ ~Maker(Ended(stored), epoch)
    BY <1>0, <1>1, <1>7, EndedIsSound
  <2>3. \A key : Agrees(desk[d], key, epoch) => Agrees(Ended(stored), key, epoch)
    BY <1>7, <2>2
  <2> QED  BY <1>2, <1>4, <1>5, <2>1, <2>2, <2>3, DeskLocal
<1>10. CASE Authorized(d) /\ remoteVault.state = "live"
  <2> DEFINE k == [stored EXCEPT !.seen = remoteVault, !.pc = "ensure"]
  <2>1. desk' = [desk EXCEPT ![d] = k]
    BY <1>0, <1>10 DEF FetchVaults
  <2>2. /\ k \in Desktop /\ k.pc = "ensure" /\ k.token = stored.token
        /\ k.seen = remoteVault /\ k.fresh = stored.fresh
        /\ k.rows = stored.rows
    <3> HIDE DEF stored
    <3> QED  BY <1>0, <1>6 DEF Desktop
  <2> HIDE DEF stored, k, Desktop
  <2>3. k.token = epoch
    BY <1>6, <1>10, <2>2 DEF Authorized
  <2>4. Sound(k, keysMade', epoch)
    BY <1>1, <1>7, <2>2, <2>3 DEF Sound, Window, VaultInv, ServerSound
  <2>5. Agrees(desk[d], remoteVault.key, epoch) => Agrees(k, remoteVault.key, epoch)
    BY <1>6, <2>2, <2>3 DEF Agrees, Maker, Window
  <2>6. Maker(k, epoch) => \/ raced'
                           \/ \A o \in Desk \ {d} : ~Maker(desk[o], epoch)
    <3> SUFFICES ASSUME Maker(k, epoch), NEW o \in Desk \ {d}, Maker(desk[o], epoch)
                 PROVE  raced'
      OBVIOUS
    <3>1. remoteVault.key = 0
      BY <2>2 DEF Maker
    <3>2. desk[o].pc \in {"ensure", "key", "put"} /\ desk[o].seen.key = 0
      BY DEF Maker
    <3> QED  BY <3>1, <3>2 DEF FetchVaults
  <2> QED  BY <1>2, <1>4, <1>5, <2>1, <2>4, <2>5, <2>6, DeskLocal
<1> QED  BY <1>8, <1>9, <1>10

LEMMA EnsureLocalVaultKeeps ==
  ASSUME VaultInv, NEW d \in Desk, EnsureLocalVault(d)
  PROVE  VaultInv'
<1>0. /\ epoch \in Nat /\ keysMade \in Nat /\ desk \in [Desk -> Desktop]
      /\ desk[d] \in Desktop /\ Sound(desk[d], keysMade, epoch)
      /\ remoteVault \in RemoteVault
  BY DEF VaultInv, ServerSound, DesksSound
<1>1. /\ UNCHANGED <<epoch, remoteVault, itemKeys, raced, keysMade>>
      /\ {edits', deskKills', personalResets'} \subseteq Nat
  BY DEF EnsureLocalVault, remoteVars, deskBounds, VaultInv, ServerSound
<1>2. /\ desk[d].seen.of \in Nat /\ desk[d].seen.key \in Nat
      /\ desk[d].rows \in SUBSET [of : Nat, key : Nat]
  BY <1>0 DEF Desktop, RemoteVault
<1>3. PICK rows : rows = EnsuredRows(d)
  OBVIOUS
<1>4. /\ rows \in SUBSET [of : Nat, key : Nat]
      /\ \A a \in rows : \/ a.of = desk[d].seen.of /\ a.key = desk[d].seen.key
                         \/ a \in desk[d].rows
      /\ \A a, b \in rows : a.of = b.of => a = b
  <2>1. CASE HasRow(d, desk[d].seen.of)
    <3>1. rows = desk[d].rows
      BY <1>3, <2>1 DEF EnsuredRows
    <3> QED  BY <1>0, <1>2, <3>1 DEF Sound
  <2>2. CASE ~HasRow(d, desk[d].seen.of)
    <3>1. PICK v \in Nat, key \in Nat : v = desk[d].seen.of /\ key = desk[d].seen.key
      BY <1>2
    <3>2. rows = SetKey(d, v, key)
      BY <1>3, <2>2, <3>1 DEF EnsuredRows
    <3>3. /\ SetKey(d, v, key) \in SUBSET [of : Nat, key : Nat]
          /\ \A a \in SetKey(d, v, key) :
               \/ a.of = v /\ a.key = key
               \/ a.of # v /\ a \in desk[d].rows
          /\ \A a, b \in SetKey(d, v, key) : a.of = b.of => a = b
      BY SetKeyRows
    <3> QED  BY <3>1, <3>2, <3>3
  <2> QED  BY <2>1, <2>2
<1> DEFINE k == [desk[d] EXCEPT !.rows = rows, !.pc = "key"]
<1>5. desk' = [desk EXCEPT ![d] = k]
  BY <1>0, <1>3 DEF EnsureLocalVault
<1>6. /\ k \in Desktop /\ k.pc = "key" /\ k.token = desk[d].token
      /\ k.seen = desk[d].seen /\ k.fresh = desk[d].fresh /\ k.rows = rows
  BY <1>0, <1>4 DEF Desktop
<1> HIDE DEF k, Desktop
<1>7. desk[d].pc = "ensure" /\ desk[d].seen.of = desk[d].token
  BY <1>0 DEF EnsureLocalVault, DeskAt, Sound, Window
<1>8. Sound(k, keysMade, epoch)
  BY <1>0, <1>4, <1>6, <1>7 DEF Sound, Window
<1>9. \A key : Agrees(desk[d], key, epoch) => Agrees(k, key, epoch)
  BY <1>4, <1>6, <1>7 DEF Agrees, Maker, Window
<1>10. Maker(k, epoch) => Maker(desk[d], epoch)
  BY <1>6, <1>7 DEF Maker
<1> QED  BY <1>1, <1>5, <1>8, <1>9, <1>10, DeskQuiet

LEMMA MakeKeyKeeps ==
  ASSUME VaultInv, NEW d \in Desk, MakeKey(d)
  PROVE  VaultInv'
<1>0. /\ epoch \in Nat /\ keysMade \in Nat /\ desk \in [Desk -> Desktop]
      /\ desk[d] \in Desktop /\ Sound(desk[d], keysMade, epoch)
      /\ remoteVault \in RemoteVault
  BY DEF VaultInv, ServerSound, DesksSound
<1>1. desk[d].pc = "key" /\ desk[d].seen.of = desk[d].token
  BY <1>0 DEF MakeKey, DeskAt, Sound, Window
<1>2. CASE NeedsKey(d)
  <2>1. /\ UNCHANGED <<epoch, remoteVault, itemKeys, raced, edits, deskKills, personalResets>>
        /\ keysMade' = keysMade + 1
    BY <1>2 DEF MakeKey, remoteVars, deskBounds
  <2>2. ServerSound'
    <3>1. remoteVault.key \in Nat /\ remoteVault.key <= keysMade + 1
      BY <1>0 DEF VaultInv, ServerSound, RemoteVault
    <3>2. itemKeys \subseteq 1 .. keysMade + 1
      BY <1>0 DEF VaultInv, ServerSound
    <3> QED  BY <1>0, <2>1, <3>1, <3>2 DEF VaultInv, ServerSound
  <2>3. keysMade <= keysMade' /\ itemKeys' \subseteq itemKeys \cup {remoteVault.key}
    BY <1>0, <2>1
  <2> DEFINE k == [desk[d] EXCEPT !.fresh = keysMade + 1, !.pc = "put"]
  <2>4. desk' = [desk EXCEPT ![d] = k]
    BY <1>0, <1>2 DEF MakeKey
  <2>5. keysMade + 1 \in Nat
    BY <1>0
  <2>6. /\ k \in Desktop /\ k.pc = "put" /\ k.token = desk[d].token
        /\ k.seen = desk[d].seen /\ k.fresh = keysMade + 1 /\ k.rows = desk[d].rows
    BY <1>0, <2>5 DEF Desktop
  <2> HIDE DEF k, Desktop
  <2>7. /\ desk[d].seen.key = 0
        /\ \A a \in desk[d].rows : a.of = desk[d].seen.of => a.key = 0
    BY <1>2, KeyOfRow DEF NeedsKey
  <2>8. Sound(desk[d], keysMade + 1, epoch)
    BY <1>0, <2>5, SoundGrows
  <2>9. Sound(k, keysMade', epoch)
    BY <1>0, <1>1, <2>1, <2>6, <2>7, <2>8 DEF Sound, Window
  <2>10. Agrees(desk[d], remoteVault.key, epoch) => Agrees(k, remoteVault.key, epoch)
    BY <1>1, <2>6, <2>7 DEF Agrees, Maker, Window
  <2>11. Maker(k, epoch) => Maker(desk[d], epoch)
    BY <1>1, <2>6 DEF Maker
  <2> QED  BY <2>1, <2>2, <2>3, <2>4, <2>9, <2>10, <2>11, DeskLocal
<1>3. CASE ~NeedsKey(d)
  <2>1. /\ UNCHANGED <<epoch, remoteVault, itemKeys, raced, keysMade>>
        /\ {edits', deskKills', personalResets'} \subseteq Nat
    BY <1>3 DEF MakeKey, remoteVars, deskBounds, VaultInv, ServerSound
  <2> DEFINE k == [desk[d] EXCEPT !.pc = "push"]
  <2>2. desk' = [desk EXCEPT ![d] = k]
    BY <1>0, <1>3 DEF MakeKey
  <2>3. /\ k \in Desktop /\ k.pc = "push" /\ k.token = desk[d].token
        /\ k.seen = desk[d].seen /\ k.fresh = desk[d].fresh /\ k.rows = desk[d].rows
    BY <1>0 DEF Desktop
  <2> HIDE DEF k, Desktop
  <2>4. Sound(k, keysMade, epoch)
    BY <1>0, <1>1, <2>3 DEF Sound, Window
  <2>5. /\ \A key : Agrees(desk[d], key, epoch) => Agrees(k, key, epoch)
        /\ ~Maker(k, epoch)
    BY <1>1, <2>3 DEF Agrees, Maker, Window
  <2> QED  BY <2>1, <2>2, <2>4, <2>5, DeskQuiet
<1> QED  BY <1>2, <1>3

\* The only device that makes a key puts it, before there is a payload.
LEMMA PutKeyKeeps ==
  ASSUME VaultInv, NEW d \in Desk, PutKey(d)
  PROVE  VaultInv'
<1>0. /\ epoch \in Nat /\ keysMade \in Nat /\ desk \in [Desk -> Desktop]
      /\ desk[d] \in Desktop /\ Sound(desk[d], keysMade, epoch)
      /\ remoteVault \in RemoteVault
  BY DEF VaultInv, ServerSound, DesksSound
<1>1. /\ desk[d].pc = "put" /\ desk[d].seen.of = desk[d].token /\ desk[d].seen.key = 0
      /\ desk[d].fresh > 0 /\ desk[d].fresh <= keysMade /\ desk[d].fresh \in Nat
      /\ \A a \in desk[d].rows : a.of = desk[d].seen.of => a.key = 0
  BY <1>0 DEF PutKey, DeskAt, Sound, Window, Desktop
<1>2. /\ UNCHANGED <<epoch, itemKeys, raced, keysMade>>
      /\ {edits', deskKills', personalResets'} \subseteq Nat
  BY DEF PutKey, deskBounds, VaultInv, ServerSound
<1>3. CASE ~(Authorized(d) /\ remoteVault.state = "live")
  <2>1. desk' = [desk EXCEPT ![d] = Ended(desk[d])] /\ UNCHANGED remoteVault
    BY <1>0, <1>3 DEF PutKey
  <2>2. /\ Sound(Ended(desk[d]), keysMade, epoch)
        /\ \A key : Agrees(desk[d], key, epoch) => Agrees(Ended(desk[d]), key, epoch)
        /\ ~Maker(Ended(desk[d]), epoch)
    BY <1>0, EndedIsSound
  <2> QED  BY <1>2, <2>1, <2>2, DeskQuiet
<1>4. CASE Authorized(d) /\ remoteVault.state = "live"
  <2>1. remoteVault' = [remoteVault EXCEPT !.key = desk[d].fresh]
    BY <1>4 DEF PutKey
  <2>2. /\ remoteVault' \in RemoteVault /\ remoteVault'.of = remoteVault.of
        /\ remoteVault'.key = desk[d].fresh
    BY <1>0, <1>1, <2>1 DEF RemoteVault
  <2>3. ServerSound'
    BY <1>1, <1>2, <2>2 DEF VaultInv, ServerSound
  <2> DEFINE k == [desk[d] EXCEPT !.pc = "keep"]
  <2>4. desk' = [desk EXCEPT ![d] = k]
    BY <1>0, <1>4 DEF PutKey
  <2>5. /\ k \in Desktop /\ k.pc = "keep" /\ k.token = desk[d].token
        /\ k.seen = desk[d].seen /\ k.fresh = desk[d].fresh /\ k.rows = desk[d].rows
    BY <1>0 DEF Desktop
  <2>6. /\ desk'[d] = k /\ desk' \in [Desk -> Desktop]
        /\ \A o \in Desk \ {d} : desk'[o] = desk[o]
    BY <1>0, <2>4, <2>5
  <2> HIDE DEF k, Desktop
  <2>7. Sound(k, keysMade, epoch)
    BY <1>0, <1>1, <2>5 DEF Sound, Window
  <2>8. DesksSound'
    BY <1>2, <2>6, <2>7 DEF VaultInv, DesksSound
  <2>9. Maker(desk[d], epoch)
    BY <1>1, <1>4 DEF Maker, Authorized
  <2>10. KeyAgreed'
    <3> SUFFICES ASSUME ~raced
                 PROVE  /\ itemKeys' \subseteq {remoteVault'.key}
                        /\ \A o \in Desk : Agrees(desk'[o], remoteVault'.key, epoch')
                        /\ \A p, o \in Desk :
                             Maker(desk'[p], epoch') /\ Maker(desk'[o], epoch') => p = o
      BY <1>2 DEF KeyAgreed
    <3>1. /\ itemKeys \subseteq {remoteVault.key}
          /\ \A o \in Desk : Agrees(desk[o], remoteVault.key, epoch)
          /\ \A o \in Desk : Maker(desk[o], epoch) => o = d
      BY <2>9 DEF VaultInv, KeyAgreed
    <3>2. remoteVault.key = 0
      BY <2>9, <3>1 DEF Agrees
    <3>3. itemKeys' = {}
      BY <1>0, <1>2, <3>1, <3>2 DEF VaultInv, ServerSound
    <3>4. ASSUME NEW o \in Desk \ {d}
          PROVE  Agrees(desk'[o], remoteVault'.key, epoch') /\ ~Maker(desk'[o], epoch')
      <4>1. ~Maker(desk[o], epoch)
        BY <3>1
      <4>2. Agrees(desk[o], 0, epoch)
        BY <3>1, <3>2
      <4>3. ~(desk[o].token = epoch /\ desk[o].pc = "keep")
        <5>1. Sound(desk[o], keysMade, epoch)
          BY DEF VaultInv, DesksSound
        <5>2. desk[o].pc = "keep" => desk[o].fresh > 0
          BY <5>1 DEF Sound
        <5> QED  BY <4>2, <5>2 DEF Agrees
      <4>4. Agrees(desk[o], desk[d].fresh, epoch)
        BY <4>1, <4>2, <4>3 DEF Agrees
      <4> QED  BY <1>2, <2>2, <2>6, <4>1, <4>4
    <3>5. Agrees(k, desk[d].fresh, epoch) /\ ~Maker(k, epoch)
      <4>1. Agrees(desk[d], 0, epoch)
        BY <3>1, <3>2
      <4> QED  BY <1>1, <2>5, <4>1 DEF Agrees, Maker, Window
    <3> QED  BY <1>2, <2>2, <2>6, <3>3, <3>4, <3>5
  <2> QED  BY <2>3, <2>8, <2>10 DEF VaultInv
<1> QED  BY <1>3, <1>4

LEMMA KeepKeyKeeps ==
  ASSUME VaultInv, NEW d \in Desk, KeepKey(d)
  PROVE  VaultInv'
<1>0. /\ epoch \in Nat /\ keysMade \in Nat /\ desk \in [Desk -> Desktop]
      /\ desk[d] \in Desktop /\ Sound(desk[d], keysMade, epoch)
      /\ remoteVault \in RemoteVault
  BY DEF VaultInv, ServerSound, DesksSound
<1>1. /\ UNCHANGED <<epoch, remoteVault, itemKeys, raced, keysMade>>
      /\ {edits', deskKills', personalResets'} \subseteq Nat
  BY DEF KeepKey, remoteVars, deskBounds, VaultInv, ServerSound
<1>2. desk[d].seen.of \in Nat /\ desk[d].fresh \in Nat
  BY <1>0 DEF Desktop, RemoteVault
<1>3. PICK rows : rows = KeptRows(d)
  OBVIOUS
<1>4. /\ rows \in SUBSET [of : Nat, key : Nat]
      /\ \A a \in rows : \/ a.of = desk[d].seen.of /\ a.key = desk[d].fresh
                         \/ a \in desk[d].rows
      /\ \A a, b \in rows : a.of = b.of => a = b
  <2>1. PICK v \in Nat, key \in Nat : v = desk[d].seen.of /\ key = desk[d].fresh
    BY <1>2
  <2>2. rows = SetKey(d, v, key)
    BY <1>3, <2>1 DEF KeptRows
  <2>3. /\ SetKey(d, v, key) \in SUBSET [of : Nat, key : Nat]
        /\ \A a \in SetKey(d, v, key) :
             \/ a.of = v /\ a.key = key
             \/ a.of # v /\ a \in desk[d].rows
        /\ \A a, b \in SetKey(d, v, key) : a.of = b.of => a = b
    BY SetKeyRows
  <2> QED  BY <2>1, <2>2, <2>3
<1> DEFINE k == [desk[d] EXCEPT !.rows = rows, !.fresh = 0, !.pc = "push"]
<1>5. desk' = [desk EXCEPT ![d] = k]
  BY <1>0, <1>3 DEF KeepKey
<1>6. /\ k \in Desktop /\ k.pc = "push" /\ k.token = desk[d].token
      /\ k.seen = desk[d].seen /\ k.fresh = 0 /\ k.rows = rows
  BY <1>0, <1>4 DEF Desktop
<1> HIDE DEF k, Desktop
<1>7. desk[d].pc = "keep" /\ desk[d].seen.of = desk[d].token
  BY <1>0 DEF KeepKey, DeskAt, Sound, Window
<1>8. Sound(k, keysMade, epoch)
  BY <1>0, <1>4, <1>6, <1>7 DEF Sound, Window
<1>9. /\ \A key : Agrees(desk[d], key, epoch) => Agrees(k, key, epoch)
      /\ ~Maker(k, epoch)
  BY <1>4, <1>6, <1>7 DEF Agrees, Maker, Window
<1> QED  BY <1>1, <1>5, <1>8, <1>9, DeskQuiet

\* A payload is pushed under the key of the local row, which is the server's.
LEMMA PushOrSkipKeeps ==
  ASSUME VaultInv, NEW d \in Desk, PushOrSkip(d)
  PROVE  VaultInv'
<1>0. /\ epoch \in Nat /\ keysMade \in Nat /\ desk \in [Desk -> Desktop]
      /\ desk[d] \in Desktop /\ Sound(desk[d], keysMade, epoch)
      /\ remoteVault \in RemoteVault
  BY DEF VaultInv, ServerSound, DesksSound
<1> DEFINE v == desk[d].seen.of
           sends == /\ VaultUsable(d, v) /\ v \in desk[d].pending
                    /\ Authorized(d) /\ remoteVault.state = "live"
<1>1. /\ UNCHANGED <<epoch, remoteVault, raced, keysMade>>
      /\ {edits', deskKills', personalResets'} \subseteq Nat
  BY DEF PushOrSkip, deskBounds, VaultInv, ServerSound
<1>2. itemKeys' = IF sends THEN itemKeys \cup {KeyOf(d, v)} ELSE itemKeys
  BY DEF PushOrSkip
<1> DEFINE r == [desk[d] EXCEPT !.pending = IF sends THEN desk[d].pending \ {v}
                                                     ELSE desk[d].pending]
<1>3. desk' = [desk EXCEPT ![d] = Ended(r)]
  BY <1>0 DEF PushOrSkip
<1>4. /\ r \in Desktop /\ r.pc = desk[d].pc /\ r.token = desk[d].token
      /\ r.seen = desk[d].seen /\ r.fresh = desk[d].fresh /\ r.rows = desk[d].rows
      /\ r.before = desk[d].before
  BY <1>0 DEF Desktop
<1>5. desk[d].pc = "push" /\ v = desk[d].token
  BY <1>0 DEF PushOrSkip, DeskAt, Sound, Window
<1> HIDE DEF r, Desktop
<1>6. /\ Sound(r, keysMade, epoch)
      /\ \A key : Agrees(desk[d], key, epoch) => Agrees(r, key, epoch)
  BY <1>0, <1>4, <1>5 DEF Sound, Agrees, Maker, Window
<1>7. /\ Sound(Ended(r), keysMade, epoch)
      /\ \A key : Agrees(r, key, epoch) => Agrees(Ended(r), key, epoch)
      /\ ~Maker(Ended(r), epoch)
  BY <1>0, <1>6, EndedIsSound
<1>8. sends => KeyOf(d, v) \in 1 .. keysMade /\ (raced \/ KeyOf(d, v) = remoteVault.key)
  <2> SUFFICES ASSUME sends
               PROVE  /\ KeyOf(d, v) \in 1 .. keysMade
                      /\ raced \/ KeyOf(d, v) = remoteVault.key
    OBVIOUS
  <2>1. HasRow(d, v) /\ KeyOf(d, v) # 0 /\ v = epoch
    BY <1>5 DEF VaultUsable, Authorized
  <2>2. PICK a \in desk[d].rows : a.of = v /\ a.key = KeyOf(d, v)
    BY <2>1, KeyOfRow
  <2>3. a.key \in Nat /\ a.key <= keysMade
    BY <1>0, <2>2 DEF Sound, Desktop
  <2>4. ~raced => a.key = remoteVault.key
    BY <2>1, <2>2 DEF VaultInv, KeyAgreed, Agrees
  <2> QED  BY <1>0, <2>1, <2>2, <2>3, <2>4
<1>9. itemKeys' \subseteq 1 .. keysMade
  BY <1>2, <1>8 DEF VaultInv, ServerSound
<1>10. ServerSound'
  BY <1>1, <1>9 DEF VaultInv, ServerSound
<1>11. raced' \/ itemKeys' \subseteq itemKeys \cup {remoteVault.key}
  BY <1>1, <1>2, <1>8
<1>12. /\ keysMade <= keysMade' /\ epoch' = epoch /\ remoteVault'.key = remoteVault.key
       /\ raced => raced'
       /\ Sound(Ended(r), keysMade', epoch)
  BY <1>0, <1>1, <1>7
<1>13. Agrees(desk[d], remoteVault.key, epoch) => Agrees(Ended(r), remoteVault.key, epoch)
  BY <1>6, <1>7
<1> QED  BY <1>3, <1>7, <1>10, <1>11, <1>12, <1>13, DeskLocal

LEMMA EditItemKeeps ==
  ASSUME VaultInv, NEW d \in Desk, NEW v \in 1 .. epoch, EditItem(d, v)
  PROVE  VaultInv'
<1>0. /\ epoch \in Nat /\ keysMade \in Nat /\ desk \in [Desk -> Desktop]
      /\ desk[d] \in Desktop /\ Sound(desk[d], keysMade, epoch)
      /\ remoteVault \in RemoteVault
  BY DEF VaultInv, ServerSound, DesksSound
<1>1. /\ UNCHANGED <<epoch, remoteVault, itemKeys, raced, keysMade>>
      /\ {edits', deskKills', personalResets'} \subseteq Nat
  BY DEF EditItem, remoteVars, VaultInv, ServerSound
<1> DEFINE k == [desk[d] EXCEPT !.pending = @ \cup {v}]
<1>2. desk' = [desk EXCEPT ![d] = k]
  BY <1>0 DEF EditItem
<1>3. v \in Nat
  BY <1>0
<1>4. /\ k \in Desktop /\ k.pc = desk[d].pc /\ k.token = desk[d].token
      /\ k.seen = desk[d].seen /\ k.fresh = desk[d].fresh /\ k.rows = desk[d].rows
      /\ k.before = desk[d].before /\ desk[d].pending \subseteq k.pending
  BY <1>0, <1>3 DEF Desktop
<1> HIDE DEF k, Desktop
<1>5. Sound(k, keysMade, epoch)
  BY <1>0, <1>4 DEF Sound
<1>6. /\ \A key : Agrees(desk[d], key, epoch) => Agrees(k, key, epoch)
      /\ Maker(k, epoch) => Maker(desk[d], epoch)
  BY <1>4 DEF Agrees, Maker
<1> QED  BY <1>1, <1>2, <1>5, <1>6, DeskQuiet

LEMMA ResetPersonalKeeps ==
  ASSUME VaultInv, NEW d \in Desk, ResetPersonal(d)
  PROVE  VaultInv'
<1>0. /\ epoch \in Nat /\ keysMade \in Nat /\ desk \in [Desk -> Desktop]
      /\ desk[d] \in Desktop /\ Sound(desk[d], keysMade, epoch)
      /\ remoteVault \in RemoteVault
  BY DEF VaultInv, ServerSound, DesksSound
<1>1. UNCHANGED <<epoch, itemKeys, raced, keysMade>>
  BY DEF ResetPersonal
<1>2. {edits', deskKills', personalResets'} \subseteq Nat
  BY DEF ResetPersonal, VaultInv, ServerSound
<1>3. /\ remoteVault' \in RemoteVault /\ remoteVault'.key = remoteVault.key
      /\ remoteVault'.of = remoteVault.of
  BY <1>0 DEF ResetPersonal, RemoteVault
<1>4. ServerSound'
  BY <1>1, <1>2, <1>3 DEF VaultInv, ServerSound
<1> DEFINE k == [desk[d] EXCEPT !.rows = {r \in @ : r.of # epoch}, !.pending = @ \ {epoch}]
<1>5. desk' = [desk EXCEPT ![d] = k]
  BY <1>0 DEF ResetPersonal
<1>6. /\ k \in Desktop /\ k.pc = desk[d].pc /\ k.token = desk[d].token
      /\ k.seen = desk[d].seen /\ k.fresh = desk[d].fresh
      /\ k.rows \subseteq desk[d].rows /\ k.before = desk[d].before
  BY <1>0 DEF Desktop
<1> HIDE DEF k, Desktop
<1>7. desk[d].pc = "idle"
  BY DEF ResetPersonal, DeskAt
<1>8. Sound(k, keysMade, epoch)
  BY <1>0, <1>6, <1>7 DEF Sound, Window
<1>9. /\ \A key : Agrees(desk[d], key, epoch) => Agrees(k, key, epoch)
      /\ ~Maker(k, epoch)
  BY <1>6, <1>7 DEF Agrees, Maker, Window
<1>10. /\ keysMade <= keysMade' /\ Sound(k, keysMade', epoch)
       /\ itemKeys' \subseteq itemKeys \cup {remoteVault.key}
  BY <1>0, <1>1, <1>8
<1> QED  BY <1>1, <1>3, <1>4, <1>5, <1>9, <1>10, DeskLocal

LEMMA RemoteResetKeeps ==
  ASSUME VaultInv, NEW d \in Desk, RemoteReset(d)
  PROVE  VaultInv'
<1>0. /\ epoch \in Nat /\ keysMade \in Nat /\ desk \in [Desk -> Desktop]
      /\ desk[d] \in Desktop /\ Sound(desk[d], keysMade, epoch)
      /\ remoteVault \in RemoteVault
  BY DEF VaultInv, ServerSound, DesksSound
<1>1. /\ UNCHANGED <<epoch, remoteVault, itemKeys, raced, keysMade>>
      /\ {edits', deskKills', personalResets'} \subseteq Nat
  BY DEF RemoteReset, remoteVars, VaultInv, ServerSound
<1> DEFINE k == [desk[d] EXCEPT !.rows = {}, !.pending = {}, !.known = epoch]
<1>2. desk' = [desk EXCEPT ![d] = k]
  BY <1>0 DEF RemoteReset
<1>3. /\ k \in Desktop /\ k.pc = desk[d].pc /\ k.token = desk[d].token
      /\ k.seen = desk[d].seen /\ k.fresh = desk[d].fresh /\ k.rows = {}
  BY <1>0 DEF Desktop
<1> HIDE DEF k, Desktop
<1>4. desk[d].pc = "idle"
  BY DEF RemoteReset, DeskAt
<1>5. Sound(k, keysMade, epoch)
  BY <1>0, <1>3, <1>4 DEF Sound, Window
<1>6. /\ \A key : Agrees(desk[d], key, epoch) => Agrees(k, key, epoch)
      /\ ~Maker(k, epoch)
  BY <1>3, <1>4 DEF Agrees, Maker, Window
<1> QED  BY <1>1, <1>2, <1>5, <1>6, DeskQuiet

LEMMA KillDeskKeeps ==
  ASSUME VaultInv, NEW d \in Desk, KillDesk(d)
  PROVE  VaultInv'
<1>0. /\ epoch \in Nat /\ keysMade \in Nat /\ desk \in [Desk -> Desktop]
      /\ desk[d] \in Desktop /\ Sound(desk[d], keysMade, epoch)
      /\ remoteVault \in RemoteVault
  BY DEF VaultInv, ServerSound, DesksSound
<1>1. /\ UNCHANGED <<epoch, remoteVault, itemKeys, raced, keysMade>>
      /\ {edits', deskKills', personalResets'} \subseteq Nat
  BY DEF KillDesk, remoteVars, VaultInv, ServerSound
<1>2. desk' = [desk EXCEPT ![d] = Ended(desk[d])]
  BY <1>0 DEF KillDesk
<1>3. /\ Sound(Ended(desk[d]), keysMade, epoch)
      /\ \A key : Agrees(desk[d], key, epoch) => Agrees(Ended(desk[d]), key, epoch)
      /\ ~Maker(Ended(desk[d]), epoch)
  BY <1>0, EndedIsSound
<1> QED  BY <1>1, <1>2, <1>3, DeskQuiet

\* No device has a token or a row of the database that is made.
LEMMA NewDatabaseKeeps ==
  ASSUME VaultInv, NewDatabase
  PROVE  VaultInv'
<1>1. /\ UNCHANGED <<desk, keysMade, raced, edits, deskKills, personalResets>>
      /\ epoch' = epoch + 1 /\ remoteVault' = Absent(epoch + 1) /\ itemKeys' = {}
  BY DEF NewDatabase, deskBounds
<1>2. /\ epoch \in Nat /\ keysMade \in Nat /\ epoch \in 1 .. MaxTroubles + 1
      /\ {deskKills, personalResets} \subseteq Nat
  BY DEF VaultInv, ServerSound
<1>3. epoch + 1 \in 1 .. MaxTroubles + 1
  BY <1>2, PersonalVaultAssumption DEF NewDatabase, Untroubled
<1>4. /\ remoteVault' \in RemoteVault /\ remoteVault'.of = epoch + 1 /\ remoteVault'.key = 0
  BY <1>1, <1>2 DEF Absent, RemoteVault
<1>5. ServerSound'
  BY <1>1, <1>2, <1>3, <1>4 DEF VaultInv, ServerSound
<1>6. DesksSound'
  <2>1. \A d \in Desk : Sound(desk[d], keysMade, epoch + 1)
    BY <1>2, SoundGrows DEF VaultInv, DesksSound
  <2> QED  BY <1>1, <2>1 DEF VaultInv, DesksSound
<1>7. \A d \in Desk : ~Maker(desk[d], epoch') /\ Agrees(desk[d], remoteVault'.key, epoch')
  <2> TAKE d \in Desk
  <2>1. /\ desk[d] \in Desktop /\ desk[d].token <= epoch
        /\ \A a \in desk[d].rows : a.of <= epoch
    BY DEF VaultInv, DesksSound, Sound
  <2>2. desk[d].token \in Nat /\ \A a \in desk[d].rows : a.of \in Nat
    BY <2>1 DEF Desktop
  <2>3. desk[d].token # epoch' /\ \A a \in desk[d].rows : a.of # epoch'
    BY <1>1, <1>2, <2>1, <2>2
  <2> QED  BY <2>3 DEF Maker, Agrees
<1>8. KeyAgreed'
  BY <1>1, <1>7 DEF KeyAgreed
<1> QED  BY <1>5, <1>6, <1>8 DEF VaultInv

-----------------------------------------------------------------------------
(* What follows for the personal vault *)

LEMMA VaultStep ==
  VaultInv /\ [PersonalVaultNext]_deskVars => VaultInv'
<1> SUFFICES ASSUME VaultInv, [PersonalVaultNext]_deskVars
             PROVE  VaultInv'
  OBVIOUS
<1>1. CASE UNCHANGED deskVars
  <2>1. /\ ServerSound'
        /\ DesksSound'
    BY <1>1 DEF VaultInv, deskVars, ServerSound, DesksSound
  <2>2. KeyAgreed'
    BY <1>1 DEF VaultInv, deskVars, KeyAgreed
  <2> QED  BY <2>1, <2>2 DEF VaultInv
<1>2. ASSUME NEW d \in Desk, DeskLogin(d) \/ BeginSync(d) \/ SyncStep(d)
      PROVE  VaultInv'
  <2>1. CASE DeskLogin(d) \/ BeginSync(d)
    BY <2>1, DeskLoginKeeps, BeginSyncKeeps
  <2>2. CASE SyncStep(d)
    BY <2>2, CheckFingerprintKeeps, WipeStorageKeeps, FetchVaultsKeeps,
       EnsureLocalVaultKeeps, MakeKeyKeeps, PutKeyKeeps, KeepKeyKeeps, PushOrSkipKeeps
       DEF SyncStep
  <2> QED  BY <1>2, <2>1, <2>2
<1>3. ASSUME NEW d \in Desk, NEW v \in 1 .. epoch, EditItem(d, v)
      PROVE  VaultInv'
  BY <1>3, EditItemKeeps
<1>4. ASSUME NEW d \in Desk, ResetPersonal(d) \/ RemoteReset(d) \/ KillDesk(d)
      PROVE  VaultInv'
  BY <1>4, ResetPersonalKeeps, RemoteResetKeeps, KillDeskKeeps
<1>5. CASE NewDatabase
  BY <1>5, NewDatabaseKeeps
<1> QED  BY <1>1, <1>2, <1>3, <1>4, <1>5 DEF PersonalVaultNext

LEMMA VaultInductive ==
  PersonalVaultSpec => []VaultInv
BY VaultInitially, VaultStep, PTL DEF PersonalVaultSpec

\* The personal vault, its keys and the syncs keep their types, and a device
\* has one row for a vault, for any number of devices, syncs and troubles.
THEOREM VaultTypeCorrect ==
  PersonalVaultSpec => []PersonalVaultTypeOK
<1>1. VaultInv => PersonalVaultTypeOK
  <2> SUFFICES ASSUME VaultInv
               PROVE  PersonalVaultTypeOK
    OBVIOUS
  <2>1. ASSUME NEW d \in Desk
        PROVE  /\ desk[d] \in Desktop
               /\ \A a, b \in desk[d].rows : a.of = b.of => a = b
               /\ \A a \in desk[d].rows : a.key \in 0 .. keysMade
    <3>1. Sound(desk[d], keysMade, epoch) /\ keysMade \in Nat
      BY DEF VaultInv, DesksSound, ServerSound
    <3>2. \A a \in desk[d].rows : a.key \in Nat
      BY <3>1 DEF Sound, Desktop
    <3> QED  BY <3>1, <3>2 DEF Sound
  <2>2. /\ epoch \in 1 .. MaxTroubles + 1 /\ remoteVault \in RemoteVault
        /\ itemKeys \subseteq 1 .. keysMade /\ raced \in BOOLEAN
    BY DEF VaultInv, ServerSound
  <2> QED  BY <2>1, <2>2 DEF PersonalVaultTypeOK
<1> QED  BY <1>1, VaultInductive, PTL

\* Unless two devices looked for the key while there was none, every payload
\* on the server is under the key that the server hands out, whatever was
\* killed, reset or replaced in between (ensure_personal_vault_key, put_key).
THEOREM PushedCanBeRead ==
  PersonalVaultSpec => []PushedIsReadable
<1>1. VaultInv => PushedIsReadable
  BY DEF VaultInv, KeyAgreed, PushedIsReadable
<1> QED  BY <1>1, VaultInductive, PTL

\* No step but the push of a sync, and a reset the user asks for, takes away
\* what was queued when the sync began, and the key of a row stays.
LEMMA StepKeeps ==
  ASSUME VaultInv, PersonalVaultNext
  PROVE  \A d \in Desk :
           /\ \A r \in desk[d].rows :
                r.key # 0 => \A q \in desk'[d].rows : q.of = r.of => q = r
           /\ \/ desk[d].pending \cap desk[d].before \subseteq desk'[d].pending
              \/ DeskAt(d, "push")
              \/ personalResets' # personalResets
<1> DEFINE RowsKept(d) ==
             \A r \in desk[d].rows :
               r.key # 0 => \A q \in desk'[d].rows : q.of = r.of => q = r
           QueueKept(d) ==
             \/ desk[d].pending \cap desk[d].before \subseteq desk'[d].pending
             \/ DeskAt(d, "push")
             \/ personalResets' # personalResets
<1>0. /\ desk \in [Desk -> Desktop]
      /\ \A d \in Desk : /\ desk[d] \in Desktop
                         /\ Sound(desk[d], keysMade, epoch)
                         /\ \A a, b \in desk[d].rows : a.of = b.of => a = b
  BY DEF VaultInv, DesksSound, Sound
<1>1. ASSUME NEW d \in Desk, desk'[d] = desk[d]
      PROVE  RowsKept(d) /\ QueueKept(d)
  BY <1>0, <1>1
<1>2. ASSUME NEW d \in Desk, NEW k, desk' = [desk EXCEPT ![d] = k],
             RowsKept(d) /\ QueueKept(d)
      PROVE  \A o \in Desk : RowsKept(o) /\ QueueKept(o)
  <2> TAKE o \in Desk
  <2>1. CASE o = d
    BY <1>2, <2>1
  <2>2. CASE o # d
    <3>1. desk'[o] = desk[o]
      BY <1>0, <1>2, <2>2
    <3> QED  BY <1>1, <3>1
  <2> QED  BY <2>1, <2>2
<1>3. ASSUME NEW d \in Desk, NEW k, desk' = [desk EXCEPT ![d] = k],
             k.rows \subseteq desk[d].rows,
             \/ desk[d].pending \subseteq k.pending
             \/ desk[d].before = {} \/ DeskAt(d, "push")
             \/ personalResets' # personalResets
      PROVE  \A o \in Desk : RowsKept(o) /\ QueueKept(o)
  <2>1. desk'[d] = k
    BY <1>0, <1>3
  <2>2. RowsKept(d)
    BY <1>0, <1>3, <2>1
  <2>3. QueueKept(d)
    BY <1>3, <2>1
  <2> HIDE DEF RowsKept, QueueKept
  <2> QED  BY <1>2, <1>3, <2>2, <2>3
<1> HIDE DEF RowsKept, QueueKept
<1>4. ASSUME NEW d \in Desk, DeskLogin(d)
      PROVE  \A o \in Desk : RowsKept(o) /\ QueueKept(o)
  <2>1. PICK k : k = [desk[d] EXCEPT !.session = epoch]
    OBVIOUS
  <2>2. k.rows = desk[d].rows /\ k.pending = desk[d].pending
    BY <1>0, <2>1 DEF Desktop
  <2>3. desk' = [desk EXCEPT ![d] = k]
    BY <1>0, <1>4, <2>1 DEF DeskLogin
  <2> QED  BY <1>3, <2>2, <2>3
<1>5. ASSUME NEW d \in Desk, BeginSync(d)
      PROVE  \A o \in Desk : RowsKept(o) /\ QueueKept(o)
  <2>1. PICK k : k = [desk[d] EXCEPT !.pc = "fingerprint", !.token = epoch,
                        !.syncs = desk[d].syncs + 1, !.before = desk[d].pending]
    OBVIOUS
  <2>2. k.rows = desk[d].rows /\ k.pending = desk[d].pending
    BY <1>0, <2>1 DEF Desktop
  <2>3. desk' = [desk EXCEPT ![d] = k]
    BY <1>0, <1>5, <2>1 DEF BeginSync
  <2> QED  BY <1>3, <2>2, <2>3
<1>6. ASSUME NEW d \in Desk, SyncStep(d)
      PROVE  \A o \in Desk : RowsKept(o) /\ QueueKept(o)
  <2>1. CASE CheckFingerprint(d)
    <3>1. PICK k : k = IF SameServer(d) \/ MayWipe(d)
                       THEN [desk[d] EXCEPT !.read = epoch,
                               !.pc = IF SameServer(d) THEN "list" ELSE "wipe"]
                       ELSE Ended(desk[d])
      OBVIOUS
    <3>2. k.rows = desk[d].rows /\ k.pending = desk[d].pending
      BY <1>0, <3>1 DEF Desktop, Ended
    <3>3. desk' = [desk EXCEPT ![d] = k]
      BY <1>0, <2>1, <3>1 DEF CheckFingerprint
    <3> QED  BY <1>3, <3>2, <3>3
  <2>2. CASE WipeStorage(d)
    <3>1. PICK k : k = [desk[d] EXCEPT !.pc = "list", !.rows = {}, !.pending = {}]
      OBVIOUS
    <3>2. k.rows = {}
      BY <1>0, <3>1 DEF Desktop
    <3>3. desk' = [desk EXCEPT ![d] = k]
      BY <1>0, <2>2, <3>1 DEF WipeStorage
    <3>4. desk[d].before = {}
      BY <1>0, <2>2 DEF WipeStorage, DeskAt, Sound
    <3> QED  BY <1>3, <3>2, <3>3, <3>4
  <2>3. CASE FetchVaults(d)
    <3>1. PICK stored : stored = [desk[d] EXCEPT !.known = desk[d].read]
      OBVIOUS
    <3>2. stored \in Desktop /\ stored.rows = desk[d].rows /\ stored.pending = desk[d].pending
      BY <1>0, <3>1 DEF Desktop
    <3>3. PICK k : k = IF ~Authorized(d) THEN Ended(desk[d])
                       ELSE IF remoteVault.state # "live" THEN Ended(stored)
                       ELSE [stored EXCEPT !.seen = remoteVault, !.pc = "ensure"]
      OBVIOUS
    <3>4. k.rows = desk[d].rows /\ k.pending = desk[d].pending
      BY <1>0, <3>2, <3>3 DEF Desktop, Ended
    <3>5. desk' = [desk EXCEPT ![d] = k]
      BY <1>0, <2>3, <3>1, <3>3 DEF FetchVaults
    <3> QED  BY <1>3, <3>4, <3>5
  <2>4. CASE EnsureLocalVault(d)
    <3>1. PICK k : k = [desk[d] EXCEPT !.rows = EnsuredRows(d), !.pc = "key"]
      OBVIOUS
    <3>2. k.rows = EnsuredRows(d) /\ k.pending = desk[d].pending
      BY <1>0, <3>1 DEF Desktop
    <3>3. desk' = [desk EXCEPT ![d] = k]
      BY <1>0, <2>4, <3>1 DEF EnsureLocalVault
    <3>4. desk'[d] = k
      BY <1>0, <3>3
    <3>5. \A r \in desk[d].rows : \A q \in EnsuredRows(d) : q.of = r.of => q = r
      BY <1>0 DEF EnsuredRows, HasRow, SetKey
    <3>6. RowsKept(d)
      BY <3>2, <3>4, <3>5 DEF RowsKept
    <3>7. QueueKept(d)
      BY <3>2, <3>4 DEF QueueKept
    <3> QED  BY <1>2, <3>3, <3>6, <3>7
  <2>5. CASE MakeKey(d)
    <3>1. PICK k : k = IF NeedsKey(d)
                       THEN [desk[d] EXCEPT !.fresh = keysMade + 1, !.pc = "put"]
                       ELSE [desk[d] EXCEPT !.pc = "push"]
      OBVIOUS
    <3>2. k.rows = desk[d].rows /\ k.pending = desk[d].pending
      BY <1>0, <3>1 DEF Desktop
    <3>3. desk' = [desk EXCEPT ![d] = k]
      BY <1>0, <2>5, <3>1 DEF MakeKey
    <3> QED  BY <1>3, <3>2, <3>3
  <2>6. CASE PutKey(d)
    <3>1. PICK k : k = IF Authorized(d) /\ remoteVault.state = "live"
                       THEN [desk[d] EXCEPT !.pc = "keep"]
                       ELSE Ended(desk[d])
      OBVIOUS
    <3>2. k.rows = desk[d].rows /\ k.pending = desk[d].pending
      BY <1>0, <3>1 DEF Desktop, Ended
    <3>3. desk' = [desk EXCEPT ![d] = k]
      BY <1>0, <2>6, <3>1 DEF PutKey
    <3> QED  BY <1>3, <3>2, <3>3
  <2>7. CASE KeepKey(d)
    <3>1. PICK k : k = [desk[d] EXCEPT !.rows = KeptRows(d), !.fresh = 0, !.pc = "push"]
      OBVIOUS
    <3>2. k.rows = KeptRows(d) /\ k.pending = desk[d].pending
      BY <1>0, <3>1 DEF Desktop
    <3>3. desk' = [desk EXCEPT ![d] = k]
      BY <1>0, <2>7, <3>1 DEF KeepKey
    <3>4. desk'[d] = k
      BY <1>0, <3>3
    <3>5. \A r \in desk[d].rows : r.of = desk[d].seen.of => r.key = 0
      BY <1>0, <2>7 DEF KeepKey, DeskAt, Sound
    <3>6. \A r \in desk[d].rows : r.key # 0 =>
            \A q \in KeptRows(d) : q.of = r.of => q = r
      BY <1>0, <3>5 DEF KeptRows, SetKey
    <3>7. RowsKept(d)
      BY <3>2, <3>4, <3>6 DEF RowsKept
    <3>8. QueueKept(d)
      BY <3>2, <3>4 DEF QueueKept
    <3> QED  BY <1>2, <3>3, <3>7, <3>8
  <2>8. CASE PushOrSkip(d)
    <3> DEFINE v == desk[d].seen.of
               sends == /\ VaultUsable(d, v) /\ v \in desk[d].pending
                        /\ Authorized(d) /\ remoteVault.state = "live"
               left == IF sends THEN desk[d].pending \ {v} ELSE desk[d].pending
    <3>1. PICK k : k = Ended([desk[d] EXCEPT !.pending = left])
      OBVIOUS
    <3>2. k.rows = desk[d].rows
      BY <1>0, <3>1 DEF Desktop, Ended
    <3>3. desk' = [desk EXCEPT ![d] = k] /\ DeskAt(d, "push")
      BY <1>0, <2>8, <3>1 DEF PushOrSkip
    <3> QED  BY <1>3, <3>2, <3>3
  <2> QED  BY <1>6, <2>1, <2>2, <2>3, <2>4, <2>5, <2>6, <2>7, <2>8 DEF SyncStep
<1>7. ASSUME NEW d \in Desk, NEW v \in 1 .. epoch, EditItem(d, v)
      PROVE  \A o \in Desk : RowsKept(o) /\ QueueKept(o)
  <2>1. PICK k : k = [desk[d] EXCEPT !.pending = desk[d].pending \cup {v}]
    OBVIOUS
  <2>2. k.rows = desk[d].rows /\ desk[d].pending \subseteq k.pending
    BY <1>0, <2>1 DEF Desktop
  <2>3. desk' = [desk EXCEPT ![d] = k]
    BY <1>0, <1>7, <2>1 DEF EditItem
  <2> QED  BY <1>3, <2>2, <2>3
<1>8. ASSUME NEW d \in Desk, ResetPersonal(d) \/ RemoteReset(d)
      PROVE  \A o \in Desk : RowsKept(o) /\ QueueKept(o)
  <2>1. personalResets' # personalResets
    BY <1>8 DEF ResetPersonal, RemoteReset, VaultInv, ServerSound
  <2>2. CASE ResetPersonal(d)
    <3>1. PICK k : k = [desk[d] EXCEPT !.rows = {r \in desk[d].rows : r.of # epoch},
                                       !.pending = desk[d].pending \ {epoch}]
      OBVIOUS
    <3>2. k.rows \subseteq desk[d].rows
      BY <1>0, <3>1 DEF Desktop
    <3>3. desk' = [desk EXCEPT ![d] = k]
      BY <1>0, <2>2, <3>1 DEF ResetPersonal
    <3> QED  BY <1>3, <2>1, <3>2, <3>3
  <2>3. CASE RemoteReset(d)
    <3>1. PICK k : k = [desk[d] EXCEPT !.rows = {}, !.pending = {}, !.known = epoch]
      OBVIOUS
    <3>2. k.rows \subseteq desk[d].rows
      BY <1>0, <3>1 DEF Desktop
    <3>3. desk' = [desk EXCEPT ![d] = k]
      BY <1>0, <2>3, <3>1 DEF RemoteReset
    <3> QED  BY <1>3, <2>1, <3>2, <3>3
  <2> QED  BY <1>8, <2>2, <2>3
<1>9. ASSUME NEW d \in Desk, KillDesk(d)
      PROVE  \A o \in Desk : RowsKept(o) /\ QueueKept(o)
  <2>1. PICK k : k = Ended(desk[d])
    OBVIOUS
  <2>2. k.rows = desk[d].rows /\ k.pending = desk[d].pending
    BY <1>0, <2>1, EndedIs
  <2>3. desk' = [desk EXCEPT ![d] = k]
    BY <1>0, <1>9, <2>1 DEF KillDesk
  <2> QED  BY <1>3, <2>2, <2>3
<1>10. ASSUME NewDatabase
       PROVE  \A o \in Desk : RowsKept(o) /\ QueueKept(o)
  <2>1. UNCHANGED desk
    BY <1>10 DEF NewDatabase
  <2> QED  BY <1>1, <2>1
<1>11. \A d \in Desk : RowsKept(d) /\ QueueKept(d)
  <2> DEFINE Kept == \A o \in Desk : RowsKept(o) /\ QueueKept(o)
  <2>1. /\ \A d \in Desk : DeskLogin(d) \/ BeginSync(d) \/ SyncStep(d) => Kept
        /\ \A d \in Desk : \A v \in 1 .. epoch : EditItem(d, v) => Kept
        /\ \A d \in Desk : ResetPersonal(d) \/ RemoteReset(d) \/ KillDesk(d) => Kept
        /\ NewDatabase => Kept
    BY <1>4, <1>5, <1>6, <1>7, <1>8, <1>9, <1>10
  <2> HIDE DEF Kept
  <2>2. Kept
    BY <2>1 DEF PersonalVaultNext
  <2> QED  BY <2>2 DEF Kept
<1> QED  BY <1>11 DEF RowsKept, QueueKept

\* A sync takes neither a key nor an edit from a device, whichever server
\* answers under the address (remote_sync, ensure_local_vaults, the wipe).
THEOREM DevicesKeepKeysAndEdits ==
  PersonalVaultSpec => KeyAndQueueKept
<1> DEFINE Kept(d) ==
             /\ \A r \in desk[d].rows :
                  r.key # 0 => \A q \in desk'[d].rows : q.of = r.of => q = r
             /\ \/ desk[d].pending \cap desk[d].before \subseteq desk'[d].pending
                \/ DeskAt(d, "push")
                \/ personalResets' # personalResets
<1>1. VaultInv /\ [PersonalVaultNext]_deskVars => [\A d \in Desk : Kept(d)]_deskVars
  BY StepKeeps
<1> QED  BY <1>1, VaultInductive, PTL DEF PersonalVaultSpec, KeyAndQueueKept

-----------------------------------------------------------------------------
(* Accounts and sessions.  A request carries the user row that it has read *)
(* and knows by the row_version whether the row is still the current one;  *)
(* between the lock and the COMMIT of the personal vault it is the only    *)
(* one of its user; and the permits out are those that requests hold.      *)

LoginPc == {"device", "session", "vault_tx", "lock", "vault_select", "vault_insert"}

OidcPc == {"identity", "by_email", "new_user", "link"}

\* A request of r.op that has read the row of its user.
RowRead(r) ==
  \/ r.pc \in {"kdf2", "write", "seen"}
  \/ r.pc = "kdf" /\ r.op \notin {"register", "create"}
  \/ r.pc \in LoginPc /\ r.op # "oidc"

HasAccount(r) == RowRead(r) \/ r.pc = "link" \/ r.pc \in LoginPc

\* The id of a device is made up by the request, the other two are answers.
Request(id, shut, saw) ==
  [op : AccountOp \cup {Nobody}, pc : AccountPc, e : Email \cup {Nobody},
   sub : Subject \cup {Nobody}, row : User \cup {NoUser}, arg : Nat, id : {id},
   held : 0 .. 2, shut : {shut}, saw : {saw}]

Shaped(r) == \E id, shut, saw : r \in Request(id, shut, saw)

\* The row that was read is the current one, or older.
RowIsCurrentOrOld(r) ==
  /\ r.row \in User
  /\ r.row.rv <= users[r.e].rv
  /\ r.row.rv = users[r.e].rv => r.row = users[r.e]

ReadCommitted == VaultIsolation = "read_committed"

\* What is true of the request r of the caller c.
Good(r, c) ==
  /\ Shaped(r)
  /\ r.pc \in {"idle", "read", "kdf"} => r.held = 0
  /\ r.pc = "kdf2" => r.held = 1
  /\ r.pc # "idle" => answer[c] = "none" /\ r.e \in Email
  /\ HasAccount(r) => users[r.e] \in User
  /\ RowRead(r) => RowIsCurrentOrOld(r)
  /\ r.op = "change" /\ r.pc \in {"kdf2", "write"} => r.row.pw = r.arg
  /\ r.pc \in {"vault_select", "vault_insert"} => vlock[r.e] = c
  /\ r.pc = "vault_insert" /\ ReadCommitted => r.e \notin vaulted
  /\ r.pc = "seen" => r.e \in vaulted
  /\ r.pc \in {"lock", "vault_select", "vault_insert"} /\ r.saw => r.e \in vaulted
  /\ r.pc \in {"session_read", "user"} => r.op # "oidc"
  /\ r.pc \in OidcPc => r.op = "oidc" /\ r.sub \in Subject
  /\ r.pc = "kdf2" => r.op = "change"
  /\ r.op = "unblock" => r.held = 0
  /\ r.pc # "idle" /\ r.op # "oidc" /\ r.shut => Shut(r.e)

DataTyped ==
  /\ users \in [Email -> User \cup {NoUser}]
  /\ linked \in [Subject -> Email \cup {Nobody}]
  /\ vaulted \subseteq Email
  /\ devices \in [SessionId -> Device \cup {NoSession}]
  /\ sessions \in [SessionId -> UserSession \cup {NoSession}]
  /\ minted \in Nat

AccountTables ==
  /\ DataTyped
  /\ vlock \in [Email -> Caller \cup {Nobody}]
  /\ answer \in [Caller -> {"none", "ok", "refused", "stumbled"}]

Requests ==
  /\ req = [c \in Caller |-> req[c]]
  /\ \A c \in Caller : Good(req[c], c)

\* The permits that are out, one by one.
Held == {t \in Caller \X {1, 2} : t[2] <= req[t[1]].held}

PermitsCounted ==
  /\ permits \in Nat
  /\ IsFiniteSet(Held)
  /\ permits + Cardinality(Held) = KdfPermits

NeverStumbled == ReadCommitted => \A c \in Caller : answer[c] # "stumbled"

AccountsInv ==
  AccountTables /\ Requests /\ PermitsCounted /\ NeverStumbled /\ menu \subseteq AccountOp

-----------------------------------------------------------------------------
(* Permits *)

LEMMA PermitTaken ==
  ASSUME PermitsCounted, NEW c \in Caller, NEW n \in {1, 2},
         req[c].held = n - 1, req'[c].held = n,
         \A d \in Caller \ {c} : req'[d].held = req[d].held,
         permits > 0, permits' = permits - 1
  PROVE  PermitsCounted'
<1>1. Held' = Held \cup {<<c, n>>}
  <2>1. ASSUME NEW t \in Caller \X {1, 2}
        PROVE  t \in Held' <=> t \in Held \cup {<<c, n>>}
    <3>1. PICK d \in Caller, m \in {1, 2} : t = <<d, m>>
      OBVIOUS
    <3>2. t \in Held' <=> m <= req'[d].held
      BY <3>1 DEF Held
    <3>3. t \in Held <=> m <= req[d].held
      BY <3>1 DEF Held
    <3>4. CASE d = c
      BY <3>1, <3>2, <3>3, <3>4
    <3>5. CASE d # c
      BY <3>1, <3>2, <3>3, <3>5
    <3> QED  BY <3>4, <3>5
  <2>2. Held' \subseteq Caller \X {1, 2} /\ Held \subseteq Caller \X {1, 2}
    BY DEF Held
  <2>3. <<c, n>> \in Caller \X {1, 2}
    OBVIOUS
  <2> QED  BY <2>1, <2>2, <2>3
<1>2. <<c, n>> \notin Held
  BY DEF Held
<1>3. IsFiniteSet(Held) /\ Cardinality(Held) \in Nat
  BY FS_CardinalityType DEF PermitsCounted
<1>4. IsFiniteSet(Held') /\ Cardinality(Held') = Cardinality(Held) + 1
  BY <1>1, <1>2, <1>3, FS_AddElement, Zenon
<1>5. KdfPermits \in Nat /\ permits \in Nat /\ permits + Cardinality(Held) = KdfPermits
  BY AccountsAssumption DEF PermitsCounted
<1> QED  BY <1>3, <1>4, <1>5 DEF PermitsCounted

\* One permit of a set of them is given back, the last one first.
LEMMA OneLess ==
  ASSUME NEW S, NEW t \in S, IsFiniteSet(S)
  PROVE  /\ IsFiniteSet(S \ {t})
         /\ Cardinality(S \ {t}) \in Nat
         /\ Cardinality(S) = Cardinality(S \ {t}) + 1
<1>1. IsFiniteSet(S \ {t})
  BY FS_RemoveElement, Zenon
<1>2. (S \ {t}) \cup {t} = S /\ t \notin S \ {t}
  OBVIOUS
<1>3. Cardinality((S \ {t}) \cup {t}) = Cardinality(S \ {t}) + 1
  BY <1>1, <1>2, FS_AddElement, Zenon
<1> QED  BY <1>1, <1>2, <1>3, FS_CardinalityType

LEMMA PermitsReturned ==
  ASSUME PermitsCounted, NEW c \in Caller, req[c].held \in 0 .. 2, req'[c].held = 0,
         \A d \in Caller \ {c} : req'[d].held = req[d].held,
         permits' = permits + req[c].held
  PROVE  PermitsCounted'
<1>1. Held' = (Held \ {<<c, 1>>}) \ {<<c, 2>>}
  <2>1. ASSUME NEW t \in Caller \X {1, 2}
        PROVE  t \in Held' <=> t \in (Held \ {<<c, 1>>}) \ {<<c, 2>>}
    <3>1. PICK d \in Caller, m \in {1, 2} : t = <<d, m>>
      OBVIOUS
    <3>2. t \in Held' <=> m <= req'[d].held
      BY <3>1 DEF Held
    <3>3. t \in Held <=> m <= req[d].held
      BY <3>1 DEF Held
    <3>4. CASE d = c
      BY <3>1, <3>2, <3>3, <3>4
    <3>5. CASE d # c
      BY <3>1, <3>2, <3>3, <3>5
    <3> QED  BY <3>4, <3>5
  <2>2. Held' \subseteq Caller \X {1, 2} /\ Held \subseteq Caller \X {1, 2}
    BY DEF Held
  <2> QED  BY <2>1, <2>2
<1>2. /\ <<c, 1>> \in Held <=> req[c].held >= 1
      /\ <<c, 2>> \in Held <=> req[c].held >= 2
  BY DEF Held
<1>3. /\ IsFiniteSet(Held) /\ Cardinality(Held) \in Nat
      /\ KdfPermits \in Nat /\ permits \in Nat /\ permits + Cardinality(Held) = KdfPermits
  BY FS_CardinalityType, AccountsAssumption DEF PermitsCounted
<1>4. CASE req[c].held = 0
  <2>1. Held' = Held
    BY <1>1, <1>2, <1>4
  <2> QED  BY <1>3, <1>4, <2>1 DEF PermitsCounted
<1>5. CASE req[c].held = 1
  <2>1. Held' = Held \ {<<c, 1>>} /\ <<c, 1>> \in Held
    BY <1>1, <1>2, <1>5
  <2>2. /\ IsFiniteSet(Held') /\ Cardinality(Held') \in Nat
        /\ Cardinality(Held) = Cardinality(Held') + 1
    BY <1>3, <2>1, OneLess
  <2> QED  BY <1>3, <1>5, <2>2 DEF PermitsCounted
<1>6. CASE req[c].held = 2
  <2>1. <<c, 1>> \in Held /\ <<c, 2>> \in Held \ {<<c, 1>>}
    BY <1>2, <1>6
  <2>2. /\ IsFiniteSet(Held \ {<<c, 1>>}) /\ Cardinality(Held \ {<<c, 1>>}) \in Nat
        /\ Cardinality(Held) = Cardinality(Held \ {<<c, 1>>}) + 1
    BY <1>3, <2>1, OneLess
  <2>3. /\ IsFiniteSet(Held') /\ Cardinality(Held') \in Nat
        /\ Cardinality(Held \ {<<c, 1>>}) = Cardinality(Held') + 1
    BY <1>1, <2>1, <2>2, OneLess
  <2> QED  BY <1>3, <1>6, <2>2, <2>3 DEF PermitsCounted
<1> QED  BY <1>4, <1>5, <1>6

LEMMA PermitsStay ==
  ASSUME PermitsCounted, \A d \in Caller : req'[d].held = req[d].held, permits' = permits
  PROVE  PermitsCounted'
<1>1. Held' = Held
  BY DEF Held
<1> QED  BY <1>1 DEF PermitsCounted

-----------------------------------------------------------------------------
(* Requests *)

LEMMA FieldsOf ==
  ASSUME NEW r, Shaped(r)
  PROVE  /\ r.op \in AccountOp \cup {Nobody} /\ r.pc \in AccountPc
         /\ r.e \in Email \cup {Nobody} /\ r.sub \in Subject \cup {Nobody}
         /\ r.row \in User \cup {NoUser} /\ r.arg \in Nat /\ r.held \in 0 .. 2
BY DEF Shaped, Request

LEMMA MovedIs ==
  ASSUME NEW r, Shaped(r), NEW p \in AccountPc, NEW k, k = [r EXCEPT !.pc = p]
  PROVE  /\ Shaped(k)
         /\ k.pc = p /\ k.op = r.op /\ k.e = r.e /\ k.sub = r.sub /\ k.row = r.row
         /\ k.arg = r.arg /\ k.id = r.id /\ k.held = r.held /\ k.shut = r.shut
         /\ k.saw = r.saw
<1>1. PICK id, shut, saw : r \in Request(id, shut, saw)
  BY DEF Shaped
<1>2. k \in Request(id, shut, saw)
  BY <1>1 DEF Request
<1> QED  BY <1>1, <1>2 DEF Shaped, Request

LEMMA NoReqIs ==
  /\ Shaped(NoReq) /\ NoReq.pc = "idle" /\ NoReq.held = 0
  /\ NoReq.op = Nobody
  /\ NoReq \in Request(0, FALSE, FALSE)
<1>1. NoReq \in Request(0, FALSE, FALSE)
  BY DEF NoReq, Request, AccountPc
<1> QED  BY <1>1 DEF Shaped, NoReq

\* No user goes, and a changed row counts its version up.
UsersGrow ==
  \A e \in Email : users[e] \in User =>
    /\ users'[e] \in User
    /\ users'[e] = users[e] \/ users'[e].rv > users[e].rv

StayShut == \A e \in Email : Shut(e) => Shut(e)'

\* A personal vault is made for no user who is about to get one.
VaultsGrow(c) ==
  /\ vaulted \subseteq vaulted'
  /\ \A d \in Caller \ {c} : req[d].pc = "vault_insert" => req[d].e \notin vaulted' \ vaulted

LocksKept(c) ==
  \A d \in Caller \ {c}, e \in Email : vlock[e] = d => vlock'[e] = d

\* What another request does leaves a request good.
LEMMA OtherStays ==
  ASSUME NEW d \in Caller, NEW r, NEW k, Good(r, d),
         Shaped(k), k.op = r.op, k.pc = r.pc, k.e = r.e, k.row = r.row, k.arg = r.arg,
         k.held = r.held, k.saw = r.saw, k.sub = r.sub,
         r.e \in Email /\ k.shut /\ Shut(r.e) => r.shut /\ Shut(r.e)',
         r.e \in Email /\ k.shut => r.shut,
         UsersGrow, vaulted \subseteq vaulted',
         r.pc = "vault_insert" => r.e \notin vaulted' \ vaulted,
         r.e \in Email /\ vlock[r.e] = d => vlock'[r.e] = d,
         answer'[d] = answer[d]
  PROVE  Good(k, d)'
<1>1. HasAccount(r) => r.pc # "idle"
  BY DEF HasAccount, RowRead, LoginPc
<1>2. r.pc # "idle" => r.e \in Email /\ answer[d] = "none"
  BY DEF Good
<1>3. (HasAccount(k) <=> HasAccount(r)) /\ (RowRead(k) <=> RowRead(r))
  BY DEF HasAccount, RowRead
<1>4. HasAccount(r) => users[r.e] \in User /\ users'[r.e] \in User
  BY <1>1, <1>2 DEF Good, UsersGrow
<1>5. RowRead(r) => RowIsCurrentOrOld(k)'
  <2> SUFFICES ASSUME RowRead(r)
               PROVE  RowIsCurrentOrOld(k)'
    OBVIOUS
  <2>1. /\ r.row \in User /\ r.row.rv <= users[r.e].rv
        /\ r.row.rv = users[r.e].rv => r.row = users[r.e]
    BY DEF Good, RowIsCurrentOrOld
  <2>2. /\ users[r.e] \in User /\ users'[r.e] \in User
        /\ users'[r.e] = users[r.e] \/ users'[r.e].rv > users[r.e].rv
    BY <1>1, <1>2, <1>4 DEF HasAccount, UsersGrow
  <2>3. r.row.rv \in Nat /\ users[r.e].rv \in Nat /\ users'[r.e].rv \in Nat
    BY <2>1, <2>2 DEF User
  <2> HIDE DEF User
  <2> QED  BY <2>1, <2>2, <2>3 DEF RowIsCurrentOrOld
<1>6. k.pc \in {"vault_select", "vault_insert"} => vlock'[k.e] = d
  BY <1>2 DEF Good
<1>7. /\ k.pc = "vault_insert" /\ ReadCommitted => k.e \notin vaulted'
      /\ k.pc = "seen" => k.e \in vaulted'
      /\ k.pc \in {"lock", "vault_select", "vault_insert"} /\ k.saw => k.e \in vaulted'
  BY DEF Good
<1>8. k.pc # "idle" /\ k.op # "oidc" /\ k.shut => Shut(k.e)'
  BY <1>2 DEF Good
<1>9. k.pc # "idle" => answer'[d] = "none" /\ k.e \in Email
  BY <1>2
<1>10. /\ k.pc \in {"idle", "read", "kdf"} => k.held = 0
       /\ k.pc = "kdf2" => k.held = 1
       /\ k.op = "change" /\ k.pc \in {"kdf2", "write"} => k.row.pw = k.arg
       /\ k.pc \in {"session_read", "user"} => k.op # "oidc"
       /\ k.pc \in OidcPc => k.op = "oidc" /\ k.sub \in Subject
       /\ k.pc = "kdf2" => k.op = "change"
       /\ k.op = "unblock" => k.held = 0
  BY DEF Good
<1>11. HasAccount(k)' => users'[k.e] \in User
  BY <1>3, <1>4 DEF HasAccount, RowRead
<1>12. RowRead(k)' => RowIsCurrentOrOld(k)'
  BY <1>3, <1>5 DEF RowRead
<1> HIDE DEF HasAccount, RowRead, RowIsCurrentOrOld, Shaped, Shut
<1>13. Shaped(k)'
  BY DEF Shaped, Request
<1> QED  BY <1>6, <1>7, <1>8, <1>9, <1>10, <1>11, <1>12, <1>13 DEF Good

\* One request moves.
LEMMA RequestStep ==
  ASSUME AccountsInv, NEW c \in Caller, NEW k, req' = [req EXCEPT ![c] = k],
         AccountTables', UsersGrow, StayShut, VaultsGrow(c), LocksKept(c),
         \A d \in Caller \ {c} : answer'[d] = answer[d],
         ReadCommitted => answer'[c] # "stumbled",
         Good(k, c)', PermitsCounted', UNCHANGED menu
  PROVE  AccountsInv'
<1>1. /\ req'[c] = k
      /\ \A d \in Caller \ {c} : req'[d] = req[d]
      /\ req' = [d \in Caller |-> req'[d]]
  BY DEF AccountsInv, Requests
<1>2. \A d \in Caller : Good(req[d], d)'
  <2> TAKE d \in Caller
  <2>1. CASE d = c
    BY <1>1, <2>1
  <2>2. CASE d # c
    <3>1. PICK r : r = req[d]
      OBVIOUS
    <3>2. Good(r, d) /\ Shaped(r)
      BY <3>1 DEF AccountsInv, Requests, Good
    <3>3. vaulted \subseteq vaulted' /\ (r.pc = "vault_insert" => r.e \notin vaulted' \ vaulted)
      BY <2>2, <3>1 DEF VaultsGrow
    <3>4. r.e \in Email /\ vlock[r.e] = d => vlock'[r.e] = d
      BY <2>2, <3>1 DEF LocksKept
    <3>5. r.e \in Email /\ r.shut /\ Shut(r.e) => r.shut /\ Shut(r.e)'
      BY DEF StayShut
    <3>6. Good(r, d)'
      BY <2>2, <3>2, <3>3, <3>4, <3>5, OtherStays
    <3> QED  BY <1>1, <2>2, <3>1, <3>6
  <2> QED  BY <2>1, <2>2
<1>3. NeverStumbled'
  BY DEF AccountsInv, NeverStumbled
<1> QED  BY <1>1, <1>2, <1>3 DEF AccountsInv, Requests

LEMMA UsersQuiet ==
  ASSUME AccountsInv, UNCHANGED users
  PROVE  UsersGrow /\ StayShut
BY DEF UsersGrow, StayShut, Shut, Known

LEMMA VaultsQuiet ==
  ASSUME UNCHANGED vaulted, NEW c \in Caller
  PROVE  VaultsGrow(c)
BY DEF VaultsGrow

\* A request goes on without an answer: its user, vault and lock stay.
LEMMA MoveKeeps ==
  ASSUME AccountsInv, NEW c \in Caller, NEW k, req' = [req EXCEPT ![c] = k],
         DataTyped', UNCHANGED <<users, vaulted, vlock, permits, answer, menu>>,
         k.held = req[c].held, Good(k, c)
  PROVE  AccountsInv'
<1>1. /\ req'[c] = k
      /\ \A d \in Caller \ {c} : req'[d] = req[d]
  BY DEF AccountsInv, Requests
<1>2. PermitsCounted'
  BY <1>1, PermitsStay DEF AccountsInv
<1>3. UsersGrow /\ StayShut /\ VaultsGrow(c)
  BY UsersQuiet, VaultsQuiet
<1>4. AccountTables' /\ LocksKept(c)
  BY DEF AccountsInv, AccountTables, LocksKept
<1>5. /\ \A d \in Caller \ {c} : answer'[d] = answer[d]
      /\ ReadCommitted => answer'[c] # "stumbled"
  BY DEF AccountsInv, NeverStumbled
<1>6. Good(k, c)'
  BY DEF Good, HasAccount, RowRead, RowIsCurrentOrOld, Shut, Known, Shaped, Request
<1> QED  BY <1>2, <1>3, <1>4, <1>5, <1>6, RequestStep

\* A request is answered: its permits and its lock go back.
LEMMA ReturnKeeps ==
  ASSUME AccountsInv, NEW c \in Caller, NEW what \in {"none", "ok", "refused", "stumbled"},
         Return(c, what), DataTyped', UsersGrow, StayShut, VaultsGrow(c),
         ReadCommitted => what # "stumbled", UNCHANGED menu
  PROVE  AccountsInv'
<1>1. req' = [req EXCEPT ![c] = NoReq]
  BY DEF Return
<1>2. /\ req'[c] = NoReq
      /\ \A d \in Caller \ {c} : req'[d] = req[d]
  BY <1>1 DEF AccountsInv, Requests
<1>3. /\ answer'[c] = what
      /\ \A d \in Caller \ {c} : answer'[d] = answer[d]
      /\ answer' \in [Caller -> {"none", "ok", "refused", "stumbled"}]
  BY DEF Return, AccountsInv, AccountTables
<1>4. /\ vlock' \in [Email -> Caller \cup {Nobody}]
      /\ LocksKept(c)
  BY DEF Return, AccountsInv, AccountTables, LocksKept
<1>5. AccountTables'
  BY <1>3, <1>4 DEF AccountTables
<1>6. PermitsCounted'
  <2>1. req[c].held \in 0 .. 2
    BY FieldsOf DEF AccountsInv, Requests, Good
  <2>2. req'[c].held = 0
    BY <1>2, NoReqIs
  <2>3. permits' = permits + req[c].held
    BY DEF Return
  <2> QED  BY <1>2, <2>1, <2>2, <2>3, PermitsReturned DEF AccountsInv
<1>7. Good(NoReq, c)'
  <2>1. PICK k : k = NoReq
    OBVIOUS
  <2>2. k \in Request(0, FALSE, FALSE) /\ k.pc = "idle" /\ k.held = 0
    BY <2>1, NoReqIs
  <2>3. Shaped(k)'
    BY <2>2 DEF Shaped, Request
  <2>4. Good(k, c)'
    BY <2>2, <2>3 DEF Good, HasAccount, RowRead, LoginPc, OidcPc
  <2> QED  BY <2>1, <2>4
<1> QED  BY <1>1, <1>3, <1>4, <1>5, <1>6, <1>7, RequestStep

LEMMA QuietReturnKeeps ==
  ASSUME AccountsInv, NEW c \in Caller, NEW what \in {"none", "ok", "refused"},
         Return(c, what), UNCHANGED <<users, linked, vaulted, devices, sessions, minted, menu>>
  PROVE  AccountsInv'
<1>1. DataTyped'
  BY DEF AccountsInv, AccountTables, DataTyped
<1> QED  BY <1>1, UsersQuiet, VaultsQuiet, ReturnKeeps

-----------------------------------------------------------------------------
(* The steps of a request *)

\* The request of a caller in an invariant state.
LEMMA RequestOf ==
  ASSUME AccountsInv, NEW c \in Caller
  PROVE  /\ Good(req[c], c) /\ Shaped(req[c])
         /\ req[c].pc # "idle" => req[c].e \in Email /\ answer[c] = "none"
         /\ req[c].held \in 0 .. 2 /\ req[c].arg \in Nat
         /\ req[c].row \in User \cup {NoUser} /\ req[c].sub \in Subject \cup {Nobody}
         /\ req = [d \in Caller |-> req[d]]
BY FieldsOf DEF AccountsInv, Requests, Good

LEMMA FirstStepIs ==
  ASSUME NEW op \in AccountOp
  PROVE  /\ FirstStep(op) \in {"kdf", "identity", "session_read", "logout", "revoke", "read"}
         /\ FirstStep(op) = "kdf" => op \in {"register", "create"}
         /\ FirstStep(op) = "session_read" => op # "oidc"
         /\ FirstStep(op) = "identity" => op = "oidc"
BY DEF FirstStep, AccountOp

LEMMA BeginCallKeeps ==
  ASSUME AccountsInv, NEW c \in Caller, NEW op \in menu, NEW e \in Email,
         NEW s \in Subject \cup {Nobody}, NEW arg \in 0 .. minted, NEW id \in 0 .. MaxSessions,
         BeginCall(c, op, e, s, arg, id)
  PROVE  AccountsInv'
<1>1. op \in AccountOp /\ arg \in Nat
  BY DEF AccountsInv, AccountTables, DataTyped
<1>2. PICK shut : shut = Shut(e)
  OBVIOUS
<1>3. PICK pc : pc = FirstStep(op)
  OBVIOUS
<1>4. PICK k : k = [NoReq EXCEPT !.op = op, !.pc = pc, !.e = e, !.sub = s, !.arg = arg,
                                 !.id = id, !.shut = shut]
  OBVIOUS
<1>5. req' = [req EXCEPT ![c] = k]
  BY <1>2, <1>3, <1>4 DEF BeginCall
<1>6. /\ pc \in {"kdf", "identity", "session_read", "logout", "revoke", "read"}
      /\ pc = "kdf" => op \in {"register", "create"}
      /\ pc = "session_read" => op # "oidc"
      /\ pc = "identity" => op = "oidc"
      /\ pc \in AccountPc
  BY <1>1, <1>3, FirstStepIs DEF AccountPc
<1>7. /\ k \in Request(id, shut, FALSE)
      /\ k.pc = pc /\ k.op = op /\ k.e = e /\ k.held = 0 /\ k.shut = shut /\ k.sub = s
  BY <1>1, <1>4, <1>6, NoReqIs DEF Request
<1>b. op = "oidc" => s \in Subject
  BY DEF BeginCall
<1>8. shut => Shut(e)
  BY <1>2, Zenon
<1>9. /\ UNCHANGED <<users, linked, vaulted, vlock, devices, sessions, permits, minted, menu>>
      /\ answer' = [answer EXCEPT ![c] = "none"]
      /\ req[c].pc = "idle"
  BY DEF BeginCall, tables, At
<1>10. /\ AccountTables' /\ UsersGrow /\ StayShut /\ VaultsGrow(c) /\ LocksKept(c)
  BY <1>9, UsersQuiet, VaultsQuiet DEF AccountsInv, AccountTables, DataTyped, LocksKept
<1>11. PermitsCounted'
  <2>1. req[c].held = 0
    BY <1>9, RequestOf DEF Good
  <2>2. \A d \in Caller : req'[d].held = req[d].held
    BY <1>5, <1>7, <2>1, RequestOf
  <2> QED  BY <1>9, <2>2, PermitsStay DEF AccountsInv
<1>12. answer'[c] = "none" /\ \A d \in Caller \ {c} : answer'[d] = answer[d]
  BY <1>9 DEF AccountsInv, AccountTables
<1>13. Good(k, c)'
  <2>1. Shaped(k)'
    BY <1>7 DEF Shaped, Request
  <2>2. Shut(e)' <=> Shut(e)
    BY <1>9 DEF Shut, Known
  <2>3. ~HasAccount(k)' /\ ~RowRead(k)'
    BY <1>6, <1>7 DEF HasAccount, RowRead, LoginPc
  <2> HIDE DEF Shut
  <2> QED  BY <1>6, <1>7, <1>8, <1>b, <1>12, <2>1, <2>2, <2>3 DEF Good, OidcPc
<1> QED  BY <1>5, <1>9, <1>10, <1>11, <1>12, <1>13, RequestStep

LEMMA ReadUserKeeps ==
  ASSUME AccountsInv, NEW c \in Caller, ReadUser(c)
  PROVE  AccountsInv'
<1> DEFINE op == req[c].op
<1>1. PICK u : u = GetUser(req[c].e)
  OBVIOUS
<1>2. UNCHANGED <<users, linked, vaulted, devices, sessions, minted, menu>>
  BY DEF ReadUser, bounds
<1>3. CASE Return(c, "refused")
  BY <1>2, <1>3, QuietReturnKeeps
<1>4. CASE ~Return(c, "refused")
  <2>1. PICK pc : pc = IF op \in {"login", "change", "recovery", "reset"} THEN "kdf" ELSE "write"
    OBVIOUS
  <2>2. PICK k : k = [req[c] EXCEPT !.row = u, !.pc = pc]
    OBVIOUS
  <2>3. /\ req' = [req EXCEPT ![c] = k] /\ UNCHANGED <<vlock, permits, answer>>
        /\ Known(u) /\ req[c].pc = "read"
    BY <1>1, <1>4, <2>1, <2>2 DEF ReadUser, At
  <2>4. u \in User /\ u = users[req[c].e]
    BY <1>1, <2>3, NoUserAssumption DEF GetUser, Known
  <2>5. /\ pc = "kdf" => op \in {"login", "change", "recovery", "reset"}
        /\ pc = "write" => op # "change"
        /\ pc \in {"kdf", "write"} /\ pc \in AccountPc
    BY <2>1 DEF AccountPc
  <2>6. /\ Shaped(k) /\ k.pc = pc /\ k.op = op /\ k.e = req[c].e /\ k.row = u
        /\ k.held = req[c].held /\ k.shut = req[c].shut
    <3>1. PICK id, shut, saw : req[c] \in Request(id, shut, saw)
      BY RequestOf DEF Shaped
    <3>2. /\ k \in Request(id, shut, saw)
          /\ k.pc = pc /\ k.op = op /\ k.e = req[c].e /\ k.row = u
          /\ k.held = req[c].held /\ k.shut = req[c].shut
      BY <2>2, <2>4, <2>5, <3>1 DEF Request
    <3> QED  BY <3>2 DEF Shaped
  <2>7. req[c].held = 0 /\ req[c].e \in Email /\ answer[c] = "none"
    BY <2>3, RequestOf DEF Good
  <2>8. u.rv \in Nat
    BY <2>4 DEF User
  <2>9. RowIsCurrentOrOld(k)
    BY <2>4, <2>6, <2>8 DEF RowIsCurrentOrOld
  <2>10. Good(k, c)
    <3>1. op # "oidc" /\ req[c].shut => Shut(req[c].e)
      BY <2>3, RequestOf DEF Good
    <3> HIDE DEF RowIsCurrentOrOld, Shaped, Shut
    <3> QED  BY <2>4, <2>5, <2>6, <2>7, <2>9, <3>1 DEF Good, HasAccount, OidcPc
  <2>11. DataTyped'
    BY <1>2 DEF AccountsInv, AccountTables, DataTyped
  <2> QED  BY <1>2, <2>3, <2>6, <2>10, <2>11, MoveKeeps
<1> QED  BY <1>3, <1>4

\* The other requests keep their permits.
LEMMA OthersHold ==
  ASSUME AccountsInv, NEW c \in Caller, NEW k, req' = [req EXCEPT ![c] = k]
  PROVE  /\ req'[c] = k
         /\ \A d \in Caller \ {c} : req'[d] = req[d] /\ req'[d].held = req[d].held
BY DEF AccountsInv, Requests

\* Only the permits change.
LEMMA AcquireKeeps ==
  ASSUME AccountsInv, NEW c \in Caller, NEW k, req' = [req EXCEPT ![c] = k],
         NEW n \in {1, 2}, req[c].held = n - 1, k.held = n,
         permits > 0, permits' = permits - 1,
         UNCHANGED <<users, linked, vaulted, vlock, devices, sessions, minted, answer, menu>>,
         Good(k, c)
  PROVE  AccountsInv'
<1>1. PermitsCounted'
  BY OthersHold, PermitTaken DEF AccountsInv
<1>2. UsersGrow /\ StayShut /\ VaultsGrow(c)
  BY UsersQuiet, VaultsQuiet
<1>3. AccountTables' /\ LocksKept(c)
  BY DEF AccountsInv, AccountTables, DataTyped, LocksKept
<1>4. /\ \A d \in Caller \ {c} : answer'[d] = answer[d]
      /\ ReadCommitted => answer'[c] # "stumbled"
  BY DEF AccountsInv, NeverStumbled
<1>5. Good(k, c)'
  BY DEF Good, HasAccount, RowRead, RowIsCurrentOrOld, Shut, Known, Shaped, Request
<1> QED  BY <1>1, <1>2, <1>3, <1>4, <1>5, RequestStep

LEMMA AcquirePermitKeeps ==
  ASSUME AccountsInv, NEW c \in Caller,
         NEW op \in {"register", "create", "login", "change", "reset", "recovery"},
         AcquirePermit(c, op)
  PROVE  AccountsInv'
<1>1. /\ req[c].pc = "kdf" /\ req[c].op = op /\ permits > 0
      /\ UNCHANGED <<users, linked, vaulted, devices, sessions, minted, menu>>
  BY DEF AcquirePermit, At, bounds
<1>2. CASE ~Verified(c)
  <2>1. Return(c, "refused")
    BY <1>2 DEF AcquirePermit
  <2> QED  BY <1>1, <2>1, QuietReturnKeeps
<1>3. CASE Verified(c)
  <2>1. PICK pc : pc = AfterKdf(c)
    OBVIOUS
  <2>2. PICK k : k = [req[c] EXCEPT !.held = 1, !.pc = pc]
    OBVIOUS
  <2>3. /\ req' = [req EXCEPT ![c] = k] /\ permits' = permits - 1
        /\ UNCHANGED <<vlock, answer>>
    BY <1>3, <2>1, <2>2 DEF AcquirePermit
  <2>4. /\ pc \in {"check", "device", "kdf2", "write"} /\ pc \in AccountPc
        /\ pc = "check" <=> op \in {"register", "create"}
        /\ pc = "device" <=> op = "login"
        /\ pc = "kdf2" <=> op = "change"
    BY <1>1, <2>1 DEF AfterKdf, AccountPc
  <2>5. /\ Shaped(k) /\ k.pc = pc /\ k.op = op /\ k.e = req[c].e /\ k.row = req[c].row
        /\ k.held = 1 /\ k.shut = req[c].shut /\ k.arg = req[c].arg
    <3>1. PICK id, shut, saw : req[c] \in Request(id, shut, saw)
      BY RequestOf DEF Shaped
    <3>2. PICK n \in 0 .. 2 : n = 1
      OBVIOUS
    <3>3. k = [req[c] EXCEPT !.held = n, !.pc = pc]
      BY <2>2, <3>2
    <3>4. /\ k \in Request(id, shut, saw)
          /\ k.pc = pc /\ k.op = req[c].op /\ k.e = req[c].e /\ k.row = req[c].row
          /\ k.held = n /\ k.shut = req[c].shut /\ k.arg = req[c].arg
      BY <2>4, <3>1, <3>3 DEF Request
    <3> QED  BY <1>1, <3>2, <3>4 DEF Shaped
  <2>6. /\ req[c].held = 0 /\ req[c].e \in Email /\ answer[c] = "none"
        /\ op # "oidc" /\ req[c].shut => Shut(req[c].e)
    BY <1>1, RequestOf DEF Good
  <2>7. pc # "check" => users[req[c].e] \in User /\ RowIsCurrentOrOld(req[c])
    <3>1. op \notin {"register", "create"} => RowRead(req[c])
      BY <1>1 DEF RowRead
    <3> QED  BY <2>4, <3>1, RequestOf DEF Good, HasAccount
  <2>8. pc # "check" => RowIsCurrentOrOld(k)
    BY <2>5, <2>7 DEF RowIsCurrentOrOld
  <2>9. pc = "kdf2" => req[c].row.pw = req[c].arg
    BY <1>1, <1>3, <2>4 DEF Verified
  <2>10. Good(k, c)
    <3>1. RowRead(k) => pc # "check"
      BY <2>4, <2>5 DEF RowRead, LoginPc
    <3>2. HasAccount(k) => pc # "check"
      BY <2>4, <2>5 DEF HasAccount, RowRead, LoginPc
    <3>3. ~(k.op = "change" /\ k.pc = "write")
      BY <2>4, <2>5
    <3> HIDE DEF RowIsCurrentOrOld, Shaped, Shut, HasAccount, RowRead
    <3> QED  BY <2>4, <2>5, <2>6, <2>7, <2>8, <2>9, <3>1, <3>2, <3>3 DEF Good, OidcPc
  <2>11. req[c].held = 1 - 1 /\ k.held = 1 /\ 1 \in {1, 2}
    BY <2>5, <2>6
  <2> QED  BY <1>1, <2>3, <2>10, <2>11, AcquireKeeps
<1> QED  BY <1>2, <1>3

LEMMA AcquireSecondKeeps ==
  ASSUME AccountsInv, NEW c \in Caller, AcquireSecond(c)
  PROVE  AccountsInv'
<1>1. /\ req[c].pc = "kdf2" /\ permits > 0 /\ permits' = permits - 1
      /\ UNCHANGED <<users, linked, vaulted, vlock, devices, sessions, minted, answer, menu>>
  BY DEF AcquireSecond, At, bounds, tables
<1>2. PICK k : k = [req[c] EXCEPT !.held = 2, !.pc = "write"]
  OBVIOUS
<1>3. req' = [req EXCEPT ![c] = k]
  BY <1>2 DEF AcquireSecond
<1>4. /\ Shaped(k) /\ k.pc = "write" /\ k.op = req[c].op /\ k.e = req[c].e
      /\ k.row = req[c].row /\ k.held = 2 /\ k.shut = req[c].shut /\ k.arg = req[c].arg
  <2>1. PICK id, shut, saw : req[c] \in Request(id, shut, saw)
    BY RequestOf DEF Shaped
  <2>2. PICK n \in 0 .. 2 : n = 2
    OBVIOUS
  <2>3. k = [req[c] EXCEPT !.held = n, !.pc = "write"]
    BY <1>2, <2>2
  <2>4. "write" \in AccountPc
    BY DEF AccountPc
  <2>5. /\ k \in Request(id, shut, saw)
        /\ k.pc = "write" /\ k.op = req[c].op /\ k.e = req[c].e /\ k.row = req[c].row
        /\ k.held = n /\ k.shut = req[c].shut /\ k.arg = req[c].arg
    BY <2>1, <2>3, <2>4 DEF Request
  <2> QED  BY <2>2, <2>5 DEF Shaped
<1>5. /\ req[c].held = 1 /\ req[c].e \in Email /\ answer[c] = "none"
      /\ req[c].op # "oidc" /\ req[c].shut => Shut(req[c].e)
      /\ req[c].op = "change" /\ req[c].row.pw = req[c].arg
  BY <1>1, RequestOf DEF Good
<1>6. users[req[c].e] \in User /\ RowIsCurrentOrOld(req[c])
  BY <1>1, RequestOf DEF Good, HasAccount, RowRead
<1>7. RowIsCurrentOrOld(k)
  BY <1>4, <1>6 DEF RowIsCurrentOrOld
<1>8. Good(k, c)
  <2> HIDE DEF RowIsCurrentOrOld, Shaped, Shut
  <2> QED  BY <1>4, <1>5, <1>6, <1>7 DEF Good, OidcPc
<1>9. req[c].held = 2 - 1 /\ k.held = 2 /\ 2 \in {1, 2}
  BY <1>4, <1>5
<1> QED  BY <1>1, <1>3, <1>8, <1>9, AcquireKeeps

\* A request goes to a place where it needs no more than it has.
LEMMA StepIsGood ==
  ASSUME AccountsInv, NEW c \in Caller, req[c].pc # "idle",
         NEW p \in AccountPc, NEW k, k = [req[c] EXCEPT !.pc = p],
         p \notin {"idle", "read", "kdf", "kdf2", "write", "seen", "session_read", "user",
                   "lock", "vault_select", "vault_insert"},
         p \in OidcPc => req[c].pc \in OidcPc,
         p \in LoginPc \cup {"link"} => users[req[c].e] \in User,
         p \in LoginPc /\ req[c].op # "oidc" => RowIsCurrentOrOld(req[c])
  PROVE  Good(k, c) /\ k.held = req[c].held
<1>1. /\ Shaped(k) /\ k.pc = p /\ k.op = req[c].op /\ k.e = req[c].e /\ k.row = req[c].row
      /\ k.arg = req[c].arg /\ k.held = req[c].held /\ k.shut = req[c].shut
  BY RequestOf, MovedIs
<1>2. /\ req[c].e \in Email /\ answer[c] = "none"
      /\ req[c].op # "oidc" /\ req[c].shut => Shut(req[c].e)
      /\ req[c].op = "unblock" => req[c].held = 0
      /\ p \in OidcPc => req[c].op = "oidc" /\ req[c].sub \in Subject
  BY RequestOf DEF Good
<1>3. RowRead(k) => p \in LoginPc /\ req[c].op # "oidc"
  BY <1>1 DEF RowRead
<1>4. HasAccount(k) => p \in LoginPc \cup {"link"}
  BY <1>1, <1>3 DEF HasAccount
<1>5. RowIsCurrentOrOld(req[c]) => RowIsCurrentOrOld(k)
  BY <1>1 DEF RowIsCurrentOrOld
<1> HIDE DEF RowIsCurrentOrOld, Shaped, Shut, RowRead, HasAccount
<1> QED  BY <1>1, <1>2, <1>3, <1>4, <1>5 DEF Good

LEMMA CheckEmailKeeps ==
  ASSUME AccountsInv, NEW c \in Caller, CheckEmail(c)
  PROVE  AccountsInv'
<1>1. /\ req[c].pc = "check"
      /\ UNCHANGED <<users, linked, vaulted, devices, sessions, minted, menu>>
  BY DEF CheckEmail, At, bounds
<1>2. CASE Return(c, "refused")
  BY <1>1, <1>2, QuietReturnKeeps
<1>3. CASE Step(c, "insert") /\ UNCHANGED <<vlock, permits, answer>>
  <2>1. PICK k : k = [req[c] EXCEPT !.pc = "insert"]
    OBVIOUS
  <2>2. req' = [req EXCEPT ![c] = k]
    BY <1>3, <2>1 DEF Step
  <2>3. Good(k, c) /\ k.held = req[c].held
    BY <1>1, <2>1, StepIsGood DEF AccountPc, LoginPc, OidcPc
  <2>4. DataTyped'
    BY <1>1 DEF AccountsInv, AccountTables, DataTyped
  <2> QED  BY <1>1, <1>3, <2>2, <2>3, <2>4, MoveKeeps
<1> QED  BY <1>2, <1>3 DEF CheckEmail

\* A row is made where there is none: nobody has read it.
LEMMA NewUserRow ==
  ASSUME AccountsInv, NEW e \in Email, ~Known(users[e]), NEW pw \in Nat,
         users' = [users EXCEPT ![e] = NewUser(pw)]
  PROVE  /\ users' \in [Email -> User \cup {NoUser}]
         /\ UsersGrow /\ StayShut
<1>1. NewUser(pw) \in User
  BY DEF NewUser, User
<1>2. users \in [Email -> User \cup {NoUser}]
  BY DEF AccountsInv, AccountTables, DataTyped
<1>3. \A f \in Email : Known(users[f]) => users'[f] = users[f]
  BY <1>2
<1> HIDE DEF User
<1> QED  BY <1>1, <1>2, <1>3 DEF UsersGrow, StayShut, Shut, Known

LEMMA RegisterInsertKeeps ==
  ASSUME AccountsInv, NEW c \in Caller, RegisterInsert(c)
  PROVE  AccountsInv'
<1>a. PICK e : e = req[c].e
  OBVIOUS
<1>1. /\ req[c].pc = "insert" /\ e \in Email
      /\ UNCHANGED <<linked, menu>>
  BY <1>a, RequestOf DEF RegisterInsert, At, bounds
<1>2. CASE Known(users[e])
  BY <1>a, <1>1, <1>2, QuietReturnKeeps DEF RegisterInsert
<1>3. CASE ~Known(users[e])
  <2>1. PICK i : /\ devices' = [devices EXCEPT ![i] = NewDevice(e)]
                 /\ sessions' = [sessions EXCEPT ![i] = NewSession(e, minted + 2)]
    BY <1>a, <1>3 DEF RegisterInsert
  <2>2. /\ users' = [users EXCEPT ![e] = NewUser(minted + 1)]
        /\ vaulted' = vaulted \cup {e} /\ minted' = minted + 2
        /\ Return(c, "ok")
    BY <1>a, <1>3 DEF RegisterInsert
  <2>3. DataTyped /\ minted + 1 \in Nat /\ minted + 2 \in Nat
    BY DEF AccountsInv, AccountTables, DataTyped
  <2>4. NewDevice(e) \in Device /\ NewSession(e, minted + 2) \in UserSession
    BY <1>1, <2>3 DEF NewDevice, NewSession, Device, UserSession
  <2>5. /\ users' \in [Email -> User \cup {NoUser}]
        /\ UsersGrow /\ StayShut
    BY <1>1, <1>3, <2>2, <2>3, NewUserRow
  <2>6. DataTyped'
    <3>1. devices' \in [SessionId -> Device \cup {NoSession}]
      BY <2>1, <2>3, <2>4 DEF DataTyped
    <3>2. sessions' \in [SessionId -> UserSession \cup {NoSession}]
      BY <2>1, <2>3, <2>4 DEF DataTyped
    <3>3. /\ linked' \in [Subject -> Email \cup {Nobody}]
          /\ vaulted' \subseteq Email /\ minted' \in Nat
      BY <1>1, <2>2, <2>3 DEF DataTyped
    <3> QED  BY <2>5, <3>1, <3>2, <3>3 DEF DataTyped
  <2>7. VaultsGrow(c)
    <3>1. ASSUME NEW d \in Caller, req[d].pc = "vault_insert"
          PROVE  Known(users[req[d].e])
      BY <3>1, RequestOf DEF Good, HasAccount, LoginPc, Known
    <3> QED  BY <1>a, <1>3, <2>2, <3>1 DEF VaultsGrow
  <2> QED  BY <1>1, <2>2, <2>5, <2>6, <2>7, ReturnKeeps
<1> QED  BY <1>2, <1>3

LEMMA CreateUserKeeps ==
  ASSUME AccountsInv, NEW c \in Caller, CreateUser(c)
  PROVE  AccountsInv'
<1>a. PICK e : e = req[c].e
  OBVIOUS
<1>1. /\ req[c].pc = "insert" /\ e \in Email
      /\ UNCHANGED <<linked, vaulted, devices, sessions, menu>>
  BY <1>a, RequestOf DEF CreateUser, At, bounds
<1>2. CASE Known(users[e])
  BY <1>a, <1>1, <1>2, QuietReturnKeeps DEF CreateUser
<1>3. CASE ~Known(users[e])
  <2>1. /\ users' = [users EXCEPT ![e] = NewUser(minted + 1)]
        /\ minted' = minted + 1 /\ Return(c, "ok")
    BY <1>a, <1>3 DEF CreateUser
  <2>2. DataTyped /\ minted + 1 \in Nat
    BY DEF AccountsInv, AccountTables, DataTyped
  <2>3. /\ users' \in [Email -> User \cup {NoUser}]
        /\ UsersGrow /\ StayShut
    BY <1>1, <1>3, <2>1, <2>2, NewUserRow
  <2>4. DataTyped'
    BY <1>1, <2>1, <2>2, <2>3 DEF DataTyped
  <2> QED  BY <1>1, <2>1, <2>3, <2>4, ReturnKeeps, VaultsQuiet
<1> QED  BY <1>2, <1>3

\* A login through OIDC, up to the device.
LEMMA FindIdentityKeeps ==
  ASSUME AccountsInv, NEW c \in Caller, FindIdentity(c)
  PROVE  AccountsInv'
<1>1. PICK e : e = LinkedUser(req[c].sub)
  OBVIOUS
<1>2. /\ req[c].pc = "identity" /\ req[c].op = "oidc" /\ answer[c] = "none"
      /\ UNCHANGED <<users, linked, vaulted, devices, sessions, minted, menu>>
  BY RequestOf DEF FindIdentity, At, bounds, Good, OidcPc
<1>3. DataTyped'
  BY <1>2 DEF AccountsInv, AccountTables, DataTyped
<1>4. CASE Return(c, "refused")
  BY <1>2, <1>4, QuietReturnKeeps
<1>5. CASE Step(c, "by_email") /\ UNCHANGED <<vlock, permits, answer>>
  <2>1. PICK k : k = [req[c] EXCEPT !.pc = "by_email"]
    OBVIOUS
  <2>2. req' = [req EXCEPT ![c] = k]
    BY <1>5, <2>1 DEF Step
  <2>3. Good(k, c) /\ k.held = req[c].held
    BY <1>2, <2>1, StepIsGood DEF AccountPc, LoginPc, OidcPc
  <2> QED  BY <1>2, <1>3, <1>5, <2>2, <2>3, MoveKeeps
<1>6. CASE /\ e # Nobody /\ Known(GetUser(e))
           /\ req' = [req EXCEPT ![c].e = e, ![c].pc = "device"]
           /\ UNCHANGED <<vlock, permits, answer>>
  <2>1. e \in Email
    <3>1. req[c].sub \in Subject
      BY <1>2, RequestOf DEF Good, OidcPc
    <3>2. linked \in [Subject -> Email \cup {Nobody}]
      BY DEF AccountsInv, AccountTables, DataTyped
    <3> QED  BY <1>1, <1>6, <3>1, <3>2 DEF LinkedUser
  <2>2. users[e] \in User
    BY <1>6, NoUserAssumption DEF GetUser, Known
  <2>3. PICK k : k = [req[c] EXCEPT !.e = e, !.pc = "device"]
    OBVIOUS
  <2>4. req' = [req EXCEPT ![c] = k]
    BY <1>6, <2>3
  <2>5. /\ Shaped(k) /\ k.pc = "device" /\ k.op = req[c].op /\ k.e = e
        /\ k.held = req[c].held
    <3>1. PICK id, shut, saw : req[c] \in Request(id, shut, saw)
      BY RequestOf DEF Shaped
    <3>2. "device" \in AccountPc
      BY DEF AccountPc
    <3>3. /\ k \in Request(id, shut, saw)
          /\ k.pc = "device" /\ k.op = req[c].op /\ k.e = e /\ k.held = req[c].held
      BY <2>1, <2>3, <3>1, <3>2 DEF Request
    <3> QED  BY <3>3 DEF Shaped
  <2>6. ~RowRead(k)
    BY <1>2, <2>5 DEF RowRead
  <2>7. Good(k, c)
    <3> HIDE DEF Shaped, Shut, RowRead
    <3> QED  BY <1>2, <2>1, <2>2, <2>5, <2>6 DEF Good, OidcPc
  <2> QED  BY <1>2, <1>3, <1>6, <2>4, <2>5, <2>7, MoveKeeps
<1> QED  BY <1>1, <1>4, <1>5, <1>6 DEF FindIdentity

LEMMA FindByEmailKeeps ==
  ASSUME AccountsInv, NEW c \in Caller, FindByEmail(c)
  PROVE  AccountsInv'
<1>1. PICK u : u = GetByEmail(req[c].e)
  OBVIOUS
<1>2. PICK pc : pc = IF Known(u) THEN "link" ELSE "new_user"
  OBVIOUS
<1>3. /\ req[c].pc = "by_email" /\ req[c].op = "oidc" /\ answer[c] = "none"
      /\ req[c].e \in Email /\ req[c].sub \in Subject
      /\ UNCHANGED <<users, linked, vaulted, vlock, devices, sessions, permits, minted, answer, menu>>
  BY RequestOf DEF FindByEmail, At, tables, bounds, Good, OidcPc
<1>4. DataTyped'
  BY <1>3 DEF AccountsInv, AccountTables, DataTyped
<1>5. users[req[c].e] \in User \cup {NoUser}
  BY <1>3 DEF AccountsInv, AccountTables, DataTyped
<1>6. /\ u \in User \cup {NoUser}
      /\ pc = "link" => users[req[c].e] \in User
      /\ pc \in {"link", "new_user"} /\ pc \in AccountPc
  BY <1>1, <1>2, <1>5, NoUserAssumption DEF GetByEmail, GetUser, Known, AccountPc
<1>7. PICK k : k = [req[c] EXCEPT !.row = u, !.pc = pc]
  OBVIOUS
<1>8. req' = [req EXCEPT ![c] = k]
  BY <1>1, <1>2, <1>7 DEF FindByEmail
<1>9. /\ Shaped(k) /\ k.pc = pc /\ k.op = req[c].op /\ k.e = req[c].e
      /\ k.held = req[c].held /\ k.sub = req[c].sub
  <2>1. PICK id, shut, saw : req[c] \in Request(id, shut, saw)
    BY RequestOf DEF Shaped
  <2>2. /\ k \in Request(id, shut, saw)
        /\ k.pc = pc /\ k.op = req[c].op /\ k.e = req[c].e /\ k.held = req[c].held
        /\ k.sub = req[c].sub
    BY <1>6, <1>7, <2>1 DEF Request
  <2> QED  BY <2>2 DEF Shaped
<1>10. ~RowRead(k)
  BY <1>6, <1>9 DEF RowRead, LoginPc
<1>11. HasAccount(k) => pc = "link"
  BY <1>6, <1>9, <1>10 DEF HasAccount, LoginPc
<1>12. Good(k, c)
  <2> HIDE DEF Shaped, Shut, RowRead, HasAccount
  <2> QED  BY <1>3, <1>6, <1>9, <1>10, <1>11 DEF Good, OidcPc
<1> QED  BY <1>3, <1>4, <1>8, <1>9, <1>12, MoveKeeps

\* The user that the provider vouches for has a row now.
LEMMA CreateOidcUserKeeps ==
  ASSUME AccountsInv, NEW c \in Caller, CreateOidcUser(c)
  PROVE  AccountsInv'
<1>1. PICK e : e = req[c].e
  OBVIOUS
<1>2. /\ req[c].pc = "new_user" /\ req[c].op = "oidc" /\ answer[c] = "none"
      /\ e \in Email /\ req[c].sub \in Subject
      /\ UNCHANGED <<linked, vaulted, devices, sessions, minted, menu>>
  BY <1>1, RequestOf DEF CreateOidcUser, At, bounds, Good, OidcPc
<1>3. CASE Known(users[e])
  BY <1>1, <1>2, <1>3, QuietReturnKeeps DEF CreateOidcUser
<1>4. CASE ~Known(users[e])
  <2>1. PICK k : k = [req[c] EXCEPT !.row = NewUser(0), !.pc = "link"]
    OBVIOUS
  <2>2. /\ users' = [users EXCEPT ![e] = NewUser(0)]
        /\ req' = [req EXCEPT ![c] = k]
        /\ UNCHANGED <<vlock, permits, answer>>
    BY <1>1, <1>4, <2>1 DEF CreateOidcUser
  <2>3. NewUser(0) \in User
    BY DEF NewUser, User
  <2>4. /\ users' \in [Email -> User \cup {NoUser}]
        /\ UsersGrow /\ StayShut
    BY <1>2, <1>4, <2>2, NewUserRow
  <2>5. users'[e] \in User
    BY <1>2, <2>2, <2>3 DEF AccountsInv, AccountTables, DataTyped
  <2>6. DataTyped'
    BY <1>2, <2>4 DEF AccountsInv, AccountTables, DataTyped
  <2>7. /\ Shaped(k) /\ k.pc = "link" /\ k.op = req[c].op /\ k.e = e
        /\ k.held = req[c].held /\ k.sub = req[c].sub
    <3>1. PICK id, shut, saw : req[c] \in Request(id, shut, saw)
      BY RequestOf DEF Shaped
    <3>2. "link" \in AccountPc
      BY DEF AccountPc
    <3>3. /\ k \in Request(id, shut, saw)
          /\ k.pc = "link" /\ k.op = req[c].op /\ k.e = req[c].e /\ k.held = req[c].held
          /\ k.sub = req[c].sub
      BY <2>1, <2>3, <3>1, <3>2 DEF Request
    <3> QED  BY <1>1, <3>3 DEF Shaped
  <2>8. Good(k, c)'
    <3>1. Shaped(k)'
      BY <2>7 DEF Shaped, Request
    <3>2. ~RowRead(k)'
      BY <1>2, <2>7 DEF RowRead, LoginPc
    <3>3. HasAccount(k)' => users'[k.e] \in User
      BY <2>5, <2>7
    <3>4. answer'[c] = "none"
      BY <1>2, <2>2
    <3> HIDE DEF Shaped, Shut, RowRead, HasAccount
    <3> QED  BY <1>2, <2>7, <3>1, <3>2, <3>3, <3>4 DEF Good, OidcPc
  <2>9. PermitsCounted'
    <3>1. \A d \in Caller : req'[d].held = req[d].held
      BY <2>2, <2>7, OthersHold
    <3> QED  BY <2>2, <3>1, PermitsStay DEF AccountsInv
  <2>10. AccountTables' /\ LocksKept(c)
    BY <2>2, <2>6 DEF AccountsInv, AccountTables, LocksKept
  <2>11. /\ \A d \in Caller \ {c} : answer'[d] = answer[d]
         /\ ReadCommitted => answer'[c] # "stumbled"
    BY <2>2 DEF AccountsInv, NeverStumbled
  <2> QED  BY <1>2, <2>2, <2>4, <2>8, <2>9, <2>10, <2>11, VaultsQuiet, RequestStep
<1> QED  BY <1>3, <1>4

LEMMA LinkIdentityKeeps ==
  ASSUME AccountsInv, NEW c \in Caller, LinkIdentity(c)
  PROVE  AccountsInv'
<1>1. PICK s : s = req[c].sub
  OBVIOUS
<1>2. /\ req[c].pc = "link" /\ req[c].op = "oidc" /\ req[c].e \in Email
      /\ users[req[c].e] \in User
      /\ UNCHANGED <<users, vaulted, devices, sessions, minted, menu>>
  BY RequestOf DEF LinkIdentity, At, bounds, Good, OidcPc, HasAccount
<1>3. CASE LinkedUser(s) # Nobody
  BY <1>1, <1>2, <1>3, QuietReturnKeeps DEF LinkIdentity
<1>4. CASE LinkedUser(s) = Nobody
  <2>1. linked' = WithLink(s, req[c].e)
    BY <1>1, <1>4 DEF LinkIdentity
  <2>2. DataTyped'
    BY <1>2, <2>1 DEF AccountsInv, AccountTables, DataTyped, WithLink
  <2>3. CASE Return(c, "refused")
    BY <1>2, <2>2, <2>3, UsersQuiet, VaultsQuiet, ReturnKeeps
  <2>4. CASE Step(c, "device") /\ UNCHANGED <<vlock, permits, answer>>
    <3>1. PICK k : k = [req[c] EXCEPT !.pc = "device"]
      OBVIOUS
    <3>2. req' = [req EXCEPT ![c] = k]
      BY <2>4, <3>1 DEF Step
    <3>3. Good(k, c) /\ k.held = req[c].held
      BY <1>2, <3>1, StepIsGood DEF AccountPc, LoginPc, OidcPc
    <3> QED  BY <1>2, <2>2, <2>4, <3>2, <3>3, MoveKeeps
  <2> QED  BY <1>1, <1>4, <2>3, <2>4 DEF LinkIdentity
<1> QED  BY <1>3, <1>4

\* The end of a login: device, session and personal vault.
LEMMA InsertDeviceKeeps ==
  ASSUME AccountsInv, NEW c \in Caller, NEW op, InsertDevice(c, op)
  PROVE  AccountsInv'
<1>1. PICK i : /\ devices' = [devices EXCEPT ![i] = NewDevice(req[c].e)]
               /\ req' = [req EXCEPT ![c].id = i, ![c].pc = "session"]
  BY DEF InsertDevice
<1>2. /\ req[c].pc = "device" /\ req[c].e \in Email
      /\ UNCHANGED <<users, linked, vaulted, vlock, sessions, permits, minted, answer, menu>>
  BY RequestOf DEF InsertDevice, At, bounds
<1>3. PICK k : k = [req[c] EXCEPT !.id = i, !.pc = "session"]
  OBVIOUS
<1>4. req' = [req EXCEPT ![c] = k]
  BY <1>1, <1>3
<1>5. /\ Shaped(k) /\ k.pc = "session" /\ k.op = req[c].op /\ k.e = req[c].e
      /\ k.row = req[c].row /\ k.held = req[c].held /\ k.shut = req[c].shut
  <2>1. PICK id, shut, saw : req[c] \in Request(id, shut, saw)
    BY RequestOf DEF Shaped
  <2>2. "session" \in AccountPc
    BY DEF AccountPc
  <2>3. /\ k \in Request(i, shut, saw)
        /\ k.pc = "session" /\ k.op = req[c].op /\ k.e = req[c].e
        /\ k.row = req[c].row /\ k.held = req[c].held /\ k.shut = req[c].shut
    BY <1>3, <2>1, <2>2 DEF Request
  <2> QED  BY <2>3 DEF Shaped
<1>6. DataTyped'
  <2>1. NewDevice(req[c].e) \in Device
    BY <1>2 DEF NewDevice, Device
  <2>2. devices' \in [SessionId -> Device \cup {NoSession}]
    BY <1>1, <2>1 DEF AccountsInv, AccountTables, DataTyped
  <2> QED  BY <1>2, <2>2 DEF AccountsInv, AccountTables, DataTyped
<1>7. /\ users[req[c].e] \in User
      /\ answer[c] = "none"
      /\ req[c].op # "oidc" => RowIsCurrentOrOld(req[c])
      /\ req[c].op # "oidc" /\ req[c].shut => Shut(req[c].e)
      /\ req[c].op = "unblock" => req[c].held = 0
  BY <1>2, RequestOf DEF Good, HasAccount, RowRead, LoginPc
<1>8. RowIsCurrentOrOld(req[c]) => RowIsCurrentOrOld(k)
  BY <1>5 DEF RowIsCurrentOrOld
<1>9. RowRead(k) => req[c].op # "oidc"
  BY <1>5 DEF RowRead
<1>10. Good(k, c)
  <2> HIDE DEF RowIsCurrentOrOld, Shaped, Shut, RowRead, HasAccount
  <2> QED  BY <1>2, <1>5, <1>7, <1>8, <1>9 DEF Good, OidcPc
<1> QED  BY <1>2, <1>4, <1>5, <1>6, <1>10, MoveKeeps

LEMMA InsertSessionKeeps ==
  ASSUME AccountsInv, NEW c \in Caller, NEW op, InsertSession(c, op)
  PROVE  AccountsInv'
<1>1. /\ req[c].pc = "session" /\ req[c].e \in Email
      /\ minted' = minted + 1
      /\ UNCHANGED <<users, linked, vaulted, vlock, devices, permits, answer, menu>>
  BY RequestOf DEF InsertSession, At, bounds
<1>2. PICK k : k = [req[c] EXCEPT !.pc = "vault_tx"]
  OBVIOUS
<1>3. req' = [req EXCEPT ![c] = k]
  BY <1>2 DEF InsertSession, Step
<1>4. DataTyped'
  <2>1. minted \in Nat /\ minted + 1 \in Nat
    BY DEF AccountsInv, AccountTables, DataTyped
  <2>2. NewSession(req[c].e, minted + 1) \in UserSession
    BY <1>1, <2>1 DEF NewSession, UserSession
  <2>3. sessions' \in [SessionId -> UserSession \cup {NoSession}]
    BY <2>2 DEF InsertSession, AccountsInv, AccountTables, DataTyped
  <2> QED  BY <1>1, <2>1, <2>3 DEF AccountsInv, AccountTables, DataTyped
<1>5. /\ users[req[c].e] \in User
      /\ req[c].op # "oidc" => RowIsCurrentOrOld(req[c])
  BY <1>1, RequestOf DEF Good, HasAccount, RowRead, LoginPc
<1>6. Good(k, c) /\ k.held = req[c].held
  BY <1>1, <1>2, <1>5, StepIsGood DEF AccountPc, LoginPc, OidcPc
<1> QED  BY <1>1, <1>3, <1>4, <1>6, MoveKeeps

LEMMA BeginVaultKeeps ==
  ASSUME AccountsInv, NEW c \in Caller, BeginVault(c)
  PROVE  AccountsInv'
<1>1. PICK saw : saw = (req[c].e \in vaulted)
  OBVIOUS
<1>2. /\ req[c].pc = "vault_tx" /\ req[c].e \in Email
      /\ UNCHANGED <<users, linked, vaulted, vlock, devices, sessions, permits, minted, answer, menu>>
  BY RequestOf DEF BeginVault, At, tables, bounds
<1>3. PICK k : k = [req[c] EXCEPT !.saw = saw, !.pc = "lock"]
  OBVIOUS
<1>4. req' = [req EXCEPT ![c] = k]
  BY <1>1, <1>3 DEF BeginVault
<1>5. /\ Shaped(k) /\ k.pc = "lock" /\ k.op = req[c].op /\ k.e = req[c].e
      /\ k.row = req[c].row /\ k.held = req[c].held /\ k.shut = req[c].shut /\ k.saw = saw
  <2>1. PICK id, shut, old : req[c] \in Request(id, shut, old)
    BY RequestOf DEF Shaped
  <2>2. "lock" \in AccountPc
    BY DEF AccountPc
  <2>3. /\ k \in Request(id, shut, saw)
        /\ k.pc = "lock" /\ k.op = req[c].op /\ k.e = req[c].e
        /\ k.row = req[c].row /\ k.held = req[c].held /\ k.shut = req[c].shut /\ k.saw = saw
    BY <1>3, <2>1, <2>2 DEF Request
  <2> QED  BY <2>3 DEF Shaped
<1>6. DataTyped'
  BY <1>2 DEF AccountsInv, AccountTables, DataTyped
<1>7. /\ users[req[c].e] \in User
      /\ answer[c] = "none"
      /\ req[c].op # "oidc" => RowIsCurrentOrOld(req[c])
      /\ req[c].op # "oidc" /\ req[c].shut => Shut(req[c].e)
      /\ req[c].op = "unblock" => req[c].held = 0
  BY <1>2, RequestOf DEF Good, HasAccount, RowRead, LoginPc
<1>8. RowIsCurrentOrOld(req[c]) => RowIsCurrentOrOld(k)
  BY <1>5 DEF RowIsCurrentOrOld
<1>9. RowRead(k) => req[c].op # "oidc"
  BY <1>5 DEF RowRead
<1>10. saw => req[c].e \in vaulted
  BY <1>1, Zenon
<1>11. Good(k, c)
  <2> HIDE DEF RowIsCurrentOrOld, Shaped, Shut, RowRead, HasAccount
  <2> QED  BY <1>2, <1>5, <1>7, <1>8, <1>9, <1>10 DEF Good, OidcPc
<1> QED  BY <1>2, <1>4, <1>5, <1>6, <1>11, MoveKeeps

\* The lock was free: nobody else is between the lock and the COMMIT.
LEMMA LockVaultKeeps ==
  ASSUME AccountsInv, NEW c \in Caller, LockVault(c)
  PROVE  AccountsInv'
<1>1. /\ req[c].pc = "lock" /\ req[c].e \in Email
      /\ vlock[req[c].e] = Nobody /\ vlock' = [vlock EXCEPT ![req[c].e] = c]
      /\ UNCHANGED <<users, linked, vaulted, devices, sessions, permits, minted, answer, menu>>
  BY RequestOf DEF LockVault, LockAvailable, At, bounds
<1>2. PICK k : k = [req[c] EXCEPT !.pc = "vault_select"]
  OBVIOUS
<1>3. req' = [req EXCEPT ![c] = k]
  BY <1>2 DEF LockVault, Step
<1>4. /\ Shaped(k) /\ k.pc = "vault_select" /\ k.op = req[c].op /\ k.e = req[c].e
      /\ k.row = req[c].row /\ k.held = req[c].held /\ k.shut = req[c].shut
      /\ k.saw = req[c].saw
  BY <1>2, RequestOf, MovedIs DEF AccountPc
<1>5. /\ users[req[c].e] \in User
      /\ answer[c] = "none"
      /\ req[c].op # "oidc" => RowIsCurrentOrOld(req[c])
      /\ req[c].op # "oidc" /\ req[c].shut => Shut(req[c].e)
      /\ req[c].op = "unblock" => req[c].held = 0
      /\ req[c].saw => req[c].e \in vaulted
  BY <1>1, RequestOf DEF Good, HasAccount, RowRead, LoginPc
<1>6. /\ AccountTables' /\ LocksKept(c)
      /\ vlock'[req[c].e] = c
  BY <1>1, AccountsAssumption DEF AccountsInv, AccountTables, DataTyped, LocksKept
<1>7. /\ UsersGrow /\ StayShut /\ VaultsGrow(c)
      /\ \A d \in Caller \ {c} : answer'[d] = answer[d]
      /\ ReadCommitted => answer'[c] # "stumbled"
  BY <1>1, UsersQuiet, VaultsQuiet DEF AccountsInv, NeverStumbled
<1>8. PermitsCounted'
  <2>1. \A d \in Caller : req'[d].held = req[d].held
    BY <1>3, <1>4, OthersHold
  <2> QED  BY <1>1, <2>1, PermitsStay DEF AccountsInv
<1>9. Good(k, c)'
  <2>1. RowIsCurrentOrOld(req[c]) => RowIsCurrentOrOld(k)'
    BY <1>1, <1>4 DEF RowIsCurrentOrOld
  <2>2. Shut(req[c].e) => Shut(k.e)'
    BY <1>1, <1>4 DEF Shut, Known
  <2>3. Shaped(k)'
    BY <1>4 DEF Shaped, Request
  <2>4. RowRead(k)' => req[c].op # "oidc"
    BY <1>4 DEF RowRead
  <2>5. HasAccount(k)' => users'[k.e] \in User
    BY <1>1, <1>4, <1>5
  <2> HIDE DEF RowIsCurrentOrOld, Shaped, Shut, RowRead, HasAccount
  <2> QED  BY <1>1, <1>4, <1>5, <1>6, <2>1, <2>2, <2>3, <2>4, <2>5 DEF Good, OidcPc
<1> QED  BY <1>1, <1>3, <1>6, <1>7, <1>8, <1>9, RequestStep

\* The transaction commits with the vault there: the lock is free again.
LEMMA AfterVaultKeeps ==
  ASSUME AccountsInv, NEW c \in Caller, AfterVault(c),
         req[c].pc \in {"vault_select", "vault_insert"},
         DataTyped', VaultsGrow(c), req[c].e \in vaulted', UNCHANGED <<users, menu>>
  PROVE  AccountsInv'
<1>1. CASE req[c].op = "oidc"
  <2>1. Return(c, "ok")
    BY <1>1 DEF AfterVault
  <2> QED  BY <2>1, UsersQuiet, ReturnKeeps
<1>2. CASE req[c].op # "oidc"
  <2>1. PICK k : k = [req[c] EXCEPT !.pc = "seen"]
    OBVIOUS
  <2>2. /\ req' = [req EXCEPT ![c] = k]
        /\ vlock' = [vlock EXCEPT ![req[c].e] = Nobody]
        /\ UNCHANGED <<permits, answer>>
    BY <1>2, <2>1 DEF AfterVault, Step
  <2>3. /\ Shaped(k) /\ k.pc = "seen" /\ k.op = req[c].op /\ k.e = req[c].e
        /\ k.row = req[c].row /\ k.held = req[c].held /\ k.shut = req[c].shut
    BY <2>1, RequestOf, MovedIs DEF AccountPc
  <2>4. /\ users[req[c].e] \in User /\ req[c].e \in Email
        /\ answer[c] = "none"
        /\ RowIsCurrentOrOld(req[c])
        /\ req[c].shut => Shut(req[c].e)
        /\ req[c].op = "unblock" => req[c].held = 0
        /\ vlock[req[c].e] = c
    BY <1>2, RequestOf DEF Good, HasAccount, RowRead, LoginPc
  <2>5. AccountTables' /\ LocksKept(c)
    BY <2>2, <2>4 DEF AccountsInv, AccountTables, LocksKept
  <2>6. /\ UsersGrow /\ StayShut
        /\ \A d \in Caller \ {c} : answer'[d] = answer[d]
        /\ ReadCommitted => answer'[c] # "stumbled"
    BY <2>2, UsersQuiet DEF AccountsInv, NeverStumbled
  <2>7. PermitsCounted'
    <3>1. \A d \in Caller : req'[d].held = req[d].held
      BY <2>2, <2>3, OthersHold
    <3> QED  BY <2>2, <3>1, PermitsStay DEF AccountsInv
  <2>8. Good(k, c)'
    <3>1. RowIsCurrentOrOld(k)'
      BY <2>3, <2>4 DEF RowIsCurrentOrOld
    <3>2. Shut(req[c].e) => Shut(k.e)'
      BY <2>3 DEF Shut, Known
    <3>3. Shaped(k)'
      BY <2>3 DEF Shaped, Request
    <3>4. answer'[c] = "none" /\ users'[k.e] \in User /\ k.e \in vaulted'
      BY <2>2, <2>3, <2>4
    <3> HIDE DEF RowIsCurrentOrOld, Shaped, Shut, RowRead, HasAccount
    <3> QED  BY <2>3, <2>4, <3>1, <3>2, <3>3, <3>4 DEF Good, OidcPc
  <2> QED  BY <2>2, <2>5, <2>6, <2>7, <2>8, RequestStep
<1> QED  BY <1>1, <1>2

LEMMA SelectVaultKeeps ==
  ASSUME AccountsInv, NEW c \in Caller, SelectVault(c)
  PROVE  AccountsInv'
<1>1. /\ req[c].pc = "vault_select" /\ req[c].e \in Email
      /\ UNCHANGED <<users, linked, vaulted, devices, sessions, minted, menu>>
  BY RequestOf DEF SelectVault, At, bounds
<1>2. DataTyped'
  BY <1>1 DEF AccountsInv, AccountTables, DataTyped
<1>3. CASE req[c].saw \/ (ReadCommitted /\ req[c].e \in vaulted)
  <2>1. AfterVault(c)
    BY <1>3 DEF SelectVault, ReadCommitted
  <2>2. req[c].e \in vaulted'
    BY <1>1, <1>3, RequestOf DEF Good
  <2> QED  BY <1>1, <1>2, <2>1, <2>2, VaultsQuiet, AfterVaultKeeps
<1>4. CASE ~(req[c].saw \/ (ReadCommitted /\ req[c].e \in vaulted))
  <2>1. PICK k : k = [req[c] EXCEPT !.pc = "vault_insert"]
    OBVIOUS
  <2>2. /\ req' = [req EXCEPT ![c] = k]
        /\ UNCHANGED <<vlock, permits, answer>>
    BY <1>4, <2>1 DEF SelectVault, ReadCommitted, Step
  <2>3. /\ Shaped(k) /\ k.pc = "vault_insert" /\ k.op = req[c].op /\ k.e = req[c].e
        /\ k.row = req[c].row /\ k.held = req[c].held /\ k.shut = req[c].shut
        /\ k.saw = req[c].saw
    BY <2>1, RequestOf, MovedIs DEF AccountPc
  <2>4. /\ users[req[c].e] \in User
        /\ answer[c] = "none"
        /\ req[c].op # "oidc" => RowIsCurrentOrOld(req[c])
        /\ req[c].op # "oidc" /\ req[c].shut => Shut(req[c].e)
        /\ req[c].op = "unblock" => req[c].held = 0
        /\ vlock[req[c].e] = c
    BY <1>1, RequestOf DEF Good, HasAccount, RowRead, LoginPc
  <2>5. RowIsCurrentOrOld(req[c]) => RowIsCurrentOrOld(k)
    BY <2>3 DEF RowIsCurrentOrOld
  <2>6. RowRead(k) => req[c].op # "oidc"
    BY <2>3 DEF RowRead
  <2>7. Good(k, c)
    <3> HIDE DEF RowIsCurrentOrOld, Shaped, Shut, RowRead, HasAccount, ReadCommitted
    <3> QED  BY <1>1, <1>4, <2>3, <2>4, <2>5, <2>6 DEF Good, OidcPc
  <2> QED  BY <1>1, <1>2, <2>2, <2>3, <2>7, MoveKeeps
<1> QED  BY <1>3, <1>4

\* The holder of the lock makes the vault; nobody else is about to.
LEMMA InsertVaultKeeps ==
  ASSUME AccountsInv, NEW c \in Caller, InsertVault(c)
  PROVE  AccountsInv'
<1>1. /\ req[c].pc = "vault_insert" /\ req[c].e \in Email
      /\ UNCHANGED <<users, linked, devices, sessions, minted, menu>>
  BY RequestOf DEF InsertVault, At, bounds
<1>2. CASE req[c].e \in vaulted
  <2>1. Return(c, "stumbled") /\ UNCHANGED vaulted
    BY <1>2 DEF InsertVault
  <2>2. ~ReadCommitted
    BY <1>1, <1>2, RequestOf DEF Good
  <2>3. DataTyped'
    BY <1>1, <2>1 DEF AccountsInv, AccountTables, DataTyped
  <2> QED  BY <1>1, <2>1, <2>2, <2>3, UsersQuiet, VaultsQuiet, ReturnKeeps
<1>3. CASE req[c].e \notin vaulted
  <2>1. vaulted' = vaulted \cup {req[c].e} /\ AfterVault(c)
    BY <1>3 DEF InsertVault
  <2>2. DataTyped'
    BY <1>1, <2>1 DEF AccountsInv, AccountTables, DataTyped
  <2>3. VaultsGrow(c)
    <3>1. vlock[req[c].e] = c
      BY <1>1, RequestOf DEF Good
    <3>2. ASSUME NEW d \in Caller, req[d].pc = "vault_insert"
          PROVE  vlock[req[d].e] = d
      BY <3>2, RequestOf DEF Good
    <3> QED  BY <2>1, <3>1, <3>2 DEF VaultsGrow
  <2> QED  BY <1>1, <2>1, <2>2, <2>3, AfterVaultKeeps
<1> QED  BY <1>2, <1>3

\* A guarded UPDATE counts the version of one row up.
LEMMA StoredRow ==
  ASSUME AccountsInv, NEW e \in Email, users[e] \in User, NEW u \in User, StoreUser(e, u)
  PROVE  /\ users' \in [Email -> User \cup {NoUser}]
         /\ UsersGrow
         /\ users'[e] \in User /\ users'[e].deleted = u.deleted /\ users'[e].status = u.status
         /\ \A f \in Email \ {e} : users'[f] = users[f]
<1>1. PICK v : v = [u EXCEPT !.rv = users[e].rv + 1]
  OBVIOUS
<1>2. users' = [users EXCEPT ![e] = v]
  BY <1>1 DEF StoreUser
<1>3. users[e].rv \in Nat
  BY DEF User
<1>4. /\ v \in User /\ v.rv = users[e].rv + 1
      /\ v.deleted = u.deleted /\ v.status = u.status
  BY <1>1, <1>3 DEF User
<1>5. users \in [Email -> User \cup {NoUser}]
  BY DEF AccountsInv, AccountTables, DataTyped
<1>6. /\ users'[e] = v
      /\ \A f \in Email \ {e} : users'[f] = users[f]
  BY <1>2, <1>5
<1> HIDE DEF User
<1>7. users' \in [Email -> User \cup {NoUser}]
  BY <1>2, <1>4, <1>5
<1>8. v.rv > users[e].rv
  BY <1>3, <1>4
<1>9. UsersGrow
  BY <1>4, <1>6, <1>8 DEF UsersGrow
<1> QED  BY <1>4, <1>6, <1>7, <1>9

\* A user who was shut out and stays deleted or blocked is shut out still.
LEMMA StoredUser ==
  ASSUME AccountsInv, NEW e \in Email, users[e] \in User, NEW u \in User, StoreUser(e, u),
         users[e].deleted => u.deleted,
         users[e].status # "active" => u.status # "active"
  PROVE  /\ users' \in [Email -> User \cup {NoUser}]
         /\ UsersGrow /\ StayShut
<1>1. /\ users' \in [Email -> User \cup {NoUser}]
      /\ UsersGrow
      /\ users'[e] \in User /\ users'[e].deleted = u.deleted /\ users'[e].status = u.status
      /\ \A f \in Email \ {e} : users'[f] = users[f]
  BY StoredRow
<1> HIDE DEF User
<1>2. ASSUME NEW f \in Email, Shut(f)
      PROVE  Shut(f)'
  <2>1. CASE f = e
    BY <1>1, <1>2, <2>1 DEF Shut, Known
  <2>2. CASE f # e
    BY <1>1, <1>2, <2>2 DEF Shut, Known
  <2> QED  BY <2>1, <2>2
<1> QED  BY <1>1, <1>2 DEF StayShut

LEMMA LastLoginKeeps ==
  ASSUME AccountsInv, NEW c \in Caller, LastLogin(c)
  PROVE  AccountsInv'
<1>1. /\ req[c].pc = "seen" /\ req[c].e \in Email /\ users[req[c].e] \in User
      /\ UNCHANGED <<linked, vaulted, devices, sessions, minted, menu>>
      /\ Return(c, "ok")
  BY RequestOf DEF LastLogin, At, bounds, Good, HasAccount, RowRead
<1>2. CASE Affects(c)
  <2>1. StoreUser(req[c].e, users[req[c].e])
    BY <1>2 DEF LastLogin
  <2>2. /\ users' \in [Email -> User \cup {NoUser}]
        /\ UsersGrow /\ StayShut
    BY <1>1, <2>1, StoredUser
  <2>3. DataTyped'
    BY <1>1, <2>2 DEF AccountsInv, AccountTables, DataTyped
  <2> QED  BY <1>1, <2>2, <2>3, VaultsQuiet, ReturnKeeps
<1>3. CASE ~Affects(c)
  <2>1. UNCHANGED users
    BY <1>3 DEF LastLogin
  <2> QED  BY <1>1, <2>1, QuietReturnKeeps
<1> QED  BY <1>2, <1>3

\* Sessions: found, refreshed, deleted, used.
LEMMA ReadSessionKeeps ==
  ASSUME AccountsInv, NEW c \in Caller, ReadSession(c)
  PROVE  AccountsInv'
<1>1. /\ req[c].pc = "session_read"
      /\ UNCHANGED <<users, linked, vaulted, devices, sessions, minted, menu>>
  BY DEF ReadSession, At, bounds
<1>2. CASE Return(c, "refused")
  BY <1>1, <1>2, QuietReturnKeeps
<1>3. CASE ~Return(c, "refused")
  <2>1. PICK i \in LiveByAccess(req[c].arg) \cup LiveByRefresh(req[c].arg) :
          /\ req' = [req EXCEPT ![c].id = i, ![c].e = sessions[i].user,
                       ![c].shut = req[c].shut /\ req[c].e = sessions[i].user,
                       ![c].pc = IF req[c].op = "auth" THEN "user" ELSE "session_write"]
          /\ UNCHANGED <<vlock, permits, answer>>
    BY <1>3 DEF ReadSession
  <2>2. sessions[i] \in UserSession
    BY <2>1 DEF LiveByAccess, LiveByRefresh, WithPair, AccountsInv, AccountTables, DataTyped
  <2>3. PICK e : e = sessions[i].user
    OBVIOUS
  <2>4. e \in Email
    BY <2>2, <2>3 DEF UserSession
  <2>5. PICK shut : shut = (req[c].shut /\ req[c].e = e)
    OBVIOUS
  <2>6. shut => req[c].shut /\ req[c].e = e
    BY <2>5, Zenon
  <2>7. PICK pc : pc = IF req[c].op = "auth" THEN "user" ELSE "session_write"
    OBVIOUS
  <2>8. pc \in {"user", "session_write"} /\ pc \in AccountPc
    BY <2>7 DEF AccountPc
  <2>9. PICK k : k = [req[c] EXCEPT !.id = i, !.e = e, !.shut = shut, !.pc = pc]
    OBVIOUS
  <2>10. req' = [req EXCEPT ![c] = k]
    BY <2>1, <2>3, <2>5, <2>7, <2>9
  <2>11. /\ Shaped(k) /\ k.pc = pc /\ k.op = req[c].op /\ k.e = e
         /\ k.held = req[c].held /\ k.shut = shut
    <3>1. PICK id, old, saw : req[c] \in Request(id, old, saw)
      BY RequestOf DEF Shaped
    <3>2. /\ k \in Request(i, shut, saw)
          /\ k.pc = pc /\ k.op = req[c].op /\ k.e = e
          /\ k.held = req[c].held /\ k.shut = shut
      BY <2>4, <2>8, <2>9, <3>1 DEF Request
    <3> QED  BY <3>2 DEF Shaped
  <2>12. /\ req[c].op # "oidc" /\ answer[c] = "none"
         /\ req[c].shut => Shut(req[c].e)
         /\ req[c].op = "unblock" => req[c].held = 0
    BY <1>1, RequestOf DEF Good
  <2>13. ~RowRead(k) /\ ~HasAccount(k)
    BY <2>8, <2>11 DEF RowRead, HasAccount, LoginPc
  <2>14. Good(k, c)
    <3> HIDE DEF Shaped, Shut, RowRead, HasAccount
    <3> QED  BY <2>4, <2>6, <2>8, <2>11, <2>12, <2>13 DEF Good, OidcPc
  <2>15. DataTyped'
    BY <1>1 DEF AccountsInv, AccountTables, DataTyped
  <2> QED  BY <1>1, <2>1, <2>10, <2>11, <2>14, <2>15, MoveKeeps
<1> QED  BY <1>2, <1>3

LEMMA RefreshKeeps ==
  ASSUME AccountsInv, NEW c \in Caller, Refresh(c)
  PROVE  AccountsInv'
<1>1. /\ req[c].pc = "session_write" /\ req[c].e \in Email
      /\ sessions' = [sessions EXCEPT ![req[c].id] = Refreshed(c)]
      /\ minted' = minted + 1 /\ Return(c, "ok")
      /\ UNCHANGED <<users, linked, vaulted, devices, menu>>
  BY RequestOf DEF Refresh, At, bounds
<1>2. minted \in Nat /\ minted + 1 \in Nat
  BY DEF AccountsInv, AccountTables, DataTyped
<1>3. Refreshed(c) \in UserSession \cup {NoSession}
  BY <1>1, <1>2 DEF Refreshed, NewSession, UserSession
<1>4. DataTyped'
  BY <1>1, <1>2, <1>3 DEF AccountsInv, AccountTables, DataTyped
<1> QED  BY <1>1, <1>4, UsersQuiet, VaultsQuiet, ReturnKeeps

LEMMA LogoutKeeps ==
  ASSUME AccountsInv, NEW c \in Caller, Logout(c)
  PROVE  AccountsInv'
<1>1. /\ sessions' = WithoutPair(req[c].arg) /\ Return(c, "ok")
      /\ UNCHANGED <<users, linked, vaulted, devices, minted, menu>>
  BY DEF Logout, bounds
<1>2. DataTyped'
  BY <1>1 DEF AccountsInv, AccountTables, DataTyped, WithoutPair
<1> QED  BY <1>1, <1>2, UsersQuiet, VaultsQuiet, ReturnKeeps

LEMMA AuthenticateKeeps ==
  ASSUME AccountsInv, NEW c \in Caller, Authenticate(c)
  PROVE  AccountsInv'
<1>1. UNCHANGED <<users, linked, vaulted, devices, sessions, minted, menu>>
  BY DEF Authenticate, bounds
<1>2. Return(c, "ok") \/ Return(c, "refused")
  BY DEF Authenticate
<1> QED  BY <1>1, <1>2, QuietReturnKeeps

LEMMA RevokeDeviceKeeps ==
  ASSUME AccountsInv, NEW c \in Caller, RevokeDevice(c)
  PROVE  AccountsInv'
<1>1. UNCHANGED <<users, linked, vaulted, sessions, minted, menu>>
  BY DEF RevokeDevice, bounds
<1>2. CASE ~OwnDevice(req[c].id, req[c].e)
  BY <1>1, <1>2, QuietReturnKeeps DEF RevokeDevice
<1>3. CASE OwnDevice(req[c].id, req[c].e)
  <2>1. PICK i : i = req[c].id
    OBVIOUS
  <2>2. Return(c, "ok") /\ devices' = WithRevoked(i)
    BY <1>3, <2>1 DEF RevokeDevice
  <2>3. devices \in [SessionId -> Device \cup {NoSession}]
    BY DEF AccountsInv, AccountTables, DataTyped
  <2>4. i \in SessionId => devices[i] \in Device
    BY <1>3, <2>1, <2>3 DEF OwnDevice
  <2>5. i \in SessionId => [devices[i] EXCEPT !.revoked = TRUE] \in Device
    BY <2>4 DEF Device
  <2>6. devices' \in [SessionId -> Device \cup {NoSession}]
    BY <2>2, <2>3, <2>5 DEF WithRevoked
  <2>7. DataTyped'
    BY <1>1, <2>6 DEF AccountsInv, AccountTables, DataTyped
  <2> QED  BY <1>1, <2>2, <2>7, UsersQuiet, VaultsQuiet, ReturnKeeps
<1> QED  BY <1>2, <1>3

LEMMA ExpireKeeps ==
  ASSUME AccountsInv, NEW i \in SessionId, Expire(i)
  PROVE  AccountsInv'
<1>1. UNCHANGED <<users, linked, vaulted, vlock, devices, permits, minted, req, answer, menu>>
  BY DEF Expire, bounds
<1>2. sessions' \in [SessionId -> UserSession \cup {NoSession}]
  <2>1. /\ sessions \in [SessionId -> UserSession \cup {NoSession}]
        /\ sessions[i] \in UserSession
    BY DEF Expire, AccountsInv, AccountTables, DataTyped
  <2>2. /\ [sessions[i] EXCEPT !.access_live = FALSE] \in UserSession
        /\ [sessions[i] EXCEPT !.refresh_live = FALSE] \in UserSession
    BY <2>1 DEF UserSession
  <2>3. \/ sessions' = [sessions EXCEPT ![i] = [sessions[i] EXCEPT !.access_live = FALSE]]
        \/ sessions' = [sessions EXCEPT ![i] = [sessions[i] EXCEPT !.refresh_live = FALSE]]
    BY DEF Expire
  <2> QED  BY <2>1, <2>2, <2>3
<1>3. AccountTables'
  BY <1>1, <1>2 DEF AccountsInv, AccountTables, DataTyped
<1>4. Requests'
  <2>1. \A d \in Caller : Good(req[d], d)'
    <3> TAKE d \in Caller
    <3>1. PICK r : r = req[d]
      OBVIOUS
    <3>2. Good(r, d)
      BY <3>1, RequestOf
    <3>3. Good(r, d)'
      BY <1>1, <3>2 DEF Good, HasAccount, RowRead, RowIsCurrentOrOld, Shut, Known, Shaped, Request
    <3> QED  BY <1>1, <3>1, <3>3
  <2> QED  BY <1>1, <2>1 DEF AccountsInv, Requests
<1>5. PermitsCounted' /\ NeverStumbled'
  BY <1>1, PermitsStay DEF AccountsInv, NeverStumbled
<1> QED  BY <1>1, <1>3, <1>4, <1>5 DEF AccountsInv

LEMMA AbandonKeeps ==
  ASSUME AccountsInv, NEW c \in Caller, Abandon(c)
  PROVE  AccountsInv'
BY QuietReturnKeeps DEF Abandon

\* The UPDATEs that end an operation on a user.
LEMMA WriteUserKeeps ==
  ASSUME AccountsInv, NEW c \in Caller, NEW op, NEW u, NEW made \in Nat,
         WriteUser(c, op, u, made),
         users[req[c].e] \in User => u \in User,
         users[req[c].e].deleted => u.deleted,
         users[req[c].e].status # "active" => u.status # "active"
  PROVE  AccountsInv'
<1>1. /\ req[c].pc = "write" /\ req[c].e \in Email /\ users[req[c].e] \in User
      /\ UNCHANGED <<linked, vaulted, devices, sessions, menu>>
  BY RequestOf DEF WriteUser, At, bounds, Good, HasAccount, RowRead
<1>2. CASE Affects(c)
  <2>1. StoreUser(req[c].e, u) /\ minted' = minted + made /\ Return(c, "ok")
    BY <1>2 DEF WriteUser
  <2>2. /\ users' \in [Email -> User \cup {NoUser}]
        /\ UsersGrow /\ StayShut
    BY <1>1, <2>1, StoredUser
  <2>3. DataTyped'
    BY <1>1, <2>1, <2>2 DEF AccountsInv, AccountTables, DataTyped
  <2> QED  BY <1>1, <2>1, <2>2, <2>3, VaultsQuiet, ReturnKeeps
<1>3. CASE ~Affects(c)
  <2>1. UNCHANGED <<users, minted>> /\ Return(c, "refused")
    BY <1>3 DEF WriteUser
  <2> QED  BY <1>1, <2>1, QuietReturnKeeps
<1> QED  BY <1>2, <1>3

\* The writes but the unblock: none of them lets a user in again.
WriteStep(c) ==
  \/ UpdateMe(c) \/ ChangePassword(c) \/ ResetPassword(c) \/ RecoveryKit(c)
  \/ DeleteUser(c) \/ BlockUser(c)

LEMMA WriteStepKeeps ==
  ASSUME AccountsInv, NEW c \in Caller, WriteStep(c)
  PROVE  AccountsInv'
<1>1. PICK v : v = users[req[c].e]
  OBVIOUS
<1>2. minted + 1 \in Nat
  BY DEF AccountsInv, AccountTables, DataTyped
<1>3. /\ 0 \in Nat /\ 1 \in Nat
  OBVIOUS
<1>4. v \in User => /\ WithHash(v, minted + 1) \in User
                    /\ WithHash(v, minted + 1).deleted = v.deleted
                    /\ WithHash(v, minted + 1).status = v.status
                    /\ WithKit(v, minted + 1) \in User
                    /\ WithKit(v, minted + 1).deleted = v.deleted
                    /\ WithKit(v, minted + 1).status = v.status
  BY <1>2 DEF WithHash, WithKit, User
<1>5. v \in User => /\ Removed(v) \in User
                    /\ Removed(v).deleted
                    /\ Removed(v).status = v.status
                    /\ WithStatus(v, "disabled") \in User
                    /\ WithStatus(v, "disabled").deleted = v.deleted
                    /\ WithStatus(v, "disabled").status = "disabled"
  BY DEF Removed, WithStatus, User
<1>6. v \in User
  BY <1>1, RequestOf DEF WriteStep, UpdateMe, ChangePassword, ResetPassword, RecoveryKit,
     DeleteUser, BlockUser, WriteUser, At, Good, HasAccount, RowRead
<1>7. CASE UpdateMe(c)
  BY <1>1, <1>3, <1>6, <1>7, WriteUserKeeps DEF UpdateMe, WithName, Row
<1>8. CASE ChangePassword(c)
  BY <1>1, <1>3, <1>4, <1>6, <1>8, WriteUserKeeps DEF ChangePassword, Row
<1>9. CASE ResetPassword(c)
  BY <1>1, <1>3, <1>4, <1>6, <1>9, WriteUserKeeps DEF ResetPassword, Row
<1>10. CASE RecoveryKit(c)
  BY <1>1, <1>3, <1>4, <1>6, <1>10, WriteUserKeeps DEF RecoveryKit, Row
<1>11. CASE DeleteUser(c)
  BY <1>1, <1>3, <1>5, <1>6, <1>11, WriteUserKeeps DEF DeleteUser, Row
<1>12. CASE BlockUser(c)
  BY <1>1, <1>3, <1>5, <1>6, <1>12, WriteUserKeeps DEF BlockUser, Row
<1> QED  BY <1>7, <1>8, <1>9, <1>10, <1>11, <1>12 DEF WriteStep

\* The unblock lets the user in, and the requests under way with it.
LEMMA UnblockUserKeeps ==
  ASSUME AccountsInv, NEW c \in Caller, UnblockUser(c)
  PROVE  AccountsInv'
<1>1. PICK e : e = req[c].e
  OBVIOUS
<1>2. /\ req[c].pc = "write" /\ req[c].op = "unblock" /\ e \in Email /\ users[e] \in User
      /\ req[c].held = 0
      /\ UNCHANGED <<linked, vaulted, devices, sessions, minted, menu>>
  BY <1>1, RequestOf DEF UnblockUser, At, bounds, Good, HasAccount, RowRead
<1>3. CASE ~Affects(c)
  BY <1>2, <1>3, QuietReturnKeeps DEF UnblockUser
<1>4. CASE Affects(c)
  <2>1. WithStatus(users[e], "active") \in User
    BY <1>2 DEF WithStatus, User
  <2>2. /\ StoreUser(e, WithStatus(users[e], "active"))
        /\ answer' = [answer EXCEPT ![c] = "ok"]
        /\ req' = [d \in Caller |-> IF d = c THEN NoReq
                     ELSE [req[d] EXCEPT !.shut = req[d].shut /\ req[d].e # e]]
        /\ UNCHANGED <<vlock, permits>>
    BY <1>1, <1>4 DEF UnblockUser, Row
  <2>3. /\ users' \in [Email -> User \cup {NoUser}] /\ UsersGrow
        /\ \A f \in Email \ {e} : users'[f] = users[f]
    BY <1>2, <2>1, <2>2, StoredRow
  <2>4. AccountTables'
    BY <1>2, <2>2, <2>3 DEF AccountsInv, AccountTables, DataTyped
  <2>5. ASSUME NEW d \in Caller \ {c}
        PROVE  Good(req[d], d)' /\ req'[d].held = req[d].held
    <3>1. PICK r : r = req[d]
      OBVIOUS
    <3>2. Good(r, d) /\ Shaped(r)
      BY <3>1, RequestOf
    <3>3. PICK shut : shut = (r.shut /\ r.e # e)
      OBVIOUS
    <3>4. shut => r.shut /\ r.e # e
      BY <3>3, Zenon
    <3>5. PICK k : k = [r EXCEPT !.shut = shut]
      OBVIOUS
    <3>6. req'[d] = k
      BY <2>2, <3>1, <3>3, <3>5
    <3>7. /\ Shaped(k) /\ k.op = r.op /\ k.pc = r.pc /\ k.e = r.e /\ k.row = r.row
          /\ k.arg = r.arg /\ k.held = r.held /\ k.saw = r.saw /\ k.sub = r.sub /\ k.shut = shut
      <4>1. PICK id, old, saw : r \in Request(id, old, saw)
        BY <3>2 DEF Shaped
      <4>2. /\ k \in Request(id, shut, saw)
            /\ k.op = r.op /\ k.pc = r.pc /\ k.e = r.e /\ k.row = r.row
            /\ k.arg = r.arg /\ k.held = r.held /\ k.saw = r.saw /\ k.sub = r.sub
            /\ k.shut = shut
        BY <3>5, <4>1 DEF Request
      <4> QED  BY <4>2 DEF Shaped
    <3>8. r.e \in Email /\ k.shut /\ Shut(r.e) => r.shut /\ Shut(r.e)'
      BY <2>3, <3>4, <3>7 DEF Shut, Known
    <3>9. answer'[d] = answer[d]
      BY <2>2 DEF AccountsInv, AccountTables
    <3>10. /\ vaulted \subseteq vaulted'
           /\ r.pc = "vault_insert" => r.e \notin vaulted' \ vaulted
           /\ r.e \in Email /\ vlock[r.e] = d => vlock'[r.e] = d
           /\ r.e \in Email /\ k.shut => r.shut
      BY <1>2, <2>2, <3>4, <3>7
    <3>11. Good(k, d)'
      BY <2>3, <3>2, <3>7, <3>8, <3>9, <3>10, OtherStays
    <3> QED  BY <3>1, <3>6, <3>7, <3>11
  <2>6. Good(req[c], c)' /\ req'[c].held = req[c].held
    <3>1. PICK k : k = NoReq
      OBVIOUS
    <3>2. k \in Request(0, FALSE, FALSE) /\ k.pc = "idle" /\ k.held = 0
      BY <3>1, NoReqIs
    <3>3. Shaped(k)'
      BY <3>2 DEF Shaped, Request
    <3>4. Good(k, c)'
      BY <3>2, <3>3 DEF Good, HasAccount, RowRead, LoginPc, OidcPc
    <3>5. req'[c] = k
      BY <2>2, <3>1
    <3> QED  BY <1>2, <3>2, <3>4, <3>5
  <2>7. req' = [d \in Caller |-> req'[d]]
    BY <2>2
  <2>8. Requests'
    BY <2>5, <2>6, <2>7 DEF Requests
  <2>9. PermitsCounted'
    BY <2>2, <2>5, <2>6, PermitsStay DEF AccountsInv
  <2>10. NeverStumbled'
    BY <2>2 DEF AccountsInv, AccountTables, NeverStumbled
  <2> QED  BY <1>2, <2>4, <2>8, <2>9, <2>10 DEF AccountsInv
<1> QED  BY <1>3, <1>4

LEMMA AccountsInitially ==
  AccountsInit => AccountsInv
<1> SUFFICES ASSUME AccountsInit
             PROVE  AccountsInv
  OBVIOUS
<1>1. PICK made \in SUBSET Email, seen \in SUBSET Email :
        /\ seen \subseteq made
        /\ users = [e \in Email |-> IF e \in made THEN NewUser(1) ELSE NoUser]
        /\ vaulted = seen
        /\ devices = [i \in SessionId |-> IF i = 1 /\ seen # {}
             THEN [user |-> CHOOSE e \in seen : TRUE, revoked |-> FALSE] ELSE NoSession]
        /\ sessions = [i \in SessionId |-> IF i = 1 /\ seen # {}
             THEN NewSession(CHOOSE e \in seen : TRUE, 2) ELSE NoSession]
  BY DEF AccountsInit
<1>2. AccountTables
  <2>1. PICK f : f = CHOOSE e \in seen : TRUE
    OBVIOUS
  <2>2. seen # {} => f \in Email
    BY <2>1
  <2>3. NewUser(1) \in User
    BY DEF NewUser, User
  <2>4. users \in [Email -> User \cup {NoUser}]
    BY <1>1, <2>3
  <2>5. seen # {} => [user |-> f, revoked |-> FALSE] \in Device
    BY <2>2 DEF Device
  <2>6. devices \in [SessionId -> Device \cup {NoSession}]
    BY <1>1, <2>1, <2>5
  <2>7. seen # {} => NewSession(f, 2) \in UserSession
    BY <2>2 DEF NewSession, UserSession
  <2>8. sessions \in [SessionId -> UserSession \cup {NoSession}]
    BY <1>1, <2>1, <2>7
  <2> QED  BY <1>1, <2>4, <2>6, <2>8 DEF AccountsInit, AccountTables, DataTyped
<1>3. req = [c \in Caller |-> NoReq]
  BY DEF AccountsInit
<1>4. Requests
  <2>1. ASSUME NEW c \in Caller
        PROVE  Good(req[c], c)
    <3>1. PICK k : k = NoReq
      OBVIOUS
    <3>2. Shaped(k) /\ k.pc = "idle" /\ k.held = 0
      BY <3>1, NoReqIs
    <3>3. Good(k, c)
      BY <3>2 DEF Good, HasAccount, RowRead, LoginPc, OidcPc
    <3> QED  BY <1>3, <3>1, <3>3
  <2> QED  BY <1>3, <2>1 DEF Requests
<1>5. PermitsCounted
  <2>1. \A c \in Caller : req[c].held = 0
    BY <1>3, NoReqIs
  <2>2. Held = {}
    BY <2>1 DEF Held
  <2>3. IsFiniteSet(Held) /\ Cardinality(Held) = 0
    BY <2>2, FS_EmptySet
  <2> QED  BY <2>3, AccountsAssumption DEF PermitsCounted, AccountsInit
<1>6. NeverStumbled
  BY DEF AccountsInit, NeverStumbled
<1>7. menu \subseteq AccountOp
  BY AccountsAssumption DEF AccountsInit
<1> QED  BY <1>2, <1>4, <1>5, <1>6, <1>7 DEF AccountsInv

LEMMA AccountStepKeeps ==
  ASSUME AccountsInv, NEW c \in Caller, AccountStep(c)
  PROVE  AccountsInv'
<1>1. ReadUser(c) \/ AcquireSecond(c) \/ CheckEmail(c) => AccountsInv'
  BY ReadUserKeeps, AcquireSecondKeeps, CheckEmailKeeps
<1>2. RegisterKdf(c) \/ CreateKdf(c) \/ LoginKdf(c) \/ ChangeKdf(c) \/ ResetKdf(c) \/ KitKdf(c)
        => AccountsInv'
  BY AcquirePermitKeeps
     DEF RegisterKdf, CreateKdf, LoginKdf, ChangeKdf, ResetKdf, KitKdf
<1>3. RegisterInsert(c) \/ CreateUser(c) => AccountsInv'
  BY RegisterInsertKeeps, CreateUserKeeps
<1>4. FindIdentity(c) \/ FindByEmail(c) \/ CreateOidcUser(c) \/ LinkIdentity(c)
        => AccountsInv'
  BY FindIdentityKeeps, FindByEmailKeeps, CreateOidcUserKeeps, LinkIdentityKeeps
<1>5. LoginDevice(c) \/ OidcDevice(c) \/ LoginSession(c) \/ OidcSession(c) => AccountsInv'
  BY InsertDeviceKeeps, InsertSessionKeeps
     DEF LoginDevice, OidcDevice, LoginSession, OidcSession
<1>6. BeginVault(c) \/ LockVault(c) \/ SelectVault(c) \/ InsertVault(c) \/ LastLogin(c)
        => AccountsInv'
  BY BeginVaultKeeps, LockVaultKeeps, SelectVaultKeeps, InsertVaultKeeps, LastLoginKeeps
<1>7. ReadSession(c) \/ Refresh(c) \/ Logout(c) \/ Authenticate(c) \/ RevokeDevice(c)
        => AccountsInv'
  BY ReadSessionKeeps, RefreshKeeps, LogoutKeeps, AuthenticateKeeps, RevokeDeviceKeeps
<1>8. WriteStep(c) \/ UnblockUser(c) => AccountsInv'
  BY WriteStepKeeps, UnblockUserKeeps
<1> QED  BY <1>1, <1>2, <1>3, <1>4, <1>5, <1>6, <1>7, <1>8 DEF AccountStep, WriteStep

LEMMA AccountsStutter ==
  ASSUME AccountsInv, UNCHANGED accountVars
  PROVE  AccountsInv'
<1>1. UNCHANGED <<users, linked, vaulted, vlock, devices, sessions, permits, minted, req,
                  answer, menu>>
  BY DEF accountVars
<1>2. AccountTables'
  BY <1>1 DEF AccountsInv, AccountTables, DataTyped
<1>3. Requests'
  <2>1. \A d \in Caller : Good(req[d], d)'
    <3> TAKE d \in Caller
    <3>1. PICK r : r = req[d]
      OBVIOUS
    <3>2. Good(r, d)
      BY <3>1, RequestOf
    <3>3. Good(r, d)'
      BY <1>1, <3>2 DEF Good, HasAccount, RowRead, RowIsCurrentOrOld, Shut, Known, Shaped, Request
    <3> QED  BY <1>1, <3>1, <3>3
  <2> QED  BY <1>1, <2>1 DEF AccountsInv, Requests
<1>4. PermitsCounted' /\ NeverStumbled'
  BY <1>1, PermitsStay DEF AccountsInv, NeverStumbled
<1> QED  BY <1>1, <1>2, <1>3, <1>4 DEF AccountsInv

LEMMA AccountsInductive ==
  AccountsSpec => []AccountsInv
<1>1. AccountsInv /\ [AccountsNext]_accountVars => AccountsInv'
  <2> SUFFICES ASSUME AccountsInv, [AccountsNext]_accountVars
               PROVE  AccountsInv'
    OBVIOUS
  <2>1. CASE UNCHANGED accountVars
    BY <2>1, AccountsStutter
  <2>2. CASE \E c \in Caller, op \in menu, e \in Email, s \in Subject \cup {Nobody},
                arg \in 0 .. minted, id \in 0 .. MaxSessions : BeginCall(c, op, e, s, arg, id)
    BY <2>2, BeginCallKeeps
  <2>3. CASE \E c \in Caller : AccountStep(c) \/ Abandon(c)
    BY <2>3, AccountStepKeeps, AbandonKeeps
  <2>4. CASE \E i \in SessionId : Expire(i)
    BY <2>4, ExpireKeeps
  <2> QED  BY <2>1, <2>2, <2>3, <2>4 DEF AccountsNext
<1> QED  BY <1>1, AccountsInitially, PTL DEF AccountsSpec

\* Every table and request keeps its type; no handler gives back a permit it
\* did not take, and none forgets one (argon2_semaphore).
THEOREM AccountsTypeCorrect ==
  AccountsSpec => []AccountsTypeOK
<1>1. AccountsInv => AccountsTypeOK
  <2> SUFFICES ASSUME AccountsInv
               PROVE  AccountsTypeOK
    OBVIOUS
  <2>1. permits \in 0 .. KdfPermits
    <3>1. Cardinality(Held) \in Nat
      BY FS_CardinalityType DEF AccountsInv, PermitsCounted
    <3> QED  BY <3>1, AccountsAssumption DEF AccountsInv, PermitsCounted
  <2>2. ASSUME NEW c \in Caller
        PROVE  /\ req[c].pc \in AccountPc /\ req[c].e \in Email \cup {Nobody}
               /\ req[c].row \in User \cup {NoUser} /\ req[c].held \in 0 .. 2
               /\ req[c].pc \in {"write", "seen"} => req[c].row \in User
    BY RequestOf, FieldsOf DEF Good, RowRead, RowIsCurrentOrOld
  <2> QED  BY <2>1, <2>2, NoUserAssumption
        DEF AccountsInv, AccountTables, DataTyped, AccountsTypeOK
<1> QED  BY <1>1, AccountsInductive, PTL

\* First logins from any number of devices make one personal vault, and none
\* of them fails over it, as long as every statement has its own snapshot: the
\* lock keeps others out from the SELECT to the COMMIT (ensure_personal_vault_tx).
THEOREM LoginsAgree ==
  ASSUME VaultIsolation = "read_committed"
  PROVE  AccountsSpec => []FirstLoginsAgree
<1>1. AccountsInv => FirstLoginsAgree
  BY RequestOf DEF AccountsInv, NeverStumbled, ReadCommitted, FirstLoginsAgree, At, Good
<1> QED  BY <1>1, AccountsInductive, PTL

-----------------------------------------------------------------------------
(* What a step answers, and which steps write sessions *)

\* A step of d gives an answer to nobody else.
Speaks(d) == answer' = answer \/ \E what : answer' = [answer EXCEPT ![d] = what]

LEMMA ReturnSpeaks ==
  ASSUME NEW d \in Caller, NEW what, Return(d, what)
  PROVE  Speaks(d)
BY DEF Return, Speaks

\* The step of a request at a place where success must not be stale.
StepOf(d) ==
  /\ Speaks(d)
  /\ At(d, "write") => WriteStep(d) \/ UnblockUser(d)
  /\ At(d, "user") => Authenticate(d)
  /\ \/ sessions' = sessions
     \/ RegisterInsert(d) \/ LoginSession(d) \/ OidcSession(d) \/ Refresh(d) \/ Logout(d)

LEMMA StepIsStepOf ==
  ASSUME AccountsInv, NEW d \in Caller, AccountStep(d)
  PROVE  StepOf(d)
<1>1. CASE ReadUser(d) \/ AcquireSecond(d) \/ CheckEmail(d)
  BY <1>1, ReturnSpeaks
     DEF StepOf, ReadUser, AcquireSecond, CheckEmail, At, Step, Speaks, tables
<1>2. ASSUME NEW op, AcquirePermit(d, op)
      PROVE  StepOf(d)
  BY <1>2, ReturnSpeaks DEF StepOf, AcquirePermit, At, Speaks
<1>3. CASE RegisterKdf(d) \/ CreateKdf(d) \/ LoginKdf(d) \/ ChangeKdf(d) \/ ResetKdf(d) \/ KitKdf(d)
  BY <1>2, <1>3 DEF RegisterKdf, CreateKdf, LoginKdf, ChangeKdf, ResetKdf, KitKdf
<1>4. CASE RegisterInsert(d) \/ CreateUser(d)
  BY <1>4, ReturnSpeaks DEF StepOf, RegisterInsert, CreateUser, At
<1>5. CASE FindIdentity(d) \/ FindByEmail(d) \/ CreateOidcUser(d) \/ LinkIdentity(d)
  BY <1>5, ReturnSpeaks
     DEF StepOf, FindIdentity, FindByEmail, CreateOidcUser, LinkIdentity, At, Step, Speaks, tables
<1>6. CASE LoginDevice(d) \/ OidcDevice(d) \/ LoginSession(d) \/ OidcSession(d)
  BY <1>6 DEF StepOf, LoginDevice, OidcDevice, LoginSession, OidcSession, InsertDevice,
     InsertSession, At, Speaks
<1>7. CASE BeginVault(d) \/ LockVault(d)
  BY <1>7 DEF StepOf, BeginVault, LockVault, At, Speaks, tables
<1>8. CASE SelectVault(d) \/ InsertVault(d) \/ LastLogin(d)
  BY <1>8, ReturnSpeaks
     DEF StepOf, SelectVault, InsertVault, LastLogin, AfterVault, At, Speaks
<1>9. CASE ReadSession(d) \/ Refresh(d) \/ Logout(d) \/ Authenticate(d) \/ RevokeDevice(d)
  BY <1>9, ReturnSpeaks
     DEF StepOf, ReadSession, Refresh, Logout, Authenticate, RevokeDevice, At, Speaks
<1>10. ASSUME NEW op, NEW u, NEW made, WriteUser(d, op, u, made)
       PROVE  Speaks(d) /\ sessions' = sessions /\ req[d].pc = "write"
  BY <1>10, ReturnSpeaks DEF WriteUser, At
<1>11. CASE WriteStep(d)
  <2>1. Speaks(d) /\ sessions' = sessions /\ req[d].pc = "write"
    BY <1>10, <1>11 DEF WriteStep, UpdateMe, ChangePassword, ResetPassword, RecoveryKit,
       DeleteUser, BlockUser
  <2> QED  BY <1>11, <2>1 DEF StepOf, At
<1>12. CASE UnblockUser(d)
  <2>1. Speaks(d)
    BY <1>12, ReturnSpeaks DEF UnblockUser, Speaks
  <2> QED  BY <1>12, <2>1 DEF StepOf, UnblockUser, At
<1> QED  BY <1>1, <1>3, <1>4, <1>5, <1>6, <1>7, <1>8, <1>9, <1>11, <1>12
         DEF AccountStep, WriteStep

\* An answer that is given now is given by the step of the request.
LEMMA AnsweredByItself ==
  ASSUME AccountsInv, NEW d \in Caller, Speaks(d), NEW c \in Caller,
         req[c].pc # "idle", answer'[c] = "ok"
  PROVE  c = d
BY RequestOf DEF Speaks, AccountsInv, AccountTables

LEMMA VerifiedByStep ==
  ASSUME AccountsInv, NEW d \in Caller, AccountStep(d)
  PROVE  VerifiedPasswordReplaced /\ BlockedUserIsRefused
<1>1. StepOf(d)
  BY StepIsStepOf
<1>2. VerifiedPasswordReplaced
  <2> SUFFICES ASSUME NEW c \in Caller, At(c, "write"), req[c].op = "change",
                      answer'[c] = "ok"
               PROVE  users[req[c].e].pw = req[c].arg
    BY DEF VerifiedPasswordReplaced
  <2>1. c = d
    BY <1>1, AnsweredByItself DEF StepOf, At
  <2>2. ChangePassword(c)
    BY <1>1, <2>1 DEF StepOf, WriteStep, UpdateMe, ChangePassword, ResetPassword, RecoveryKit,
       DeleteUser, BlockUser, UnblockUser, WriteUser, At
  <2>3. answer \in [Caller -> {"none", "ok", "refused", "stumbled"}]
    BY DEF AccountsInv, AccountTables
  <2>4. Affects(c)
    BY <2>2, <2>3 DEF ChangePassword, WriteUser, Return
  <2>5. RowIsCurrentOrOld(req[c]) /\ req[c].row.pw = req[c].arg
    BY RequestOf DEF Good, RowRead, At
  <2> QED  BY <2>4, <2>5 DEF RowIsCurrentOrOld, Affects
<1>3. BlockedUserIsRefused
  <2> SUFFICES ASSUME NEW c \in Caller, At(c, "user"), req[c].shut, answer'[c] = "ok"
               PROVE  FALSE
    BY DEF BlockedUserIsRefused
  <2>1. c = d
    BY <1>1, AnsweredByItself DEF StepOf, At
  <2>2. Authenticate(c)
    BY <1>1, <2>1 DEF StepOf
  <2>3. Shut(req[c].e)
    BY RequestOf DEF Good, At
  <2>4. ~StatusAllowed(GetUser(req[c].e))
    BY <2>3, NoUserAssumption DEF Shut, StatusAllowed, GetUser, Known
  <2>5. answer \in [Caller -> {"none", "ok", "refused", "stumbled"}]
    BY DEF AccountsInv, AccountTables
  <2> QED  BY <2>2, <2>4, <2>5 DEF Authenticate, Return
<1> QED  BY <1>2, <1>3

\* Steps that write no session, and steps that answer none.
LEMMA NoSessionNew ==
  ASSUME \A i \in SessionId : sessions[i] = NoSession => sessions'[i] = NoSession
  PROVE  LogoutIsFinal
BY DEF LogoutIsFinal

LEMMA FinalByStep ==
  ASSUME AccountsInv, NEW d \in Caller, AccountStep(d)
  PROVE  LogoutIsFinal
<1> DEFINE Stay == \A i \in SessionId : sessions[i] = NoSession => sessions'[i] = NoSession
<1>1. sessions \in [SessionId -> UserSession \cup {NoSession}]
  BY DEF AccountsInv, AccountTables, DataTyped
<1>2. CASE sessions' = sessions
  BY <1>2, NoSessionNew
<1>3. CASE RegisterInsert(d)
  <2>1. CASE Known(users[req[d].e])
    BY <1>3, <2>1, NoSessionNew DEF RegisterInsert
  <2>2. CASE ~Known(users[req[d].e])
    <3>1. req[d].pc = "insert" /\ users[req[d].e] = NoUser
      BY <1>3, <2>2, RequestOf DEF RegisterInsert, At, Known, AccountsInv, AccountTables, DataTyped
    <3> QED  BY <3>1 DEF LogoutIsFinal, At
  <2> QED  BY <2>1, <2>2
<1>4. CASE LoginSession(d) \/ OidcSession(d)
  <2>1. PICK k : k = NewSession(req[d].e, minted + 1)
    OBVIOUS
  <2>2. req[d].pc = "session" /\ sessions' = [sessions EXCEPT ![req[d].id] = k]
    BY <1>4, <2>1 DEF LoginSession, OidcSession, InsertSession, At
  <2>3. \A i \in SessionId : i # req[d].id => sessions'[i] = sessions[i]
    BY <1>1, <2>2
  <2> QED  BY <2>2, <2>3 DEF LogoutIsFinal, At
<1>5. CASE Refresh(d)
  <2>1. PICK k : k = Refreshed(d)
    OBVIOUS
  <2>2. sessions' = [sessions EXCEPT ![req[d].id] = k]
    BY <1>5, <2>1 DEF Refresh
  <2>3. sessions[req[d].id] = NoSession => k = NoSession
    BY <2>1 DEF Refreshed
  <2>4. Stay
    BY <1>1, <2>2, <2>3
  <2> QED  BY <2>4, NoSessionNew
<1>6. CASE Logout(d)
  <2>1. PICK t : t = req[d].arg
    OBVIOUS
  <2>2. sessions' = WithoutPair(t)
    BY <1>6, <2>1 DEF Logout
  <2>3. Stay
    BY <2>2 DEF WithoutPair
  <2> QED  BY <2>3, NoSessionNew
<1> QED  BY <1>2, <1>3, <1>4, <1>5, <1>6, StepIsStepOf DEF StepOf

\* A step without a success and without a new session.
LEMMA NothingStale ==
  ASSUME AccountsInv, NEW d \in Caller, NEW what \in {"none", "refused"},
         answer' = answer \/ answer' = [answer EXCEPT ![d] = what],
         \A i \in SessionId : sessions[i] = NoSession => sessions'[i] = NoSession
  PROVE  VerifiedPasswordReplaced /\ BlockedUserIsRefused /\ LogoutIsFinal
<1>1. answer \in [Caller -> {"none", "ok", "refused", "stumbled"}]
  BY DEF AccountsInv, AccountTables
<1>2. \A c \in Caller : req[c].pc # "idle" => answer'[c] # "ok"
  BY <1>1, RequestOf
<1> QED  BY <1>2, NoSessionNew DEF VerifiedPasswordReplaced, BlockedUserIsRefused, At

\* No request succeeds on what it has read before and is no longer so: the
\* UPDATE compares row_version, every request reads the status of its user anew,
\* and a refresh updates the session by its id (change_password,
\* identity_from_user, update_refresh_token).
THEOREM SuccessIsNeverStale ==
  AccountsSpec => NoStaleSuccess
<1>1. AccountsInv /\ [AccountsNext]_accountVars
        => [VerifiedPasswordReplaced /\ BlockedUserIsRefused /\ LogoutIsFinal]_accountVars
  <2> SUFFICES ASSUME AccountsInv, AccountsNext
               PROVE  VerifiedPasswordReplaced /\ BlockedUserIsRefused /\ LogoutIsFinal
    OBVIOUS
  <2>1. CASE \E c \in Caller, op \in menu, e \in Email, s \in Subject \cup {Nobody},
                arg \in 0 .. minted, id \in 0 .. MaxSessions : BeginCall(c, op, e, s, arg, id)
    <3>1. PICK c \in Caller, op \in menu, e \in Email, s \in Subject \cup {Nobody},
               arg \in 0 .. minted, id \in 0 .. MaxSessions : BeginCall(c, op, e, s, arg, id)
      BY <2>1
    <3>2. answer' = [answer EXCEPT ![c] = "none"] /\ sessions' = sessions
      BY <3>1 DEF BeginCall, tables
    <3> QED  BY <3>2, NothingStale
  <2>2. CASE \E c \in Caller : AccountStep(c)
    BY <2>2, VerifiedByStep, FinalByStep
  <2>3. CASE \E c \in Caller : Abandon(c)
    BY <2>3, NothingStale DEF Abandon, Return
  <2>4. CASE \E i \in SessionId : Expire(i)
    <3>1. PICK i \in SessionId : Expire(i)
      BY <2>4
    <3>2. answer' = answer /\ \A j \in SessionId : sessions[j] = NoSession => sessions'[j] = NoSession
      BY <3>1 DEF Expire, AccountsInv, AccountTables, DataTyped
    <3>3. VerifiedPasswordReplaced /\ BlockedUserIsRefused
      BY <3>2, RequestOf DEF VerifiedPasswordReplaced, BlockedUserIsRefused, At
    <3> QED  BY <3>2, <3>3, NoSessionNew
  <2> QED  BY <2>1, <2>2, <2>3, <2>4 DEF AccountsNext
<1> QED  BY <1>1, AccountsInductive, PTL DEF AccountsSpec, NoStaleSuccess

=============================================================================
