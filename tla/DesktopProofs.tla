---------------------------- MODULE DesktopProofs ----------------------------
(***************************************************************************)
(* What holds of a desktop for any number of passwords, commands, kills    *)
(* and resets.                                                             *)
(*                                                                         *)
(* The master key.  The shared items of the cache are sealed under the key *)
(* of a sync, and the property compares them with the fingerprint that the *)
(* last unlocking stored.  In between stands handle_master_key_change:     *)
(* until it has wiped the items the old fingerprint is right, and after    *)
(* that there are none.                                                    *)
(*                                                                         *)
(* Logins.  A login places a context in the file it has read, saves it and *)
(* then writes the storage row, and cleans up storages of the same server  *)
(* in between.  While one command at a time does so, the file it saves     *)
(* differs from the one it read only in that context.                      *)
(***************************************************************************)
EXTENDS DesktopSession, DesktopLogin, FiniteSetTheorems, TLAPS

UnlockingState == [at : {"idle", "prompt", "read", "wipe", "mark", "wrap", "file", "memory"},
                   key : SomeKey, wrap : BOOLEAN, next : Settings]
ChangingState == [at : {"idle", "file", "memory"}, next : Settings, shown : BOOLEAN]

SessionTyped ==
  /\ salt \in 0 .. 2
  /\ memoryKey \in SomeKey /\ keyFp \in SomeKey /\ envelope \in SomeKey /\ syncing \in SomeKey
  /\ onFile \in Settings /\ inMemory \in Settings /\ onScreen \in Settings
  /\ sharedItems \subseteq MasterKey /\ NoKey \notin sharedItems
  /\ unlocking \in UnlockingState /\ changing \in ChangingState
  /\ dwks \in Nat

\* The wrapped key is sealed under the device key beside it, which is one.
Opens(s) == s.wrapped = Unwrapped \/ (s.wrapped.under = s.dwk /\ s.dwk # 0)

SettingsOpen ==
  /\ Opens(onFile) /\ Opens(inMemory) /\ Opens(onScreen)
  /\ Opens(unlocking.next) /\ Opens(changing.next)

\* Where the master key, the fingerprint, the cache and the sync are while a
\* command u sets the key.
KeyFollowed(u) ==
  /\ sharedItems \subseteq {keyFp}
  /\ u.at \in {"idle", "prompt", "wrap", "file", "memory"} => memoryKey \in {NoKey, keyFp}
  /\ u.at \in {"read", "wipe", "mark"} => memoryKey \in {NoKey, u.key}
  /\ u.at \in {"wrap", "file", "memory"} => keyFp = u.key
  /\ u.at = "mark" => sharedItems = {}
  /\ syncing # NoKey =>
       /\ syncing = keyFp /\ u.at \notin {"wipe", "mark"}
       /\ u.at = "read" => u.key = syncing

SessionInv == SessionTyped /\ SettingsOpen /\ (keyChanged \/ KeyFollowed(unlocking))

-----------------------------------------------------------------------------
\* The settings of a fresh application are settings, and there is nothing in
\* them to open.
LEMMA DefaultsOpen == DefaultSettings \in Settings /\ Opens(DefaultSettings)
  BY DEF DefaultSettings, Settings, Unwrapped, SomeKey, Opens

\* A command that does not run is one in the sense of the types.
LEMMA IdleCommands ==
  /\ NotUnlocking \in UnlockingState /\ NotUnlocking.at = "idle"
  /\ NotUnlocking.next = DefaultSettings
  /\ NotChanging \in ChangingState /\ NotChanging.next = DefaultSettings
  BY DefaultsOpen DEF NotUnlocking, NotChanging, UnlockingState, ChangingState, SomeKey

\* wrap_master_key_with_biometry: the settings hold the key sealed under the
\* device key that has been made for it.
LEMMA WrappedOpens ==
  ASSUME NEW s \in Settings, NEW key \in SomeKey, dwks \in Nat
  PROVE  Wrapped(s, key) \in Settings /\ Opens(Wrapped(s, key))
<1>1. PICK n \in Nat : n = dwks + 1 /\ n # 0
  OBVIOUS
<1>2. PICK w \in [key : SomeKey, under : Nat] : w = [key |-> key, under |-> n]
  OBVIOUS
<1>3. PICK t : t = [s EXCEPT !.wrapped = w]
  OBVIOUS
<1>4. t \in Settings
  BY <1>3 DEF Settings
<1>5. t.wrapped = w
  BY <1>3 DEF Settings
<1>6. PICK r : r = [t EXCEPT !.dwk = n]
  OBVIOUS
<1>7. r \in Settings /\ r.wrapped = w /\ r.dwk = n
  BY <1>4, <1>5, <1>6 DEF Settings
<1>8. r = Wrapped(s, key)
  BY <1>1, <1>2, <1>3, <1>6, Zenon DEF Wrapped
<1> QED BY <1>1, <1>2, <1>7, <1>8 DEF Opens

\* Setting the key: handle_master_key_change has to run under the key that is
\* in memory from here on.
LEMMA KeySet ==
  ASSUME SessionInv, NEW key \in SomeKey, NEW wrap \in BOOLEAN, SetMasterKey(key, wrap),
         UNCHANGED <<keyFp, sharedItems, syncing>>
  PROVE  /\ memoryKey' \in SomeKey
         /\ unlocking' \in UnlockingState /\ Opens(unlocking.next)'
         /\ keyChanged' \/ KeyFollowed(unlocking)'
<1> DEFINE u == [NotUnlocking EXCEPT !.at = "read", !.key = key, !.wrap = wrap]
<1>1. u \in UnlockingState /\ u.at = "read" /\ u.key = key /\ u.next = DefaultSettings
  BY DefaultsOpen DEF NotUnlocking, UnlockingState
<1>2. unlocking' = u /\ memoryKey' = key /\ keyChanged' = (keyChanged \/ syncing \notin {NoKey, key})
  BY DEF SetMasterKey
<1> HIDE DEF u
<1>3. Opens(unlocking.next)'
  BY <1>1, <1>2, DefaultsOpen DEF Opens
<1>4. ASSUME ~keyChanged' PROVE KeyFollowed(unlocking)'
  <2>1. KeyFollowed(unlocking) /\ syncing \in {NoKey, key}
    BY <1>2, <1>4, Zenon DEF SessionInv
  <2> QED BY <2>1, <1>1, <1>2 DEF KeyFollowed
<1> QED BY <1>1, <1>2, <1>3, <1>4

-----------------------------------------------------------------------------
LEMMA SessionInitially == DesktopSessionInit => SessionInv
<1> SUFFICES ASSUME DesktopSessionInit PROVE SessionInv
  OBVIOUS
<1>1. SessionTyped
  BY DefaultsOpen, IdleCommands DEF DesktopSessionInit, SessionTyped, SomeKey
<1>2. SettingsOpen
  BY DefaultsOpen, IdleCommands DEF DesktopSessionInit, SettingsOpen
<1>3. KeyFollowed(unlocking)
  BY IdleCommands DEF DesktopSessionInit, KeyFollowed
<1> QED BY <1>1, <1>2, <1>3 DEF SessionInv

\* A step that leaves the settings, the commands, the cache and the keys that a
\* fingerprint speaks of alone, apart from forgetting a key.
LEMMA QuietStepKeeps ==
  ASSUME SessionInv, salt' \in 0 .. 2, envelope' \in SomeKey,
         memoryKey' \in {memoryKey, NoKey}, syncing' \in {syncing, NoKey},
         UNCHANGED <<settingsVars, keyFp, sharedItems, unlocking, changing, keyChanged, dwks>>
  PROVE  SessionInv'
<1>1. SessionTyped'
  BY DEF SessionInv, SessionTyped, settingsVars, SomeKey
<1>2. SettingsOpen'
  BY DEF SessionInv, SettingsOpen, settingsVars, Opens
<1>3. KeyFollowed(unlocking) => KeyFollowed(unlocking)'
  BY DEF KeyFollowed
<1> QED BY <1>1, <1>2, <1>3 DEF SessionInv

LEMMA InitializeIdentityKeeps == SessionInv /\ InitializeIdentity => SessionInv'
  BY QuietStepKeeps DEF InitializeIdentity, keyData, SessionInv, SessionTyped

LEMMA LoginIdentityKeeps == SessionInv /\ LoginIdentity => SessionInv'
  BY QuietStepKeeps DEF LoginIdentity, keyData, SomeKey

LEMMA LockKeeps == SessionInv /\ Lock => SessionInv'
  BY QuietStepKeeps DEF Lock, keyData, SessionInv, SessionTyped

LEMMA EndKeySyncKeeps == SessionInv /\ EndKeySync => SessionInv'
  BY QuietStepKeeps DEF EndKeySync, keyData, SessionInv, SessionTyped

LEMMA SessionStutterKeeps == SessionInv /\ UNCHANGED sessionVars => SessionInv'
  BY QuietStepKeeps DEF sessionVars, settingsVars, SessionInv, SessionTyped

\* The key of a password.
LEMMA DerivedIsKey ==
  ASSUME SessionTyped, NEW p \in Passphrase, salt # 0
  PROVE  DeriveKey(p) \in SomeKey
  BY DEF SessionTyped, DeriveKey, MasterKey, SomeKey

\* A step that does no more than set the key.
LEMMA SetMasterKeyKeeps ==
  ASSUME SessionInv, NEW key \in SomeKey, NEW wrap \in BOOLEAN, SetMasterKey(key, wrap),
         UNCHANGED <<salt, settingsVars, keyFp, sharedItems, envelope, changing, syncing, dwks>>
  PROVE  SessionInv'
<1>1. SessionTyped'
  BY KeySet DEF SessionInv, SessionTyped, settingsVars
<1>2. SettingsOpen'
  BY KeySet DEF SessionInv, SettingsOpen, settingsVars, Opens
<1> QED BY <1>1, <1>2, KeySet DEF SessionInv

LEMMA InitializeMasterPasswordKeeps ==
  ASSUME SessionInv, NEW p \in Passphrase, InitializeMasterPassword(p)
  PROVE  SessionInv'
  BY DerivedIsKey, SetMasterKeyKeeps DEF InitializeMasterPassword, SessionInv

LEMMA UnlockKeeps ==
  ASSUME SessionInv, NEW p \in Passphrase, Unlock(p)
  PROVE  SessionInv'
  BY DerivedIsKey, SetMasterKeyKeeps DEF Unlock, keyData, SessionInv

-----------------------------------------------------------------------------
(* Biometrics.                                                             *)

LEMMA AskBiometricsKeeps == SessionInv /\ AskBiometrics => SessionInv'
<1> SUFFICES ASSUME SessionInv, AskBiometrics PROVE SessionInv'
  OBVIOUS
<1>1. PICK u : u = [NotUnlocking EXCEPT !.at = "prompt", !.next = inMemory]
  OBVIOUS
<1>2. u \in UnlockingState /\ u.at = "prompt" /\ u.next = inMemory
  BY <1>1, IdleCommands DEF SessionInv, SessionTyped, UnlockingState
<1>3. unlocking' = u /\ unlocking.at = "idle"
  BY <1>1 DEF AskBiometrics
<1>4. SessionTyped'
  BY <1>2, <1>3 DEF AskBiometrics, SessionInv, SessionTyped, settingsVars, keyData
<1>5. SettingsOpen'
  BY <1>2, <1>3 DEF AskBiometrics, SessionInv, SettingsOpen, settingsVars, Opens
<1>6. KeyFollowed(unlocking) => KeyFollowed(unlocking)'
  BY <1>2, <1>3 DEF AskBiometrics, KeyFollowed, keyData
<1>7. keyChanged' = keyChanged
  BY DEF AskBiometrics
<1> QED BY <1>4, <1>5, <1>6, <1>7 DEF SessionInv

\* A step that takes the unlocking on, and may leave the settings in memory or
\* in the file.
LEMMA UnlockingStepKeeps ==
  ASSUME SessionInv, NEW u \in UnlockingState, unlocking' = u,
         u.next \in {DefaultSettings, unlocking.next}, dwks' = dwks,
         UNCHANGED <<salt, memoryKey, onScreen, envelope, changing, syncing, keyChanged>>,
         onFile' \in {onFile, unlocking.next}, inMemory' \in {inMemory, unlocking.next},
         keyFp' \in {keyFp, unlocking.key}, sharedItems' \in {sharedItems, {}},
         KeyFollowed(unlocking) => KeyFollowed(unlocking)'
  PROVE  SessionInv'
<1>1. SessionTyped'
  BY DEF SessionInv, SessionTyped, UnlockingState
<1>2. Opens(u.next) /\ Opens(onFile)' /\ Opens(inMemory)'
  BY DefaultsOpen DEF SessionInv, SettingsOpen, Opens
<1>3. SettingsOpen'
  BY <1>2 DEF SessionInv, SettingsOpen, Opens
<1> QED BY <1>1, <1>3 DEF SessionInv

LEMMA BiometricsAnswerKeeps == SessionInv /\ BiometricsAnswer => SessionInv'
<1> SUFFICES ASSUME SessionInv, BiometricsAnswer PROVE SessionInv'
  OBVIOUS
<1>1. CASE SetMasterKey(inMemory.wrapped.key, FALSE)
  <2>1. inMemory.wrapped.key \in SomeKey
    BY DEF SessionInv, SessionTyped, Settings
  <2> QED BY <1>1, <2>1, SetMasterKeyKeeps DEF BiometricsAnswer, keyData
<1>2. CASE unlocking' = NotUnlocking /\ UNCHANGED <<memoryKey, keyChanged>>
  <2>1. KeyFollowed(unlocking) => KeyFollowed(unlocking)'
    BY <1>2, IdleCommands DEF BiometricsAnswer, KeyFollowed, keyData
  <2> QED BY <1>2, <2>1, IdleCommands, UnlockingStepKeeps
          DEF BiometricsAnswer, settingsVars, keyData
<1> QED BY <1>1, <1>2 DEF BiometricsAnswer

-----------------------------------------------------------------------------
(* handle_master_key_change and the rest of unlock.                        *)

\* The unlocking at another place.
LEMMA UnlockingAt ==
  ASSUME SessionTyped, NEW a \in {"mark", "wipe", "wrap", "memory"}
  PROVE  LET u == [unlocking EXCEPT !.at = a]
         IN  u \in UnlockingState /\ u.at = a /\ u.key = unlocking.key /\ u.next = unlocking.next
  BY DEF SessionTyped, UnlockingState

\* Where handle_master_key_change leads to once the fingerprint is right.
LEMMA AfterMarkFollows ==
  ASSUME SessionTyped
  PROVE  /\ AfterMark \in UnlockingState /\ AfterMark.next \in {DefaultSettings, unlocking.next}
         /\ \/ AfterMark.at = "idle"
            \/ AfterMark.at = "wrap" /\ AfterMark.key = unlocking.key
<1>1. CASE unlocking.wrap
  <2>1. AfterMark = [unlocking EXCEPT !.at = "wrap"]
    BY <1>1 DEF AfterMark
  <2> QED BY <2>1, UnlockingAt, Zenon
<1>2. CASE ~unlocking.wrap
  <2>1. AfterMark = NotUnlocking
    BY <1>2 DEF AfterMark
  <2> QED BY <2>1, IdleCommands
<1> QED BY <1>1, <1>2

LEMMA CompareFingerprintKeeps == SessionInv /\ CompareFingerprint => SessionInv'
<1> SUFFICES ASSUME SessionInv, CompareFingerprint PROVE SessionInv'
  OBVIOUS
<1> USE DEF SessionInv
<1>1. unlocking.at = "read" /\ unlocking.key \in SomeKey
  BY DEF CompareFingerprint, SessionTyped, UnlockingState
<1>2. UNCHANGED <<salt, memoryKey, settingsVars, keyData, envelope, changing, syncing, keyChanged,
                  dwks>>
  BY DEF CompareFingerprint
<1>3. CASE keyFp = unlocking.key
  <2>1. PICK u : u = AfterMark
    OBVIOUS
  <2>2. unlocking' = u
    BY <1>3, <2>1 DEF CompareFingerprint
  <2>3. /\ u \in UnlockingState /\ u.next \in {DefaultSettings, unlocking.next}
        /\ u.at = "idle" \/ (u.at = "wrap" /\ u.key = unlocking.key)
    BY <2>1, AfterMarkFollows
  <2>4. KeyFollowed(unlocking) => KeyFollowed(unlocking)'
    BY <1>1, <1>2, <1>3, <2>2, <2>3 DEF KeyFollowed, keyData
  <2> QED BY <1>2, <2>2, <2>3, <2>4, UnlockingStepKeeps DEF settingsVars, keyData
<1>4. CASE keyFp # unlocking.key /\ keyFp = NoKey
  <2>1. PICK u : u = [unlocking EXCEPT !.at = "mark"]
    OBVIOUS
  <2>2. unlocking' = u
    BY <1>4, <2>1 DEF CompareFingerprint
  <2>3. u \in UnlockingState /\ u.at = "mark" /\ u.key = unlocking.key /\ u.next = unlocking.next
    BY <2>1, UnlockingAt
  <2>4. KeyFollowed(unlocking) => sharedItems = {}
    BY <1>4 DEF KeyFollowed, SessionTyped
  <2>5. KeyFollowed(unlocking) => KeyFollowed(unlocking)'
    BY <1>1, <1>2, <1>4, <2>2, <2>3, <2>4 DEF KeyFollowed, keyData
  <2> QED BY <1>2, <2>2, <2>3, <2>5, UnlockingStepKeeps DEF settingsVars, keyData
<1>5. CASE keyFp # unlocking.key /\ keyFp # NoKey
  <2>1. PICK u : u = [unlocking EXCEPT !.at = "wipe"]
    OBVIOUS
  <2>2. unlocking' = u
    BY <1>5, <2>1 DEF CompareFingerprint
  <2>3. u \in UnlockingState /\ u.at = "wipe" /\ u.key = unlocking.key /\ u.next = unlocking.next
    BY <2>1, UnlockingAt
  <2>4. KeyFollowed(unlocking) => KeyFollowed(unlocking)'
    BY <1>1, <1>2, <1>5, <2>2, <2>3 DEF KeyFollowed, keyData
  <2> QED BY <1>2, <2>2, <2>3, <2>4, UnlockingStepKeeps DEF settingsVars, keyData
<1> QED BY <1>3, <1>4, <1>5

LEMMA WipeSharedItemsKeeps == SessionInv /\ WipeSharedItems => SessionInv'
<1> SUFFICES ASSUME SessionInv, WipeSharedItems PROVE SessionInv'
  OBVIOUS
<1>1. PICK u : u = [unlocking EXCEPT !.at = "mark"]
  OBVIOUS
<1>2. u \in UnlockingState /\ u.at = "mark" /\ u.key = unlocking.key /\ u.next = unlocking.next
  BY <1>1, UnlockingAt DEF SessionInv
<1>3. unlocking' = u /\ unlocking.at = "wipe"
  BY <1>1 DEF WipeSharedItems
<1>4. KeyFollowed(unlocking) => KeyFollowed(unlocking)'
  BY <1>2, <1>3 DEF WipeSharedItems, KeyFollowed
<1> QED BY <1>2, <1>3, <1>4, UnlockingStepKeeps DEF WipeSharedItems, settingsVars

LEMMA MarkFingerprintKeeps == SessionInv /\ MarkFingerprint => SessionInv'
<1> SUFFICES ASSUME SessionInv, MarkFingerprint PROVE SessionInv'
  OBVIOUS
<1>1. PICK u : u = AfterMark
  OBVIOUS
<1>2. /\ u \in UnlockingState /\ u.next \in {DefaultSettings, unlocking.next}
      /\ u.at = "idle" \/ (u.at = "wrap" /\ u.key = unlocking.key)
  BY <1>1, AfterMarkFollows DEF SessionInv
<1>3. unlocking' = u /\ unlocking.at = "mark"
  BY <1>1 DEF MarkFingerprint
<1>4. KeyFollowed(unlocking) => KeyFollowed(unlocking)'
  BY <1>2, <1>3 DEF MarkFingerprint, KeyFollowed
<1> QED BY <1>2, <1>3, <1>4, UnlockingStepKeeps DEF MarkFingerprint, settingsVars

LEMMA WrapForUnlockKeeps == SessionInv /\ WrapForUnlock => SessionInv'
<1> SUFFICES ASSUME SessionInv, WrapForUnlock PROVE SessionInv'
  OBVIOUS
<1>1. CASE unlocking' = NotUnlocking /\ UNCHANGED dwks
  <2>1. KeyFollowed(unlocking) => KeyFollowed(unlocking)'
    BY <1>1, IdleCommands DEF WrapForUnlock, KeyFollowed, keyData
  <2> QED BY <1>1, <2>1, IdleCommands, UnlockingStepKeeps
          DEF WrapForUnlock, settingsVars, keyData
<1>2. CASE /\ unlocking' = [unlocking EXCEPT !.at = "file",
                                             !.next = Wrapped(inMemory, unlocking.key)]
           /\ dwks' = dwks + 1
  <2>1. PICK s : s = Wrapped(inMemory, unlocking.key)
    OBVIOUS
  <2>2. unlocking.key \in SomeKey /\ inMemory \in Settings /\ dwks \in Nat
    BY DEF SessionInv, SessionTyped, UnlockingState
  <2>3. s \in Settings /\ Opens(s)
    BY <2>1, <2>2, WrappedOpens
  <2>4. PICK u : u = [unlocking EXCEPT !.at = "file", !.next = s]
    OBVIOUS
  <2>5. u \in UnlockingState /\ u.at = "file" /\ u.key = unlocking.key /\ u.next = s
    BY <2>3, <2>4 DEF SessionInv, SessionTyped, UnlockingState
  <2>6. unlocking' = u
    BY <1>2, <2>1, <2>4
  <2>7. SessionTyped'
    BY <1>2, <2>2, <2>5, <2>6 DEF WrapForUnlock, SessionInv, SessionTyped, settingsVars, keyData
  <2>8. SettingsOpen'
    BY <2>3, <2>5, <2>6 DEF WrapForUnlock, SessionInv, SettingsOpen, settingsVars, Opens
  <2>9. KeyFollowed(unlocking) => KeyFollowed(unlocking)'
    BY <2>5, <2>6 DEF WrapForUnlock, KeyFollowed, keyData
  <2>10. keyChanged' = keyChanged
    BY DEF WrapForUnlock
  <2> QED BY <2>7, <2>8, <2>9, <2>10 DEF SessionInv
<1> QED BY <1>1, <1>2 DEF WrapForUnlock

LEMMA SaveForUnlockKeeps == SessionInv /\ SaveForUnlock => SessionInv'
<1> SUFFICES ASSUME SessionInv, SaveForUnlock PROVE SessionInv'
  OBVIOUS
<1>1. CASE unlocking.at = "file"
  <2>1. PICK u : u = [unlocking EXCEPT !.at = "memory"]
    OBVIOUS
  <2>2. u \in UnlockingState /\ u.at = "memory" /\ u.key = unlocking.key /\ u.next = unlocking.next
    BY <2>1, UnlockingAt DEF SessionInv
  <2>3. unlocking' = u
    BY <1>1, <2>1 DEF SaveForUnlock
  <2>4. KeyFollowed(unlocking) => KeyFollowed(unlocking)'
    BY <1>1, <2>2, <2>3 DEF SaveForUnlock, KeyFollowed, keyData
  <2> QED BY <1>1, <2>2, <2>3, <2>4, UnlockingStepKeeps DEF SaveForUnlock, keyData
<1>2. CASE unlocking.at = "memory"
  <2>1. unlocking' = NotUnlocking
    BY <1>2 DEF SaveForUnlock
  <2>2. KeyFollowed(unlocking) => KeyFollowed(unlocking)'
    BY <1>2, <2>1, IdleCommands DEF SaveForUnlock, KeyFollowed, keyData
  <2> QED BY <1>2, <2>1, <2>2, IdleCommands, UnlockingStepKeeps DEF SaveForUnlock, keyData
<1> QED BY <1>1, <1>2 DEF SaveForUnlock

-----------------------------------------------------------------------------
(* The settings.                                                           *)

\* A step that takes a command about the settings on.
LEMMA ChangingStepKeeps ==
  ASSUME SessionInv, NEW c \in ChangingState, changing' = c, Opens(c.next), dwks' \in Nat,
         UNCHANGED <<salt, memoryKey, keyData, envelope, unlocking, syncing, keyChanged>>,
         onFile' \in {onFile, changing.next}, inMemory' \in {inMemory, changing.next},
         onScreen' \in {onScreen, changing.next}
  PROVE  SessionInv'
<1>1. SessionTyped'
  BY DEF SessionInv, SessionTyped, ChangingState, keyData
<1>2. Opens(onFile)' /\ Opens(inMemory)' /\ Opens(onScreen)'
  BY DEF SessionInv, SettingsOpen, Opens
<1>3. SettingsOpen'
  BY <1>2 DEF SessionInv, SettingsOpen, Opens
<1>4. KeyFollowed(unlocking) => KeyFollowed(unlocking)'
  BY DEF KeyFollowed, keyData
<1> QED BY <1>1, <1>3, <1>4 DEF SessionInv

LEMMA RebindBiometricsKeeps == SessionInv /\ RebindBiometrics => SessionInv'
<1> SUFFICES ASSUME SessionInv, RebindBiometrics PROVE SessionInv'
  OBVIOUS
<1>1. PICK s : s = Wrapped(inMemory, memoryKey)
  OBVIOUS
<1>2. s \in Settings /\ Opens(s) /\ dwks \in Nat
  BY <1>1, WrappedOpens DEF SessionInv, SessionTyped
<1>3. PICK c : c = [at |-> "file", next |-> s, shown |-> FALSE]
  OBVIOUS
<1>4. c \in ChangingState /\ c.next = s
  BY <1>2, <1>3 DEF ChangingState
<1>5. changing' = c /\ dwks' = dwks + 1
  BY <1>1, <1>3 DEF RebindBiometrics
<1> QED BY <1>2, <1>4, <1>5, ChangingStepKeeps DEF RebindBiometrics, settingsVars

\* The settings that update_settings starts from open whatever the window has
\* shown: a device key of the window stays beside the wrapped key of the window.
LEMMA KeptDwkOpens ==
  ASSUME SessionInv, NEW r \in BOOLEAN
  PROVE  LET s == KeptDwk([onScreen EXCEPT !.remember = r])
         IN  s \in Settings /\ Opens(s)
<1>1. onScreen \in Settings /\ Opens(onScreen) /\ inMemory.dwk \in Nat
  BY DEF SessionInv, SessionTyped, SettingsOpen, Settings
<1>2. PICK s : s = [onScreen EXCEPT !.remember = r]
  OBVIOUS
<1>3. s \in Settings /\ s.wrapped = onScreen.wrapped /\ s.dwk = onScreen.dwk
  BY <1>1, <1>2 DEF Settings
<1>4. CASE s.dwk = 0
  <2>1. PICK t : t = [s EXCEPT !.dwk = inMemory.dwk]
    OBVIOUS
  <2>2. t \in Settings /\ t.wrapped = s.wrapped
    BY <1>1, <1>3, <2>1 DEF Settings
  <2>3. t.wrapped = Unwrapped
    BY <1>1, <1>3, <1>4, <2>2 DEF Opens
  <2>4. KeptDwk([onScreen EXCEPT !.remember = r]) = t
    BY <1>2, <1>4, <2>1 DEF KeptDwk
  <2> QED BY <2>2, <2>3, <2>4 DEF Opens
<1>5. CASE s.dwk # 0
  <2>1. KeptDwk([onScreen EXCEPT !.remember = r]) = s
    BY <1>2, <1>5 DEF KeptDwk
  <2> QED BY <1>1, <1>3, <2>1 DEF Opens
<1> QED BY <1>4, <1>5

LEMMA UpdateSettingsKeeps ==
  ASSUME SessionInv, NEW r \in BOOLEAN, UpdateSettings(r)
  PROVE  SessionInv'
<1>1. PICK s : s = KeptDwk([onScreen EXCEPT !.remember = r])
  OBVIOUS
<1>2. s \in Settings /\ Opens(s) /\ dwks \in Nat /\ memoryKey \in SomeKey
  BY <1>1, KeptDwkOpens DEF SessionInv, SessionTyped
<1>3. PICK w : w = Wrapped(s, memoryKey)
  OBVIOUS
<1>4. w \in Settings /\ Opens(w)
  BY <1>2, <1>3, WrappedOpens
<1>5. PICK z : z = [s EXCEPT !.wrapped = Unwrapped, !.dwk = 0]
  OBVIOUS
<1>6. z \in Settings /\ Opens(z)
  <2>1. PICK v : v = Unwrapped
    OBVIOUS
  <2>2. v \in [key : SomeKey, under : Nat]
    BY <2>1 DEF Unwrapped, SomeKey
  <2>3. z = [s EXCEPT !.wrapped = v, !.dwk = 0]
    BY <1>5, <2>1
  <2>4. z \in Settings /\ z.wrapped = v
    BY <1>2, <2>2, <2>3 DEF Settings
  <2> QED BY <2>1, <2>4 DEF Opens
<1>7. PICK n : changing' = [at |-> "file", shown |-> TRUE, next |-> n] /\ n \in {w, z, s}
  <2> DEFINE on == ~inMemory.remember /\ r
             off == inMemory.remember /\ ~r
             n == CASE on -> w [] off -> z [] OTHER -> s
  <2>1. changing' = [at |-> "file", shown |-> TRUE, next |-> n]
    BY <1>1, <1>3, <1>5, Zenon DEF UpdateSettings
  <2>2. n \in {w, z, s}
    OBVIOUS
  <2> QED BY <2>1, <2>2
<1>8. PICK c : c = [at |-> "file", shown |-> TRUE, next |-> n]
  OBVIOUS
<1>9. n \in Settings /\ Opens(n)
  BY <1>2, <1>4, <1>6, <1>7
<1>10. c \in ChangingState /\ c.next = n
  BY <1>8, <1>9 DEF ChangingState
<1>11. dwks' \in Nat
  BY <1>2 DEF UpdateSettings
<1>12. /\ UNCHANGED <<salt, memoryKey, keyData, envelope, unlocking, syncing, keyChanged>>
       /\ UNCHANGED <<onFile, inMemory, onScreen>>
  BY DEF UpdateSettings, settingsVars
<1> QED BY <1>7, <1>8, <1>9, <1>10, <1>11, <1>12, ChangingStepKeeps

LEMMA SaveChangeKeeps == SessionInv /\ SaveChange => SessionInv'
<1> SUFFICES ASSUME SessionInv, SaveChange PROVE SessionInv'
  OBVIOUS
<1>1. CASE changing.at = "file"
  <2>1. PICK c : c = [changing EXCEPT !.at = "memory"]
    OBVIOUS
  <2>2. c \in ChangingState /\ c.next = changing.next
    BY <2>1 DEF SessionInv, SessionTyped, ChangingState
  <2>3. Opens(c.next) /\ dwks \in Nat
    BY <2>2 DEF SessionInv, SessionTyped, SettingsOpen
  <2> QED BY <1>1, <2>1, <2>2, <2>3, ChangingStepKeeps DEF SaveChange
<1>2. CASE changing.at = "memory"
  <2>1. Opens(NotChanging.next) /\ NotChanging \in ChangingState
    BY IdleCommands, DefaultsOpen
  <2>2. dwks \in Nat
    BY DEF SessionInv, SessionTyped
  <2> QED BY <1>2, <2>1, <2>2, ChangingStepKeeps DEF SaveChange
<1> QED BY <1>1, <1>2 DEF SaveChange

LEMMA BootstrapKeeps == SessionInv /\ Bootstrap => SessionInv'
<1> SUFFICES ASSUME SessionInv, Bootstrap PROVE SessionInv'
  OBVIOUS
<1>1. SessionTyped'
  BY DEF Bootstrap, SessionInv, SessionTyped, keyData
<1>2. SettingsOpen'
  BY DEF Bootstrap, SessionInv, SettingsOpen, Opens
<1>3. KeyFollowed(unlocking) => KeyFollowed(unlocking)'
  BY DEF Bootstrap, KeyFollowed, keyData
<1>4. keyChanged' = keyChanged
  BY DEF Bootstrap
<1> QED BY <1>1, <1>2, <1>3, <1>4 DEF SessionInv

-----------------------------------------------------------------------------
(* The sync, the end of the application and the reset.                     *)

\* A sync that begins outside of an unlocking has the key whose fingerprint is
\* stored.
LEMMA BeginKeySyncKeeps == SessionInv /\ BeginKeySync => SessionInv'
<1> SUFFICES ASSUME SessionInv, BeginKeySync PROVE SessionInv'
  OBVIOUS
<1>1. SessionTyped'
  BY DEF BeginKeySync, SessionInv, SessionTyped, settingsVars, keyData
<1>2. SettingsOpen'
  BY DEF BeginKeySync, SessionInv, SettingsOpen, settingsVars, Opens
<1>3. ASSUME ~keyChanged' PROVE KeyFollowed(unlocking)'
  <2>1. KeyFollowed(unlocking) /\ unlocking.at = "idle"
    BY <1>3, Zenon DEF BeginKeySync, SessionInv
  <2> QED BY <2>1 DEF BeginKeySync, KeyFollowed, keyData
<1> QED BY <1>1, <1>2, <1>3 DEF SessionInv

LEMMA SealSharedItemKeeps == SessionInv /\ SealSharedItem => SessionInv'
<1> SUFFICES ASSUME SessionInv, SealSharedItem PROVE SessionInv'
  OBVIOUS
<1>1. SessionTyped'
  BY DEF SealSharedItem, SessionInv, SessionTyped, settingsVars, SomeKey
<1>2. SettingsOpen'
  BY DEF SealSharedItem, SessionInv, SettingsOpen, settingsVars, Opens
<1>3. KeyFollowed(unlocking) => KeyFollowed(unlocking)'
  BY DEF SealSharedItem, KeyFollowed
<1>4. keyChanged' = keyChanged
  BY DEF SealSharedItem
<1> QED BY <1>1, <1>2, <1>3, <1>4 DEF SessionInv

\* A kill in the middle of handle_master_key_change: the fingerprint still
\* speaks of the items that are left.
LEMMA RestartKeeps == SessionInv /\ Restart => SessionInv'
<1> SUFFICES ASSUME SessionInv, Restart PROVE SessionInv'
  OBVIOUS
<1>1. SessionTyped'
  BY IdleCommands DEF Restart, SessionInv, SessionTyped, keyData, SomeKey
<1>2. SettingsOpen'
  BY IdleCommands, DefaultsOpen DEF Restart, SessionInv, SettingsOpen, Opens
<1>3. KeyFollowed(unlocking) => KeyFollowed(unlocking)'
  BY IdleCommands DEF Restart, KeyFollowed, keyData
<1>4. keyChanged' = keyChanged
  BY DEF Restart
<1> QED BY <1>1, <1>2, <1>3, <1>4 DEF SessionInv

LEMMA FactoryResetKeeps == SessionInv /\ FactoryReset => SessionInv'
<1> SUFFICES ASSUME SessionInv, FactoryReset PROVE SessionInv'
  OBVIOUS
<1>1. SessionTyped'
  BY DefaultsOpen DEF FactoryReset, SessionInv, SessionTyped, SomeKey
<1>2. SettingsOpen'
  BY DefaultsOpen DEF FactoryReset, SessionInv, SettingsOpen, Opens
<1>3. KeyFollowed(unlocking) => KeyFollowed(unlocking)'
  BY DEF FactoryReset, KeyFollowed
<1>4. keyChanged' = keyChanged
  BY DEF FactoryReset
<1> QED BY <1>1, <1>2, <1>3, <1>4 DEF SessionInv

-----------------------------------------------------------------------------
LEMMA SessionInductive == SessionInv /\ [DesktopSessionNext]_sessionVars => SessionInv'
<1> SUFFICES ASSUME SessionInv, [DesktopSessionNext]_sessionVars PROVE SessionInv'
  OBVIOUS
<1>1. ASSUME NEW p \in Passphrase, InitializeMasterPassword(p) \/ Unlock(p) PROVE SessionInv'
  BY <1>1, InitializeMasterPasswordKeeps, UnlockKeeps
<1>2. ASSUME NEW r \in BOOLEAN, UpdateSettings(r) PROVE SessionInv'
  BY <1>2, UpdateSettingsKeeps
<1>3. CASE InitializeIdentity \/ LoginIdentity \/ AskBiometrics \/ BiometricsAnswer \/ Lock
  BY <1>3, InitializeIdentityKeeps, LoginIdentityKeeps, AskBiometricsKeeps,
     BiometricsAnswerKeeps, LockKeeps
<1>4. CASE \/ CompareFingerprint \/ WipeSharedItems \/ MarkFingerprint \/ WrapForUnlock
           \/ SaveForUnlock
  BY <1>4, CompareFingerprintKeeps, WipeSharedItemsKeeps, MarkFingerprintKeeps,
     WrapForUnlockKeeps, SaveForUnlockKeeps
<1>5. CASE RebindBiometrics \/ SaveChange \/ Bootstrap
  BY <1>5, RebindBiometricsKeeps, SaveChangeKeeps, BootstrapKeeps
<1>6. CASE BeginKeySync \/ SealSharedItem \/ EndKeySync \/ Restart \/ FactoryReset
  BY <1>6, BeginKeySyncKeeps, SealSharedItemKeeps, EndKeySyncKeeps, RestartKeeps,
     FactoryResetKeeps
<1>7. CASE UNCHANGED sessionVars
  BY <1>7, SessionStutterKeeps
<1> QED BY <1>1, <1>2, <1>3, <1>4, <1>5, <1>6, <1>7 DEF DesktopSessionNext

LEMMA SessionInvGivesKeys == SessionInv => DeviceKeysOpen
<1> SUFFICES ASSUME SessionInv PROVE DeviceKeysOpen
  OBVIOUS
<1>1. DesktopSessionTypeOK
  BY DEF SessionInv, SessionTyped, DesktopSessionTypeOK, UnlockingState, ChangingState
<1>2. KeyFollowed(unlocking) =>
        /\ unlocking.at \notin {"wipe", "mark"} => sharedItems \subseteq {keyFp}
        /\ unlocking.at = "idle" => memoryKey \in {NoKey, keyFp}
  BY DEF KeyFollowed
<1>3. SharedItemsOpen
  BY <1>2 DEF SessionInv, SharedItemsOpen
<1>4. WrappedKeyOpens
  BY DEF SessionInv, SettingsOpen, Opens, WrappedKeyOpens
<1> QED BY <1>1, <1>3, <1>4 DEF DeviceKeysOpen, SessionKeysOpen

\* What the desktop keeps for the next unlocking can be opened then, for any
\* set of passwords and any number of commands, kills and resets: the shared
\* items of the cache with the key whose fingerprint is stored
\* (handle_master_key_change), and the wrapped master key with the device key
\* beside it (update_settings, session_rebind_biometrics, unlock).
THEOREM KeysOpen == DesktopSessionSpec => []DeviceKeysOpen
<1>1. DesktopSessionInit => SessionInv
  BY SessionInitially
<1>2. SessionInv /\ [DesktopSessionNext]_sessionVars => SessionInv'
  BY SessionInductive
<1>3. SessionInv => DeviceKeysOpen
  BY SessionInvGivesKeys
<1> QED BY <1>1, <1>2, <1>3, PTL DEF DesktopSessionSpec

-----------------------------------------------------------------------------
(* Logins.  What a login leaves on the device is right as long as no two   *)
(* commands overlapped; between the save of a login and its row the device *)
(* is not, and neither between the user's trust and the save.  The         *)
(* invariant says which login explains each gap: one that has saved the    *)
(* file has a context whose row is still to come (Placed), and a context   *)
(* without a storage belongs to a login that is being finalized.           *)

ConfigState == [contexts : [Origin -> Context], current : Origin \cup {NoOrigin, "torn"}]
ResultState == [server : LoginServer \cup {NoServer}, fp : Nat]
AskedState == [open : BOOLEAN, fp : Nat, result : ResultState]
LoginState == [at : LoginSteps, url : Address \cup {NoAddress}, result : ResultState,
               read : ConfigState, storage : Nat]
TokenSyncState == [at : {"idle", "refresh", "pull"}, read : ConfigState]

TablesTyped ==
  /\ nextId \in Nat
  /\ storageRows \subseteq [id : 1 .. nextId, url : Address, fp : Nat]
  /\ \A a, b \in storageRows : a.id = b.id => a = b
  /\ waiting \subseteq {row.id : row \in storageRows}

LoginTyped ==
  /\ answers \in [Origin -> LoginServer] /\ secrets \in [LoginServer -> Nat \ {0}] /\ moves \in Nat
  /\ config \in ConfigState /\ TablesTyped
  /\ asked \in [Login -> AskedState] /\ login \in [Login -> LoginState]
  /\ tokenSync \in TokenSyncState
  /\ accepted \in SUBSET Nat
  /\ raced \in BOOLEAN /\ cut \in BOOLEAN /\ takenOver \in BOOLEAN

\* The context x at the origin o, when n storages were numbered.
SaneContext(x, o, n) ==
  /\ x.server = NoServer => x = NoContext
  /\ x.server # NoServer => x.fp # 0
  /\ x.token => x.storage # 0
  /\ x.storage <= n
  /\ x.storage # 0 => x.addr \in Address /\ x.addr.origin = o

Sane(c, n) == \A o \in Origin : SaneContext(c.contexts[o], o, n)

\* A login k with its entry a in pending_logins.
LoginSane(k, a, n) ==
  /\ k.at # "idle" => k.url \in Address
  /\ k.at \in {"load", "save", "clean", "row"} => k.result.server \in LoginServer /\ k.result.fp # 0
  /\ k.at = "save" => Sane(k.read, n) /\ Readable(k.read)
  /\ k.at \in {"clean", "row"} => k.storage \in 1 .. n
  /\ k.at = "load" => a.fp # 0
  /\ a.fp # 0 => /\ a.open /\ a.result.server \in LoginServer /\ a.result.fp = a.fp
                 /\ k.url \in Address /\ k.at \notin {"listen", "request"}

DeviceSane ==
  /\ Sane(config, nextId)
  /\ ~Readable(config) => config.contexts = NoConfig.contexts
  /\ tokenSync.at # "idle" => Sane(tokenSync.read, nextId) /\ Readable(tokenSync.read)
  /\ \A l \in Login : LoginSane(login[l], asked[l], nextId)

\* The file that a login read knows the fingerprint of the server, or neither
\* the server nor another fingerprint at the address.
Pinned(k) ==
  \/ \E o \in ContextsOf(k.read, k.result.server) : k.read.contexts[o].fp = k.result.fp
  \/ /\ ContextsOf(k.read, k.result.server) = {}
     /\ k.read.contexts[ContextName(k.url)].fp \in {0, k.result.fp}

LoginAccepted(k) ==
  /\ k.at \in {"load", "clean", "row"} => k.result.fp \in accepted
  /\ k.at = "save" => k.result.fp \in accepted \/ Pinned(k)

FingerprintInv ==
  ~raced => FingerprintsAccepted /\ \A l \in Login : LoginAccepted(login[l])

\* A login that has saved the file and has not written its row yet.
Placing(k) == k.at \in {"clean", "row"}
Placed(id) == \E l \in Login : Placing(login[l]) /\ login[l].storage = id

\* A login after the user's trust, whose context may have no storage yet.
Finalizing(k, a) == k.at = "load" \/ (k.at = "save" /\ a.fp # 0)

ContextAt(o) == config.contexts[o]

StoragesDiffer ==
  \A o, q \in Origin :
    o # q /\ ContextAt(o).storage # 0 => ContextAt(o).storage # ContextAt(q).storage
RowsFollow ==
  \A row \in storageRows, o \in Origin :
    ContextAt(o).storage = row.id => row.url = ContextAt(o).addr \/ Placed(row.id)
StoragesExist ==
  \A o \in Origin : ContextAt(o).storage # 0 =>
    ContextAt(o).storage \in {row.id : row \in storageRows} \/ Placed(ContextAt(o).storage)
PlacingIsSaved ==
  \A l \in Login : Placing(login[l]) =>
    /\ ContextAt(login[l].url.origin).storage = login[l].storage
    /\ ContextAt(login[l].url.origin).addr = login[l].url
OnePlaces == \A k, l \in Login : Placing(login[k]) /\ Placing(login[l]) => k = l
BareIsFinalized ==
  \A o \in Origin : ContextAt(o).server # NoServer /\ ContextAt(o).storage = 0 =>
    \E l \in Login : Finalizing(login[l], asked[l]) /\ login[l].url.origin = o
NothingOrphaned ==
  /\ discarded = {}
  /\ \A row \in storageRows : \E o \in Origin : ContextAt(o).storage = row.id
  /\ \A o, q \in Origin :
       o # q /\ ContextAt(o).server = ContextAt(q).server /\ ContextAt(o).server # NoServer
         => ContextAt(o).storage = 0 \/ ContextAt(q).storage = 0

StoragesSound ==
  /\ Readable(config) /\ StoragesDiffer /\ RowsFollow /\ StoragesExist /\ PlacingIsSaved
  /\ OnePlaces /\ BareIsFinalized /\ (takenOver \/ NothingOrphaned)
StorageInv == raced \/ cut \/ StoragesSound

LoginInv == LoginTyped /\ DeviceSane /\ FingerprintInv /\ StorageInv

-----------------------------------------------------------------------------
\* What the application starts with.
LEMMA NothingYet ==
  /\ NoContext \in Context /\ NoResult \in ResultState /\ NotAsked \in AskedState
  /\ NoConfig \in ConfigState /\ Readable(NoConfig) /\ NoLogin \in LoginState
  /\ Unreadable \in ConfigState /\ Unreadable.contexts = NoConfig.contexts /\ ~Readable(Unreadable)
  /\ NoTokenSync \in TokenSyncState
  /\ \A n \in Nat : Sane(NoConfig, n) /\ LoginSane(NoLogin, NotAsked, n)
<1>1. NoContext \in Context
  BY DEF NoContext, Context
<1>2. NoResult \in ResultState
  BY DEF NoResult, ResultState
<1>3. NotAsked \in AskedState
  BY <1>2 DEF NotAsked, AskedState
<1>4. NoConfig \in ConfigState /\ Readable(NoConfig)
  BY <1>1, DesktopLoginAssumption DEF NoConfig, ConfigState, Readable
<1>5. Unreadable \in ConfigState /\ Unreadable.contexts = NoConfig.contexts /\ ~Readable(Unreadable)
  BY <1>1 DEF Unreadable, NoConfig, ConfigState, Readable
<1>6. NoLogin \in LoginState
  BY <1>2, <1>4 DEF NoLogin, LoginState, LoginSteps
<1>7. NoTokenSync \in TokenSyncState
  BY <1>4 DEF NoTokenSync, TokenSyncState
<1>8. ASSUME NEW n \in Nat PROVE Sane(NoConfig, n)
  BY DEF Sane, SaneContext, NoConfig, NoContext
<1>9. ASSUME NEW n \in Nat PROVE LoginSane(NoLogin, NotAsked, n)
  BY DEF LoginSane, NoLogin, NotAsked
<1> QED BY <1>1, <1>2, <1>3, <1>4, <1>5, <1>6, <1>7, <1>8, <1>9

LEMMA LoginInitially == DesktopLoginInit => LoginInv
<1> SUFFICES ASSUME DesktopLoginInit PROVE LoginInv
  OBVIOUS
<1>1. secrets \in [LoginServer -> Nat \ {0}]
  <2>1. Cardinality(LoginServer) \in Nat
    BY FS_CardinalityType, DesktopLoginAssumption
  <2> QED BY <2>1 DEF DesktopLoginInit
<1>2. TablesTyped
  BY DEF DesktopLoginInit, TablesTyped
<1>3. LoginTyped
  BY <1>1, <1>2, NothingYet DEF DesktopLoginInit, LoginTyped
<1>4. DeviceSane
  BY NothingYet DEF DesktopLoginInit, DeviceSane, NoTokenSync
<1>5. \A o \in Origin : ContextAt(o) = NoContext
  BY DEF DesktopLoginInit, ContextAt, NoConfig
<1>6. \A l \in Login : login[l].at = "idle"
  BY DEF DesktopLoginInit, NoLogin
<1>7. FingerprintInv
  BY <1>5, <1>6 DEF DesktopLoginInit, FingerprintInv, FingerprintsAccepted, LoginAccepted,
     ContextAt, NoContext
<1>8. StoragesDiffer /\ RowsFollow /\ StoragesExist /\ BareIsFinalized /\ NothingOrphaned
  BY <1>5 DEF DesktopLoginInit, StoragesDiffer, RowsFollow, StoragesExist, BareIsFinalized,
     NothingOrphaned, NoContext
<1>9. PlacingIsSaved /\ OnePlaces
  BY <1>6 DEF PlacingIsSaved, OnePlaces, Placing
<1> QED BY <1>3, <1>4, <1>7, <1>8, <1>9, NothingYet DEF DesktopLoginInit, LoginInv, StorageInv, StoragesSound

-----------------------------------------------------------------------------
\* load_config gives the contexts of the file, which are none when it cannot be
\* read.
LEMMA Loaded ==
  ASSUME LoginTyped, DeviceSane
  PROVE  /\ LoadConfig \in ConfigState /\ Readable(LoadConfig)
         /\ LoadConfig.contexts = config.contexts
         /\ Sane(LoadConfig, nextId)
         /\ Readable(config) => LoadConfig = config
<1>1. CASE Readable(config)
  BY <1>1 DEF LoadConfig, LoginTyped, DeviceSane
<1>2. CASE ~Readable(config)
  <2>1. LoadConfig = NoConfig
    BY <1>2 DEF LoadConfig
  <2> QED BY <1>2, <2>1, NothingYet DEF LoginTyped, TablesTyped, DeviceSane
<1> QED BY <1>1, <1>2

\* More storages make no context wrong.
LEMMA SaneGrows ==
  ASSUME NEW c \in ConfigState, NEW n \in Nat, NEW m \in Nat, n <= m, Sane(c, n)
  PROVE  Sane(c, m)
<1>1. \A o \in Origin : c.contexts[o].storage \in Nat
  BY DEF ConfigState, Context
<1> QED BY <1>1 DEF Sane, SaneContext

LEMMA LoginSaneGrows ==
  ASSUME NEW k \in LoginState, NEW a, NEW n \in Nat, NEW m \in Nat, n <= m, LoginSane(k, a, n)
  PROVE  LoginSane(k, a, m)
<1>1. k.read \in ConfigState
  BY DEF LoginState
<1>2. Sane(k.read, n) => Sane(k.read, m)
  BY <1>1, SaneGrows
<1>3. k.storage \in 1 .. n => k.storage \in 1 .. m
  OBVIOUS
<1> QED BY <1>2, <1>3 DEF LoginSane

\* A context that names a server is one.
LEMMA ContextsByServer ==
  ASSUME NEW c, NEW n, Sane(c, n), NEW s \in LoginServer
  PROVE  ContextsOf(c, s) = {o \in Origin : c.contexts[o].server = s}
<1>1. s # NoServer /\ NoContext.server = NoServer
  BY DesktopLoginAssumption DEF NoContext
<1> QED BY <1>1 DEF ContextsOf, Known

\* A step that changes neither the file, the tables nor the logins.
LEMMA ElsewhereKeeps ==
  ASSUME LoginInv,
         UNCHANGED <<config, storageRows, discarded, accepted, raced, takenOver, cut, asked, login,
                     nextId>>,
         LoginTyped',
         (tokenSync.at # "idle" => Sane(tokenSync.read, nextId) /\ Readable(tokenSync.read))'
  PROVE  LoginInv'
<1>1. DeviceSane'
  BY DEF LoginInv, DeviceSane, Sane, LoginSane, Readable
<1>2. FingerprintInv'
  BY DEF LoginInv, FingerprintInv, FingerprintsAccepted, LoginAccepted, Pinned, ContextsOf, Known
<1>3. ASSUME StoragesSound PROVE StoragesSound'
  <2>1. (StoragesDiffer /\ RowsFollow /\ StoragesExist)'
    BY <1>3 DEF StoragesSound, StoragesDiffer, RowsFollow, StoragesExist, ContextAt, Placed
  <2>2. PlacingIsSaved' /\ OnePlaces' /\ BareIsFinalized'
    BY <1>3 DEF StoragesSound, PlacingIsSaved, OnePlaces, BareIsFinalized, ContextAt
  <2>3. NothingOrphaned => NothingOrphaned'
    BY DEF NothingOrphaned, ContextAt
  <2> QED BY <2>1, <2>2, <2>3, <1>3 DEF StoragesSound, Readable
<1> QED BY <1>1, <1>2, <1>3 DEF LoginInv, StorageInv

\* The login l and its entry become k and a; the device stays as it is.
LEMMA LoginMoves ==
  ASSUME LoginInv, NEW l \in Login, NEW k \in LoginState, NEW a \in AskedState,
         login' = [login EXCEPT ![l] = k], asked' = [asked EXCEPT ![l] = a],
         UNCHANGED <<world, file, tables, tokenSync, nextId, cut>>,
         LoginSane(k, a, nextId),
         ~Placing(login[l]), ~Placing(k), k.at # "load",
         Finalizing(login[l], asked[l]) => Finalizing(k, a) /\ k.url = login[l].url,
         ~raced => LoginAccepted(k)
  PROVE  LoginInv'
<1> USE DEF world, file, tables
<1>1. /\ login' \in [Login -> LoginState] /\ asked' \in [Login -> AskedState]
      /\ login'[l] = k /\ asked'[l] = a
      /\ \A m \in Login \ {l} : login'[m] = login[m] /\ asked'[m] = asked[m]
  BY DEF LoginInv, LoginTyped
<1>2. LoginTyped'
  BY <1>1 DEF LoginInv, LoginTyped, TablesTyped
<1>3. DeviceSane'
  <2>1. ASSUME NEW m \in Login PROVE LoginSane(login[m], asked[m], nextId)'
    BY <1>1 DEF LoginInv, DeviceSane
  <2> QED BY <2>1 DEF LoginInv, DeviceSane, Sane, Readable
<1>4. FingerprintInv'
  <2>1. ASSUME ~raced, NEW m \in Login PROVE LoginAccepted(login[m])'
    <3>1. LoginAccepted(login[m]) \/ m = l
      BY <2>1 DEF LoginInv, FingerprintInv
    <3> QED BY <1>1, <2>1, <3>1 DEF LoginAccepted
  <2> QED BY <2>1 DEF LoginInv, FingerprintInv, FingerprintsAccepted
<1>5. ASSUME StoragesSound PROVE StoragesSound'
  <2>1. \A m \in Login : /\ Placing(login'[m]) <=> Placing(login[m])
                         /\ Placing(login[m]) => login'[m] = login[m]
    BY <1>1
  <2>2. \A id : Placed(id)' <=> Placed(id)
    BY <2>1 DEF Placed
  <2>3. (StoragesDiffer /\ RowsFollow /\ StoragesExist)'
    BY <2>2, <1>5 DEF StoragesSound, StoragesDiffer, RowsFollow, StoragesExist, ContextAt
  <2>4. PlacingIsSaved' /\ OnePlaces'
    BY <2>1, <1>5 DEF StoragesSound, PlacingIsSaved, OnePlaces, ContextAt
  <2>5. \A m \in Login : Finalizing(login[m], asked[m]) =>
                           Finalizing(login'[m], asked'[m]) /\ login'[m].url = login[m].url
    BY <1>1
  <2>6. BareIsFinalized'
    BY <2>5, <1>5 DEF StoragesSound, BareIsFinalized, ContextAt
  <2>7. NothingOrphaned => NothingOrphaned'
    BY DEF NothingOrphaned, ContextAt
  <2> QED BY <2>3, <2>4, <2>6, <2>7, <1>5 DEF StoragesSound, Readable
<1> QED BY <1>2, <1>3, <1>4, <1>5 DEF LoginInv, StorageInv

-----------------------------------------------------------------------------
\* The servers and the edits of the user.
LEMMA WorldKeeps ==
  ASSUME LoginInv,
         \/ \E o \in Origin, s \in LoginServer : MoveServer(o, s)
         \/ \E s \in LoginServer : NewSecrets(s)
         \/ \E id \in 1 .. nextId : EditOffline(id)
  PROVE  LoginInv'
<1> USE DEF world, file, tables, counts
<1>1. /\ UNCHANGED <<config, storageRows, discarded, accepted, raced, takenOver, cut, asked, login,
                     nextId, tokenSync>>
  BY DEF MoveServer, NewSecrets, EditOffline
<1>2. (answers \in [Origin -> LoginServer] /\ secrets \in [LoginServer -> Nat \ {0}] /\ moves \in Nat)'
  <2>1. Cardinality(LoginServer) \in Nat
    BY FS_CardinalityType, DesktopLoginAssumption
  <2>2. Cardinality(LoginServer) + moves + 1 \in Nat \ {0} /\ moves + 1 \in Nat
    BY <2>1 DEF LoginInv, LoginTyped
  <2> QED BY <2>2 DEF LoginInv, LoginTyped, MoveServer, NewSecrets, EditOffline
<1>3. TablesTyped'
  <2>1. waiting' \subseteq {row.id : row \in storageRows}
    BY DEF LoginInv, LoginTyped, TablesTyped, MoveServer, NewSecrets, EditOffline
  <2> QED BY <1>1, <2>1 DEF LoginInv, LoginTyped, TablesTyped
<1>4. LoginTyped'
  BY <1>1, <1>2, <1>3 DEF LoginInv, LoginTyped
<1>5. (tokenSync.at # "idle" => Sane(tokenSync.read, nextId) /\ Readable(tokenSync.read))'
  BY <1>1 DEF LoginInv, DeviceSane
<1> QED BY <1>1, <1>4, <1>5, ElsewhereKeeps

\* remote_sync reads the file, or ends without saving it.
LEMMA SyncReadsKeeps == LoginInv /\ (SyncReads \/ SyncEnds) => LoginInv'
<1> SUFFICES ASSUME LoginInv, SyncReads \/ SyncEnds PROVE LoginInv'
  OBVIOUS
<1> USE DEF world, file, tables, counts
<1>1. UNCHANGED <<world, file, tables, asked, login, nextId, counts>>
  BY DEF SyncReads, SyncEnds
<1>2. tokenSync' \in TokenSyncState
  BY NothingYet, Loaded DEF LoginInv, SyncReads, SyncEnds, TokenSyncState
<1>3. LoginTyped'
  BY <1>1, <1>2 DEF LoginInv, LoginTyped, TablesTyped
<1>4. (tokenSync.at # "idle" => Sane(tokenSync.read, nextId) /\ Readable(tokenSync.read))'
  BY <1>1, Loaded DEF LoginInv, SyncReads, SyncEnds, NoTokenSync
<1> QED BY <1>1, <1>3, <1>4, ElsewhereKeeps

-----------------------------------------------------------------------------
\* A login or a registration begins.
LEMMA BeginKeeps ==
  ASSUME LoginInv, NEW l \in Login, NEW url \in Address,
         PasswordLogin(l, url) \/ PasswordRegister(l, url) \/ BeginLogin(l, url)
  PROVE  LoginInv'
<1>1. PICK at \in {"request", "listen"} : Begin(l, url, at)
  BY DEF PasswordLogin, PasswordRegister, BeginLogin
<1>2. PICK k : k = [NoLogin EXCEPT !.at = at, !.url = url]
  OBVIOUS
<1>3. k \in LoginState /\ k.at = at /\ k.url = url
  BY <1>2, NothingYet DEF LoginState, LoginSteps
<1>4. PICK a : a = asked'[l] /\ asked' = [asked EXCEPT ![l] = a] /\ a \in AskedState /\ a.fp = 0
  <2>1. asked[l].fp = 0 /\ asked[l] \in AskedState
    BY <1>1 DEF Begin, LoginInv, LoginTyped, DeviceSane, LoginSane
  <2>2. asked' = asked \/ asked' = [asked EXCEPT ![l] = [NotAsked EXCEPT !.open = TRUE]]
    BY DEF PasswordLogin, PasswordRegister, BeginLogin
  <2>3. [NotAsked EXCEPT !.open = TRUE] \in AskedState /\ [NotAsked EXCEPT !.open = TRUE].fp = 0
    BY NothingYet DEF AskedState, NotAsked
  <2> QED BY <2>1, <2>2, <2>3 DEF LoginInv, LoginTyped
<1>5. /\ login' = [login EXCEPT ![l] = k] /\ login[l].at = "idle"
      /\ UNCHANGED <<world, file, tables, tokenSync, nextId, cut>>
  BY <1>1, <1>2 DEF Begin
<1>6. LoginSane(k, a, nextId)
  BY <1>3, <1>4 DEF LoginSane
<1>7. ~Placing(login[l]) /\ ~Placing(k) /\ k.at # "load" /\ ~Finalizing(login[l], asked[l])
  BY <1>3, <1>5 DEF Placing, Finalizing
<1>8. LoginAccepted(k)
  BY <1>3 DEF LoginAccepted
<1> QED BY <1>3, <1>4, <1>5, <1>6, <1>7, <1>8, LoginMoves

\* The entry of a login, which a step leaves alone.
LEMMA AskedStays ==
  ASSUME LoginTyped, NEW l \in Login, UNCHANGED asked
  PROVE  asked[l] \in AskedState /\ asked' = [asked EXCEPT ![l] = asked[l]]
  BY DEF LoginTyped

\* A login ends, by itself or by an error.
LEMMA LoginEnds ==
  ASSUME LoginInv, NEW l \in Login,
         \/ \E matches \in BOOLEAN : Callback(l, matches) /\ login'[l].at # "request"
         \/ ListenerFails(l) \/ RequestFails(l) \/ FinishLogin(l)
  PROVE  LoginInv'
<1>0. /\ login[l].at \in {"listen", "request", "finish"}
      /\ UNCHANGED <<world, file, tables, tokenSync, nextId, cut>>
      /\ asked' = asked \/ asked' = [asked EXCEPT ![l] = NotAsked]
      /\ login[l].at = "finish" => asked' = [asked EXCEPT ![l] = NotAsked]
  BY DEF Callback, ListenerFails, RequestFails, FinishLogin, counts
<1>1. login' = [login EXCEPT ![l] = NoLogin]
  <2>1. ASSUME NEW matches \in BOOLEAN, Callback(l, matches), login'[l].at # "request"
        PROVE  login' = [login EXCEPT ![l] = NoLogin]
    <3>1. login[l] \in LoginState /\ [login[l] EXCEPT !.at = "request"].at = "request"
      BY DEF LoginInv, LoginTyped, LoginState
    <3>2. ~(asked[l].open /\ matches)
      BY <2>1, <3>1 DEF Callback, LoginInv, LoginTyped
    <3> QED BY <2>1, <3>2 DEF Callback
  <2> QED BY <2>1 DEF ListenerFails, RequestFails, FinishLogin
<1>2. PICK a : asked' = [asked EXCEPT ![l] = a] /\ a \in AskedState /\ a.fp = 0
  <2>1. CASE asked' = [asked EXCEPT ![l] = NotAsked]
    <3>1. NotAsked.fp = 0
      BY DEF NotAsked
    <3> QED BY <2>1, <3>1, NothingYet
  <2>2. CASE asked' = asked /\ login[l].at # "finish"
    <3>1. asked[l].fp = 0
      BY <1>0, <2>2 DEF LoginInv, DeviceSane, LoginSane
    <3> QED BY <2>2, <3>1, AskedStays DEF LoginInv
  <2> QED BY <2>1, <2>2, <1>0
<1>3. LoginSane(NoLogin, a, nextId)
  BY <1>2 DEF LoginSane, NoLogin
<1>4. NoLogin.at = "idle"
  BY DEF NoLogin
<1>5. ~Placing(login[l]) /\ ~Placing(NoLogin) /\ ~Finalizing(login[l], asked[l])
  BY <1>0, <1>4 DEF Placing, Finalizing
<1> QED BY <1>0, <1>1, <1>2, <1>3, <1>4, <1>5, NothingYet, LoginMoves DEF LoginAccepted

\* The browser comes back.
LEMMA CallbackKeeps ==
  ASSUME LoginInv, NEW l \in Login, NEW matches \in BOOLEAN, Callback(l, matches)
  PROVE  LoginInv'
<1>1. CASE login'[l].at # "request"
  BY <1>1, LoginEnds
<1>2. CASE login'[l].at = "request"
  <2>1. login[l] \in LoginState /\ login[l].at = "listen" /\ LoginSane(login[l], asked[l], nextId)
    BY DEF Callback, LoginInv, LoginTyped, DeviceSane
  <2>2. PICK k : k = [login[l] EXCEPT !.at = "request"]
    OBVIOUS
  <2>3. k \in LoginState /\ k.at = "request" /\ k.url = login[l].url
    BY <2>1, <2>2 DEF LoginState, LoginSteps
  <2>4. login' = [login EXCEPT ![l] = k]
    BY <1>2, <2>2 DEF Callback, NoLogin, LoginInv, LoginTyped
  <2>5. UNCHANGED <<world, file, tables, tokenSync, nextId, cut, asked>>
    BY DEF Callback, counts
  <2>6. LoginSane(k, asked[l], nextId)
    BY <2>1, <2>3 DEF LoginSane
  <2>7. ~Placing(login[l]) /\ ~Placing(k) /\ ~Finalizing(login[l], asked[l]) /\ LoginAccepted(k)
    BY <2>1, <2>3 DEF Placing, Finalizing, LoginAccepted
  <2>8. asked[l] \in AskedState /\ asked' = [asked EXCEPT ![l] = asked[l]]
    BY <2>5, AskedStays DEF LoginInv
  <2> QED BY <2>3, <2>4, <2>5, <2>6, <2>7, <2>8, LoginMoves
<1> QED BY <1>1, <1>2

\* The server has answered: the login waits for the user, or goes on with the
\* file that pins the fingerprint.
LEMMA AnsweredKeeps ==
  ASSUME LoginInv, NEW l \in Login, Answered(l)
  PROVE  LoginInv'
<1> DEFINE url == login[l].url
           server == answers[ContextName(url)]
           result == [server |-> server, fp |-> secrets[server]]
<1>1. /\ login[l] \in LoginState /\ login[l].at = "request" /\ LoginSane(login[l], asked[l], nextId)
      /\ url \in Address /\ ContextName(url) \in Origin
  <2>1. login[l] \in LoginState /\ login[l].at = "request" /\ LoginSane(login[l], asked[l], nextId)
    BY DEF Answered, LoginInv, LoginTyped, DeviceSane
  <2> QED BY <2>1 DEF LoginSane, Address, ContextName
<1>2. server \in LoginServer /\ secrets[server] \in Nat \ {0}
  BY <1>1 DEF LoginInv, LoginTyped
<1>3. PICK res : res = result
  OBVIOUS
<1>4. res \in ResultState /\ res.server = server /\ res.fp = secrets[server]
  BY <1>2, <1>3 DEF ResultState
<1>5. PICK o \in PinContexts(url, server) :
        IF FingerprintChanged(o, result.fp)
        THEN /\ asked' = [asked EXCEPT ![l] = [open |-> TRUE, fp |-> result.fp, result |-> result]]
             /\ login' = [login EXCEPT ![l] = [NoLogin EXCEPT !.url = url]]
        ELSE /\ login' = [login EXCEPT ![l] =
                  [login[l] EXCEPT !.at = "save", !.result = result, !.read = LoadConfig]]
             /\ UNCHANGED asked
  BY DEF Answered, LoginInv, LoginTyped
<1>6. UNCHANGED <<world, file, tables, tokenSync, nextId, cut>>
  BY DEF Answered, counts
<1>7. asked[l] \in AskedState /\ ~Placing(login[l]) /\ ~Finalizing(login[l], asked[l])
      /\ asked[l].fp = 0
  BY <1>1 DEF LoginInv, LoginTyped, Placing, Finalizing, LoginSane
<1>8. CASE FingerprintChanged(o, result.fp)
  <2>1. PICK k : k = [NoLogin EXCEPT !.url = url]
    OBVIOUS
  <2>2. k \in LoginState /\ k.at = "idle" /\ k.url = url
    BY <1>1, <2>1, NothingYet DEF LoginState, NoLogin
  <2>3. PICK a : a = [open |-> TRUE, fp |-> res.fp, result |-> res]
    OBVIOUS
  <2>4. a \in AskedState /\ a.open /\ a.fp = res.fp /\ a.result = res
    BY <1>4, <2>3 DEF AskedState, ResultState
  <2>5. login' = [login EXCEPT ![l] = k] /\ asked' = [asked EXCEPT ![l] = a]
    BY <1>3, <1>5, <1>8, <2>1, <2>3
  <2>6. LoginSane(k, a, nextId)
    BY <1>1, <1>2, <1>4, <2>2, <2>4 DEF LoginSane
  <2>7. ~Placing(k) /\ LoginAccepted(k)
    BY <2>2 DEF Placing, LoginAccepted
  <2> HIDE DEF url, server, result
  <2> QED BY <1>6, <1>7, <2>2, <2>4, <2>5, <2>6, <2>7, LoginMoves
<1>9. CASE ~FingerprintChanged(o, result.fp)
  <2>1. PICK k : k = [login[l] EXCEPT !.at = "save", !.result = res, !.read = LoadConfig]
    OBVIOUS
  <2>2. k \in LoginState /\ k.at = "save" /\ k.url = url /\ k.result = res /\ k.read = LoadConfig
    BY <1>1, <1>4, <2>1, Loaded DEF LoginState, LoginSteps, LoginInv
  <2>3. login' = [login EXCEPT ![l] = k] /\ asked' = [asked EXCEPT ![l] = asked[l]]
    BY <1>3, <1>5, <1>9, <2>1, AskedStays DEF LoginInv
  <2>4. LoginSane(k, asked[l], nextId)
    BY <1>1, <1>2, <1>4, <1>7, <2>2, Loaded DEF LoginSane, LoginInv
  <2>5. Pinned(k)
    <3>1. LoadConfig.contexts[o].fp \in {0, res.fp}
      BY <1>3, <1>9 DEF FingerprintChanged
    <3>2. CASE ContextsOf(LoadConfig, server) = {}
      <4>1. o = ContextName(url)
        BY <1>5, <3>2 DEF PinContexts
      <4> QED BY <1>4, <2>2, <3>1, <3>2, <4>1 DEF Pinned
    <3>3. CASE ContextsOf(LoadConfig, server) # {}
      <4>1. o \in ContextsOf(LoadConfig, server)
        BY <1>5, <3>3 DEF PinContexts
      <4>2. o \in Origin /\ LoadConfig.contexts[o].server = server
        BY <4>1 DEF ContextsOf
      <4>3. LoadConfig.contexts[o].fp # 0
        BY <1>2, <4>2, Loaded, DesktopLoginAssumption DEF LoginInv, Sane, SaneContext
      <4> QED BY <1>4, <2>2, <3>1, <4>1, <4>3 DEF Pinned
    <3> QED BY <3>2, <3>3
  <2>6. ~Placing(k) /\ LoginAccepted(k)
    BY <2>2, <2>5 DEF Placing, LoginAccepted
  <2> HIDE DEF url, server, result
  <2> QED BY <1>6, <1>7, <2>2, <2>3, <2>4, <2>6, LoginMoves
<1> QED BY <1>8, <1>9

\* finalize_login reads the file.
LEMMA LoadKeeps ==
  ASSUME LoginInv, NEW l \in Login, LoadForLogin(l)
  PROVE  LoginInv'
<1>1. /\ login[l] \in LoginState /\ login[l].at = "load" /\ LoginSane(login[l], asked[l], nextId)
      /\ asked[l] \in AskedState
  BY DEF LoadForLogin, LoginInv, LoginTyped, DeviceSane
<1>2. PICK k : k = [login[l] EXCEPT !.at = "save", !.read = LoadConfig]
  OBVIOUS
<1>3. /\ k \in LoginState /\ k.at = "save" /\ k.url = login[l].url /\ k.result = login[l].result
      /\ k.read = LoadConfig
  BY <1>1, <1>2, Loaded DEF LoginState, LoginSteps, LoginInv
<1>4. /\ login' = [login EXCEPT ![l] = k] /\ UNCHANGED asked
      /\ UNCHANGED <<world, file, tables, tokenSync, nextId, cut>>
  BY <1>2 DEF LoadForLogin, counts
<1>5. LoginSane(k, asked[l], nextId)
  BY <1>1, <1>3, Loaded DEF LoginSane, LoginInv
<1>6. ~Placing(login[l]) /\ ~Placing(k) /\ Finalizing(k, asked[l])
  BY <1>1, <1>3 DEF Placing, Finalizing, LoginSane
<1>7. ~raced => LoginAccepted(k)
  BY <1>1, <1>3 DEF LoginInv, FingerprintInv, LoginAccepted
<1>8. asked' = [asked EXCEPT ![l] = asked[l]]
  BY <1>4, AskedStays DEF LoginInv
<1> QED BY <1>1, <1>3, <1>4, <1>5, <1>6, <1>7, <1>8, LoginMoves

-----------------------------------------------------------------------------
\* save_config notes what was taken over and whether commands overlapped.
LEMMA SavedFlags ==
  ASSUME NEW c, NEW read, NEW others, SaveConfig(c, read, others), LoginTyped
  PROVE  /\ config' = c /\ raced' \in BOOLEAN /\ takenOver' \in BOOLEAN
         /\ takenOver => takenOver'
         /\ raced => raced'
         /\ ~raced' => LoadConfig = read /\ others = {}
         /\ ~takenOver' => \A o \in Origin :
              \/ c.contexts[o].server = LoadConfig.contexts[o].server
              \/ c.contexts[o].server = NoServer
              \/ LoadConfig.contexts[o].server = NoServer
<1>1. config' = c /\ (takenOver => takenOver') /\ (raced => raced')
  BY DEF SaveConfig
<1>2. raced' \in BOOLEAN /\ takenOver' \in BOOLEAN
  BY Zenon DEF SaveConfig
<1>3. ~raced' => LoadConfig = read /\ others = {}
  BY DEF SaveConfig
<1>4. ~takenOver' => \A o \in Origin :
        \/ c.contexts[o].server = LoadConfig.contexts[o].server
        \/ c.contexts[o].server = NoServer
        \/ LoadConfig.contexts[o].server = NoServer
  BY DEF SaveConfig
<1> QED BY <1>1, <1>2, <1>3, <1>4

\* A sync saves the file that it read: the same one, unless commands overlapped.
LEMMA SyncSavesKeeps ==
  ASSUME LoginInv, NEW last \in BOOLEAN, SyncSaves(last)
  PROVE  LoginInv'
<1> USE DEF world, tables, counts
<1>1. /\ UNCHANGED <<world, tables, accepted, asked, login, nextId, counts>>
      /\ SaveConfig(tokenSync.read, tokenSync.read, {})
      /\ tokenSync.read \in ConfigState /\ Sane(tokenSync.read, nextId) /\ Readable(tokenSync.read)
  BY DEF SyncSaves, LoginInv, LoginTyped, DeviceSane, TokenSyncState
<1>2. /\ config' = tokenSync.read /\ raced' \in BOOLEAN /\ takenOver' \in BOOLEAN
      /\ takenOver => takenOver'
      /\ raced => raced'
      /\ ~raced' => LoadConfig = tokenSync.read
  BY <1>1, SavedFlags DEF LoginInv
<1>3. tokenSync' \in TokenSyncState /\ (tokenSync'.at = "idle" \/ tokenSync'.read = tokenSync.read)
  BY NothingYet DEF SyncSaves, LoginInv, LoginTyped, TokenSyncState, NoTokenSync
<1>4. LoginTyped'
  BY <1>1, <1>2, <1>3 DEF LoginInv, LoginTyped, TablesTyped
<1>5. DeviceSane'
  BY <1>1, <1>2, <1>3 DEF LoginInv, DeviceSane
<1>6. FingerprintInv'
  <2> SUFFICES ASSUME ~raced' PROVE FingerprintsAccepted' /\ \A l \in Login : LoginAccepted(login[l])'
    BY DEF FingerprintInv
  <2>1. config'.contexts = config.contexts /\ ~raced
    BY <1>2, Loaded DEF LoginInv
  <2> QED BY <1>1, <2>1 DEF LoginInv, FingerprintInv, FingerprintsAccepted, LoginAccepted
<1>7. StorageInv'
  <2> SUFFICES ASSUME ~raced', ~cut' PROVE StoragesSound'
    BY DEF StorageInv
  <2>1. StoragesSound
    BY <1>1, <1>2 DEF LoginInv, StorageInv
  <2>2. config' = config
    BY <1>2, <2>1, Loaded DEF LoginInv, StoragesSound
  <2>3. (StoragesDiffer /\ RowsFollow /\ StoragesExist)'
    BY <1>1, <2>1, <2>2 DEF StoragesSound, StoragesDiffer, RowsFollow, StoragesExist, ContextAt, Placed
  <2>4. PlacingIsSaved' /\ OnePlaces' /\ BareIsFinalized'
    BY <1>1, <2>1, <2>2 DEF StoragesSound, PlacingIsSaved, OnePlaces, BareIsFinalized, ContextAt
  <2>5. NothingOrphaned => NothingOrphaned'
    BY <1>1, <2>2 DEF NothingOrphaned, ContextAt
  <2> QED BY <1>2, <2>1, <2>2, <2>3, <2>4, <2>5 DEF StoragesSound
<1> QED BY <1>4, <1>5, <1>6, <1>7 DEF LoginInv

\* storage_sign_out takes the session of a context away and leaves the rest.
LEMMA SignOutKeeps ==
  ASSUME LoginInv, NEW id \in 1 .. nextId, NEW erase \in BOOLEAN, SignOut(id, erase)
  PROVE  LoginInv'
<1> USE DEF world, counts
<1>1. UNCHANGED <<world, storageRows, discarded, accepted, raced, takenOver, asked, login, tokenSync,
                  nextId, counts>>
  BY DEF SignOut
<1>2. PICK cs : cs = [o \in Origin |-> IF config.contexts[o].storage = id
                        THEN [config.contexts[o] EXCEPT !.token = FALSE] ELSE config.contexts[o]]
  OBVIOUS
<1>3. config' = [config EXCEPT !.contexts = cs]
  BY <1>2 DEF SignOut, LoginInv, LoginTyped, ConfigState
<1>4. config.contexts \in [Origin -> Context] /\ id # 0
  BY DEF LoginInv, LoginTyped, TablesTyped, ConfigState
<1>5. /\ cs \in [Origin -> Context]
      /\ \A o \in Origin :
           /\ cs[o].addr = config.contexts[o].addr /\ cs[o].server = config.contexts[o].server
           /\ cs[o].fp = config.contexts[o].fp /\ cs[o].storage = config.contexts[o].storage
           /\ cs[o].token => config.contexts[o].token
           /\ cs[o] = config.contexts[o] \/ config.contexts[o].storage = id
  BY <1>2, <1>4 DEF Context
<1>6. config' \in ConfigState /\ config'.contexts = cs /\ config'.current = config.current
  BY <1>3, <1>5 DEF LoginInv, LoginTyped, ConfigState
<1>7. waiting' \subseteq waiting
  BY DEF SignOut
<1>8. LoginTyped'
  <2>1. TablesTyped'
    BY <1>1, <1>7 DEF LoginInv, LoginTyped, TablesTyped
  <2> QED BY <1>1, <1>6, <2>1 DEF LoginInv, LoginTyped
<1>9. DeviceSane'
  <2>1. ASSUME NEW o \in Origin PROVE SaneContext(cs[o], o, nextId)
    <3>1. SaneContext(config.contexts[o], o, nextId)
      BY DEF LoginInv, DeviceSane, Sane
    <3>2. config.contexts[o].server = NoServer => cs[o] = NoContext
      BY <1>4, <1>5, <3>1 DEF SaneContext, NoContext
    <3> QED BY <1>5, <3>1, <3>2 DEF SaneContext
  <2>2. ~Readable(config) => cs = NoConfig.contexts
    <3>1. ASSUME ~Readable(config), NEW o \in Origin PROVE cs[o] = NoContext
      BY <3>1, <1>4, <1>5 DEF LoginInv, DeviceSane, NoConfig, NoContext
    <3> QED BY <3>1, <1>5 DEF NoConfig
  <2>3. Sane(config, nextId)'
    BY <1>1, <1>6, <2>1 DEF Sane
  <2>4. ~Readable(config') => config'.contexts = NoConfig.contexts
    BY <1>6, <2>2 DEF Readable
  <2> QED BY <1>1, <2>3, <2>4 DEF LoginInv, DeviceSane
<1>10. FingerprintInv'
  BY <1>1, <1>5, <1>6 DEF LoginInv, FingerprintInv, FingerprintsAccepted, LoginAccepted
<1>11. ASSUME StoragesSound PROVE StoragesSound'
  <2>1. \A o \in Origin : /\ ContextAt(o)'.storage = ContextAt(o).storage
                          /\ ContextAt(o)'.addr = ContextAt(o).addr
                          /\ ContextAt(o)'.server = ContextAt(o).server
    BY <1>5, <1>6 DEF ContextAt
  <2>2. \A l \in Login : login[l].at # "idle" => login[l].url.origin \in Origin
    BY DEF LoginInv, DeviceSane, LoginSane, Address
  <2>3. \A i : Placed(i)' <=> Placed(i)
    BY <1>1 DEF Placed
  <2>4. (StoragesDiffer /\ RowsFollow /\ StoragesExist)'
    BY <1>1, <2>1, <2>3, <1>11 DEF StoragesSound, StoragesDiffer, RowsFollow, StoragesExist
  <2>5. PlacingIsSaved' /\ OnePlaces'
    BY <1>1, <2>1, <2>2, <1>11 DEF StoragesSound, PlacingIsSaved, OnePlaces, Placing
  <2>6. BareIsFinalized'
    BY <1>1, <2>1, <1>11 DEF StoragesSound, BareIsFinalized
  <2>7. NothingOrphaned => NothingOrphaned'
    BY <1>1, <2>1 DEF NothingOrphaned
  <2> QED BY <1>1, <1>6, <2>4, <2>5, <2>6, <2>7, <1>11 DEF StoragesSound, Readable
<1> QED BY <1>1, <1>8, <1>9, <1>10, <1>11 DEF LoginInv, StorageInv

-----------------------------------------------------------------------------
\* What the file is without the contexts of some storages.
LEMMA WithoutSome ==
  ASSUME LoginInv, NEW ids, 0 \notin ids, config' = WithoutContexts(config, ids), nextId' = nextId
  PROVE  /\ config' \in ConfigState /\ Sane(config, nextId)'
         /\ Readable(config') <=> Readable(config)
         /\ ~Readable(config') => config'.contexts = NoConfig.contexts
         /\ \A o \in Origin : config'.contexts[o] = IF config.contexts[o].storage \in ids
                                                    THEN NoContext ELSE config.contexts[o]
         /\ (\A o \in Origin : config.contexts[o].storage \notin ids) => config' = config
<1>1. config \in ConfigState /\ nextId \in Nat /\ Sane(config, nextId)
  BY DEF LoginInv, LoginTyped, TablesTyped, DeviceSane
<1>2. PICK cs : cs = [o \in Origin |-> IF config.contexts[o].storage \in ids THEN NoContext
                                       ELSE config.contexts[o]]
  OBVIOUS
<1>3. PICK cur : cur = IF config.current \in Origin /\ config.contexts[config.current].storage \in ids
                       THEN NoOrigin ELSE config.current
  OBVIOUS
<1>4. config' = [contexts |-> cs, current |-> cur]
  BY <1>2, <1>3 DEF WithoutContexts
<1>5. cs \in [Origin -> Context] /\ cur \in Origin \cup {NoOrigin, "torn"}
  BY <1>1, <1>2, <1>3, NothingYet DEF ConfigState
<1>6. config'.contexts = cs /\ config'.current = cur /\ config' \in ConfigState
  BY <1>4, <1>5 DEF ConfigState
<1>7. Readable(config') <=> Readable(config)
  BY <1>3, <1>6, DesktopLoginAssumption DEF Readable
<1>8. Sane(config, nextId)'
  <2>1. ASSUME NEW o \in Origin PROVE SaneContext(cs[o], o, nextId)
    <3>1. SaneContext(NoContext, o, nextId)
      BY <1>1 DEF SaneContext, NoContext
    <3> QED BY <1>1, <1>2, <3>1 DEF Sane
  <2> QED BY <1>6, <2>1 DEF Sane
<1>9. ~Readable(config') => config'.contexts = NoConfig.contexts
  <2>1. ASSUME ~Readable(config) PROVE cs = NoConfig.contexts
    BY <2>1, <1>2 DEF LoginInv, DeviceSane, NoConfig
  <2> QED BY <1>6, <1>7, <2>1
<1>10. ASSUME \A o \in Origin : config.contexts[o].storage \notin ids PROVE config' = config
  <2>1. cs = config.contexts /\ cur = config.current
    BY <1>1, <1>2, <1>3, <1>10 DEF ConfigState
  <2> QED BY <1>1, <1>4, <2>1 DEF ConfigState
<1>11. \A o \in Origin : config'.contexts[o] = IF config.contexts[o].storage \in ids
                                               THEN NoContext ELSE config.contexts[o]
  BY <1>2, <1>6
<1> QED BY <1>6, <1>7, <1>8, <1>9, <1>10, <1>11

\* storage_delete while no login changes the device: the row and its context go.
LEMMA RemoveKeeps ==
  ASSUME LoginInv, NEW id \in 1 .. nextId, RemoveStorage(id)
  PROVE  LoginInv'
<1> USE DEF world, counts
<1>1. /\ UNCHANGED <<world, accepted, takenOver, discarded, asked, login, tokenSync, nextId, counts>>
      /\ storageRows' = {row \in storageRows : row.id # id} /\ waiting' = waiting \ {id}
      /\ config' = WithoutContexts(config, {id})
  BY DEF RemoveStorage
<1>2. nextId \in Nat /\ id # 0
  BY DEF LoginInv, LoginTyped, TablesTyped
<1>3. /\ config' \in ConfigState /\ Sane(config, nextId)'
      /\ Readable(config') <=> Readable(config)
      /\ ~Readable(config') => config'.contexts = NoConfig.contexts
      /\ \A o \in Origin : config'.contexts[o] = IF config.contexts[o].storage \in {id}
                                                 THEN NoContext ELSE config.contexts[o]
  <2>1. 0 \notin {id} /\ config' = WithoutContexts(config, {id}) /\ nextId' = nextId
    BY <1>1, <1>2
  <2> QED BY <2>1, WithoutSome, Zenon
<1>4. raced' \in BOOLEAN /\ (raced => raced') /\ (~raced' => Applying = {})
  <2>1. raced' = (raced \/ Applying # {})
    BY DEF RemoveStorage
  <2> QED BY <2>1, Zenon
<1>5. TablesTyped'
  <2>1. waiting' \subseteq {row.id : row \in storageRows'}
    <3>1. ASSUME NEW i \in waiting' PROVE \E row \in storageRows' : row.id = i
      <4>1. PICK row \in storageRows : row.id = i /\ i # id
        BY <1>1 DEF LoginInv, LoginTyped, TablesTyped
      <4> QED BY <1>1, <4>1
    <3> QED BY <3>1
  <2>2. storageRows' \subseteq storageRows
    BY <1>1
  <2> QED BY <1>1, <2>1, <2>2 DEF LoginInv, LoginTyped, TablesTyped
<1>6. LoginTyped'
  BY <1>1, <1>3, <1>4, <1>5 DEF LoginInv, LoginTyped
<1>7. DeviceSane'
  BY <1>1, <1>3 DEF LoginInv, DeviceSane
<1>8. FingerprintInv'
  <2>1. NoContext.fp = 0
    BY DEF NoContext
  <2> QED BY <1>1, <1>3, <1>4, <2>1 DEF LoginInv, FingerprintInv, FingerprintsAccepted, LoginAccepted
<1>9. StorageInv'
  <2> SUFFICES ASSUME ~raced', ~cut' PROVE StoragesSound'
    BY DEF StorageInv
  <2>1. StoragesSound
    BY <1>1, <1>4 DEF LoginInv, StorageInv
  <2>2. \A l \in Login : ~Placing(login[l])
    BY <1>4 DEF Applying, Placing
  <2>3. \A i : ~Placed(i) /\ ~Placed(i)'
    BY <1>1, <2>2 DEF Placed
  <2>4. \A o \in Origin : \/ ContextAt(o)' = ContextAt(o) /\ ContextAt(o).storage # id
                          \/ ContextAt(o).storage = id /\ ContextAt(o)' = NoContext
    BY <1>3 DEF ContextAt
  <2>5. NoContext.storage = 0 /\ NoContext.server = NoServer
    BY DEF NoContext
  <2>6. StoragesDiffer'
    BY <2>1, <2>4, <2>5 DEF StoragesSound, StoragesDiffer
  <2>7. RowsFollow'
    <3>1. ASSUME NEW row \in storageRows', NEW o \in Origin, ContextAt(o)'.storage = row.id
          PROVE  row.url = ContextAt(o)'.addr
      <4>1. row \in storageRows /\ row.id # id /\ row.id # 0
        BY <1>1, <1>2 DEF LoginInv, LoginTyped, TablesTyped
      <4> QED BY <2>1, <2>3, <2>4, <2>5, <3>1, <4>1 DEF StoragesSound, RowsFollow
    <3> QED BY <3>1 DEF RowsFollow
  <2>8. StoragesExist'
    <3>1. ASSUME NEW o \in Origin, ContextAt(o)'.storage # 0
          PROVE  ContextAt(o)'.storage \in {row.id : row \in storageRows'}
      <4>1. ContextAt(o)' = ContextAt(o) /\ ContextAt(o).storage # id
        BY <2>4, <2>5, <3>1
      <4>2. PICK row \in storageRows : row.id = ContextAt(o).storage
        BY <2>1, <2>3, <3>1, <4>1 DEF StoragesSound, StoragesExist
      <4>3. row \in storageRows'
        BY <1>1, <4>1, <4>2
      <4> QED BY <4>1, <4>2, <4>3
    <3> QED BY <3>1 DEF StoragesExist
  <2>9. PlacingIsSaved' /\ OnePlaces'
    BY <1>1, <2>2 DEF PlacingIsSaved, OnePlaces
  <2>10. BareIsFinalized'
    BY <1>1, <2>1, <2>4, <2>5 DEF StoragesSound, BareIsFinalized
  <2>11. ASSUME NothingOrphaned PROVE NothingOrphaned'
    <3>1. ASSUME NEW row \in storageRows' PROVE \E o \in Origin : ContextAt(o)'.storage = row.id
      BY <1>1, <2>4, <2>11 DEF NothingOrphaned
    <3>2. \A o, q \in Origin :
            o # q /\ ContextAt(o)'.server = ContextAt(q)'.server /\ ContextAt(o)'.server # NoServer
              => ContextAt(o)'.storage = 0 \/ ContextAt(q)'.storage = 0
      BY <2>4, <2>5, <2>11 DEF NothingOrphaned
    <3> QED BY <1>1, <2>11, <3>1, <3>2 DEF NothingOrphaned
  <2> QED BY <1>1, <1>3, <2>1, <2>6, <2>7, <2>8, <2>9, <2>10, <2>11 DEF StoragesSound
<1> QED BY <1>6, <1>7, <1>8, <1>9 DEF LoginInv

\* The application is killed while no login has written part of the device, or
\* all that is claimed is that the fingerprints are right.
LEMMA KillKeeps ==
  ASSUME LoginInv, NEW torn \in BOOLEAN, KillDesktop(torn)
  PROVE  LoginInv'
<1> USE DEF world, tables
<1>1. /\ UNCHANGED <<world, tables, accepted, raced, takenOver, nextId>>
      /\ login' = [l \in Login |-> NoLogin] /\ asked' = [l \in Login |-> NotAsked]
      /\ tokenSync' = NoTokenSync /\ config' = IF torn THEN Unreadable ELSE config
  BY DEF KillDesktop
<1>2. cut' \in BOOLEAN /\ (~cut' => ~cut /\ ~torn /\ Halfway = {})
  <2>1. cut' = (cut \/ torn \/ Halfway # {})
    BY DEF KillDesktop
  <2> QED BY <2>1, Zenon
<1>3. config' \in ConfigState /\ login' \in [Login -> LoginState] /\ asked' \in [Login -> AskedState]
      /\ tokenSync' \in TokenSyncState
  BY <1>1, NothingYet DEF LoginInv, LoginTyped
<1>4. LoginTyped'
  BY <1>1, <1>2, <1>3 DEF LoginInv, LoginTyped, TablesTyped
<1>5. \A o \in Origin : config'.contexts[o] = config.contexts[o] \/ config'.contexts[o] = NoContext
  BY <1>1 DEF Unreadable
<1>6. DeviceSane'
  <2>1. nextId \in Nat
    BY DEF LoginInv, LoginTyped, TablesTyped
  <2>2. Sane(config, nextId)'
    <3>1. Sane(Unreadable, nextId)
      BY <2>1, NothingYet DEF Sane
    <3> QED BY <1>1, <3>1 DEF LoginInv, DeviceSane
  <2>3. ~Readable(config') => config'.contexts = NoConfig.contexts
    BY <1>1, NothingYet DEF LoginInv, DeviceSane
  <2>4. \A l \in Login : LoginSane(login'[l], asked'[l], nextId')
    BY <1>1, <2>1, NothingYet
  <2> QED BY <1>1, <2>2, <2>3, <2>4 DEF DeviceSane, NoTokenSync
<1>7. \A l \in Login : login'[l].at = "idle"
  BY <1>1 DEF NoLogin
<1>8. FingerprintInv'
  <2>1. NoContext.fp = 0
    BY DEF NoContext
  <2>2. ~raced => FingerprintsAccepted'
    BY <1>1, <1>5, <2>1 DEF LoginInv, FingerprintInv, FingerprintsAccepted
  <2> QED BY <1>1, <1>7, <2>2 DEF FingerprintInv, LoginAccepted
<1>9. StorageInv'
  <2> SUFFICES ASSUME ~raced', ~cut' PROVE StoragesSound'
    BY DEF StorageInv
  <2>1. StoragesSound /\ config' = config
    BY <1>1, <1>2 DEF LoginInv, StorageInv
  <2>2. \A l \in Login : ~Placing(login[l]) /\ ~Finalizing(login[l], asked[l]) /\ ~Placing(login'[l])
    BY <1>2, <1>7 DEF Halfway, Applying, Placing, Finalizing
  <2>3. \A i : ~Placed(i) /\ ~Placed(i)'
    BY <2>2 DEF Placed
  <2>4. (StoragesDiffer /\ RowsFollow /\ StoragesExist)'
    BY <1>1, <2>1, <2>3 DEF StoragesSound, StoragesDiffer, RowsFollow, StoragesExist, ContextAt
  <2>5. PlacingIsSaved' /\ OnePlaces'
    BY <2>2 DEF PlacingIsSaved, OnePlaces
  <2>6. BareIsFinalized'
    BY <1>1, <2>1, <2>2 DEF StoragesSound, BareIsFinalized, ContextAt
  <2>7. NothingOrphaned => NothingOrphaned'
    BY <1>1, <2>1 DEF NothingOrphaned, ContextAt
  <2> QED BY <1>1, <2>1, <2>4, <2>5, <2>6, <2>7 DEF StoragesSound
<1> QED BY <1>4, <1>6, <1>8, <1>9 DEF LoginInv

-----------------------------------------------------------------------------
\* What a login l that is at work on the device becomes: k, with its entry as it
\* is.
LEMMA LoginAt ==
  ASSUME LoginInv, NEW l \in Login, NEW k \in LoginState, login' = [login EXCEPT ![l] = k],
         UNCHANGED asked, nextId' \in Nat, nextId <= nextId', LoginSane(k, asked[l], nextId')
  PROVE  /\ login' \in [Login -> LoginState] /\ login'[l] = k /\ asked' \in [Login -> AskedState]
         /\ \A m \in Login \ {l} : login'[m] = login[m]
         /\ \A m \in Login : LoginSane(login'[m], asked'[m], nextId')
<1>1. /\ login' \in [Login -> LoginState] /\ login'[l] = k /\ asked' \in [Login -> AskedState]
      /\ \A m \in Login \ {l} : login'[m] = login[m]
  BY DEF LoginInv, LoginTyped
<1>2. ASSUME NEW m \in Login \ {l} PROVE LoginSane(login'[m], asked'[m], nextId')
  <2>1. login[m] \in LoginState /\ LoginSane(login[m], asked[m], nextId) /\ nextId \in Nat
    BY DEF LoginInv, LoginTyped, TablesTyped, DeviceSane
  <2> QED BY <1>1, <2>1, LoginSaneGrows
<1> QED BY <1>1, <1>2

\* cleanup_duplicate_storages: the rows that go have no context, and there are
\* none unless a server was taken over.
LEMMA CleanKeeps ==
  ASSUME LoginInv, NEW l \in Login, CleanForLogin(l)
  PROVE  LoginInv'
<1> USE DEF world, counts
<1>1. PICK others : others = {row.id : row \in RowsAt(login[l].url)} \ {login[l].storage}
  OBVIOUS
<1>2. /\ UNCHANGED <<world, asked, tokenSync, accepted, raced, takenOver, nextId, counts>>
      /\ storageRows' = {row \in storageRows : row.id \notin others}
      /\ waiting' = waiting \ others /\ discarded' = discarded \cup (waiting \cap others)
      /\ config' = WithoutContexts(config, others)
  BY <1>1 DEF CleanForLogin
<1>3. /\ login[l] \in LoginState /\ login[l].at = "clean" /\ LoginSane(login[l], asked[l], nextId)
      /\ nextId \in Nat
  BY DEF CleanForLogin, LoginInv, LoginTyped, TablesTyped, DeviceSane
<1>4. PICK k : k = [login[l] EXCEPT !.at = "row"]
  OBVIOUS
<1>5. /\ k \in LoginState /\ k.at = "row" /\ k.url = login[l].url /\ k.result = login[l].result
      /\ k.storage = login[l].storage /\ login' = [login EXCEPT ![l] = k]
  BY <1>3, <1>4 DEF LoginState, LoginSteps, CleanForLogin
<1>6. LoginSane(k, asked[l], nextId)
  BY <1>3, <1>5 DEF LoginSane
<1>7. /\ login' \in [Login -> LoginState] /\ login'[l] = k /\ asked' \in [Login -> AskedState]
      /\ \A m \in Login \ {l} : login'[m] = login[m]
      /\ \A m \in Login : LoginSane(login'[m], asked'[m], nextId')
  <2>1. UNCHANGED asked /\ nextId' \in Nat /\ nextId <= nextId' /\ LoginSane(k, asked[l], nextId')
    BY <1>2, <1>3, <1>6
  <2> QED BY <1>5, <2>1, LoginAt
<1>8. /\ 0 \notin others
      /\ \A i \in others : i # login[l].storage /\ \E row \in storageRows : row.id = i /\ row.url = login[l].url
  BY <1>1, <1>3 DEF RowsAt, LoginInv, LoginTyped, TablesTyped
<1>9. /\ config' \in ConfigState /\ Sane(config, nextId)'
      /\ Readable(config') <=> Readable(config)
      /\ ~Readable(config') => config'.contexts = NoConfig.contexts
      /\ \A o \in Origin : config'.contexts[o] = IF config.contexts[o].storage \in others
                                                 THEN NoContext ELSE config.contexts[o]
      /\ (\A o \in Origin : config.contexts[o].storage \notin others) => config' = config
  <2>1. 0 \notin others /\ config' = WithoutContexts(config, others) /\ nextId' = nextId
    BY <1>2, <1>8
  <2> QED BY <2>1, WithoutSome, Zenon
<1>10. TablesTyped'
  <2>1. waiting' \subseteq {row.id : row \in storageRows'}
    <3>1. ASSUME NEW i \in waiting' PROVE \E row \in storageRows' : row.id = i
      <4>1. PICK row \in storageRows : row.id = i /\ i \notin others
        BY <1>2 DEF LoginInv, LoginTyped, TablesTyped
      <4> QED BY <1>2, <4>1
    <3> QED BY <3>1
  <2>2. storageRows' \subseteq storageRows
    BY <1>2
  <2> QED BY <1>2, <2>1, <2>2 DEF LoginInv, LoginTyped, TablesTyped
<1>11. LoginTyped'
  BY <1>2, <1>7, <1>9, <1>10 DEF LoginInv, LoginTyped
<1>12. DeviceSane'
  BY <1>2, <1>7, <1>9 DEF LoginInv, DeviceSane
<1>13. FingerprintInv'
  <2> SUFFICES ASSUME ~raced' PROVE FingerprintsAccepted' /\ \A m \in Login : LoginAccepted(login[m])'
    BY DEF FingerprintInv
  <2>1. FingerprintsAccepted /\ \A m \in Login : LoginAccepted(login[m])
    BY <1>2 DEF LoginInv, FingerprintInv
  <2>2. FingerprintsAccepted'
    <3>1. NoContext.fp = 0
      BY DEF NoContext
    <3> QED BY <1>2, <1>9, <2>1, <3>1 DEF FingerprintsAccepted
  <2>3. ASSUME NEW m \in Login PROVE LoginAccepted(login[m])'
    <3>1. LoginAccepted(login[l]) /\ LoginAccepted(login[m])
      BY <2>1
    <3> QED BY <1>2, <1>3, <1>5, <1>7, <3>1 DEF LoginAccepted
  <2> QED BY <2>2, <2>3
<1>14. StorageInv'
  <2> SUFFICES ASSUME ~raced', ~cut' PROVE StoragesSound'
    BY DEF StorageInv
  <2>1. StoragesSound
    BY <1>2 DEF LoginInv, StorageInv
  <2>2. Placing(login[l]) /\ \A m \in Login : Placing(login[m]) => m = l
    BY <1>3, <2>1 DEF StoragesSound, OnePlaces, Placing
  <2>3. \A i : Placed(i) <=> i = login[l].storage
    BY <2>2 DEF Placed
  <2>4. /\ ContextAt(login[l].url.origin).storage = login[l].storage
        /\ ContextAt(login[l].url.origin).addr = login[l].url
    BY <2>1, <2>2 DEF StoragesSound, PlacingIsSaved
  <2>5. ASSUME NEW o \in Origin, ContextAt(o).storage \in others PROVE FALSE
    <3>1. PICK row \in storageRows : row.id = ContextAt(o).storage /\ row.url = login[l].url
                                     /\ row.id # login[l].storage
      BY <1>8, <2>5
    <3>2. ContextAt(o).addr = login[l].url
      BY <2>1, <2>3, <3>1 DEF StoragesSound, RowsFollow
    <3>3. ContextAt(o).addr.origin = o
      BY <1>8, <2>5 DEF LoginInv, DeviceSane, Sane, SaneContext, ContextAt
    <3> QED BY <2>4, <3>1, <3>2, <3>3
  <2>6. config' = config
    BY <1>9, <2>5 DEF ContextAt
  <2>7. \A m \in Login : /\ Placing(login'[m]) <=> Placing(login[m])
                         /\ login'[m].url = login[m].url /\ login'[m].storage = login[m].storage
    BY <1>3, <1>5, <1>7 DEF Placing
  <2>8. \A i : Placed(i)' <=> Placed(i)
    BY <2>7 DEF Placed
  <2>9. StoragesDiffer' /\ RowsFollow'
    BY <1>2, <2>1, <2>6, <2>8 DEF StoragesSound, StoragesDiffer, RowsFollow, ContextAt
  <2>10. StoragesExist'
    <3>1. ASSUME NEW o \in Origin, ContextAt(o).storage # 0, ~Placed(ContextAt(o).storage)
          PROVE  ContextAt(o).storage \in {row.id : row \in storageRows'}
      <4>1. PICK row \in storageRows : row.id = ContextAt(o).storage
        BY <2>1, <3>1 DEF StoragesSound, StoragesExist
      <4>2. row \in storageRows'
        BY <1>2, <2>5, <4>1
      <4> QED BY <4>1, <4>2
    <3> QED BY <2>6, <2>8, <3>1 DEF StoragesExist, ContextAt
  <2>11. PlacingIsSaved' /\ OnePlaces'
    BY <2>1, <2>6, <2>7 DEF StoragesSound, PlacingIsSaved, OnePlaces, ContextAt
  <2>12. BareIsFinalized'
    <3>1. \A m \in Login : Finalizing(login[m], asked[m]) =>
                             Finalizing(login'[m], asked'[m]) /\ login'[m].url = login[m].url
      BY <1>2, <1>3, <1>7 DEF Finalizing
    <3> QED BY <2>1, <2>6, <3>1 DEF StoragesSound, BareIsFinalized, ContextAt
  <2>13. ASSUME NothingOrphaned PROVE NothingOrphaned'
    <3>1. others = {}
      BY <1>8, <2>5, <2>13 DEF NothingOrphaned
    <3>2. storageRows' = storageRows /\ discarded' = discarded
      BY <1>2, <3>1
    <3> QED BY <2>6, <2>13, <3>2 DEF NothingOrphaned, ContextAt
  <2> QED BY <1>2, <2>1, <2>6, <2>9, <2>10, <2>11, <2>12, <2>13 DEF StoragesSound
<1> QED BY <1>11, <1>12, <1>13, <1>14 DEF LoginInv

\* The row of the storage is written, and the login has nothing left to place.
LEMMA RowKeeps ==
  ASSUME LoginInv, NEW l \in Login, RowForLogin(l)
  PROVE  LoginInv'
<1> USE DEF world, file, counts
<1>1. UNCHANGED <<world, file, waiting, discarded, asked, tokenSync, nextId, counts>>
  BY DEF RowForLogin
<1>2. /\ login[l] \in LoginState /\ login[l].at = "row" /\ LoginSane(login[l], asked[l], nextId)
      /\ nextId \in Nat
  BY DEF RowForLogin, LoginInv, LoginTyped, TablesTyped, DeviceSane
<1>3. PICK k : k = [login[l] EXCEPT !.at = "finish"]
  OBVIOUS
<1>4. k \in LoginState /\ k.at = "finish" /\ k.url = login[l].url /\ login' = [login EXCEPT ![l] = k]
  BY <1>2, <1>3 DEF LoginState, LoginSteps, RowForLogin
<1>5. LoginSane(k, asked[l], nextId)
  BY <1>2, <1>4 DEF LoginSane
<1>6. /\ login' \in [Login -> LoginState] /\ login'[l] = k /\ asked' \in [Login -> AskedState]
      /\ \A m \in Login \ {l} : login'[m] = login[m]
      /\ \A m \in Login : LoginSane(login'[m], asked'[m], nextId')
  <2>1. UNCHANGED asked /\ nextId' \in Nat /\ nextId <= nextId' /\ LoginSane(k, asked[l], nextId')
    BY <1>1, <1>2, <1>5
  <2> QED BY <1>4, <2>1, LoginAt
<1>7. PICK new : new = [id |-> login[l].storage, url |-> login[l].url, fp |-> login[l].result.fp]
  OBVIOUS
<1>8. /\ new \in [id : 1 .. nextId, url : Address, fp : Nat]
      /\ new.id = login[l].storage /\ new.url = login[l].url /\ new.fp = login[l].result.fp
  BY <1>2, <1>7 DEF LoginSane, LoginState, ResultState
<1>9. storageRows' = {row \in storageRows : row.id # new.id} \cup {new}
  BY <1>7, <1>8 DEF RowForLogin, PutRow
<1>10. TablesTyped'
  <2>1. waiting' \subseteq {row.id : row \in storageRows'}
    <3>1. ASSUME NEW i \in waiting' PROVE \E row \in storageRows' : row.id = i
      <4>1. PICK row \in storageRows : row.id = i
        BY <1>1 DEF LoginInv, LoginTyped, TablesTyped
      <4>2. row \in storageRows' \/ i = new.id
        BY <1>9, <4>1
      <4>3. new \in storageRows'
        BY <1>9
      <4> QED BY <4>1, <4>2, <4>3
    <3> QED BY <3>1
  <2>2. storageRows' \subseteq [id : 1 .. nextId, url : Address, fp : Nat]
    BY <1>8, <1>9 DEF LoginInv, LoginTyped, TablesTyped
  <2>3. \A a, b \in storageRows' : a.id = b.id => a = b
    BY <1>9 DEF LoginInv, LoginTyped, TablesTyped
  <2> QED BY <1>1, <1>2, <2>1, <2>2, <2>3 DEF TablesTyped
<1>11. LoginTyped'
  BY <1>1, <1>6, <1>10 DEF LoginInv, LoginTyped
<1>12. DeviceSane'
  BY <1>1, <1>6 DEF LoginInv, DeviceSane
<1>13. FingerprintInv'
  <2> SUFFICES ASSUME ~raced' PROVE FingerprintsAccepted' /\ \A m \in Login : LoginAccepted(login[m])'
    BY DEF FingerprintInv
  <2>1. FingerprintsAccepted /\ \A m \in Login : LoginAccepted(login[m])
    BY <1>1 DEF LoginInv, FingerprintInv
  <2>2. new.fp \in accepted
    BY <1>2, <1>8, <2>1 DEF LoginAccepted
  <2>3. FingerprintsAccepted'
    BY <1>1, <1>9, <2>1, <2>2 DEF FingerprintsAccepted
  <2>4. ASSUME NEW m \in Login PROVE LoginAccepted(login[m])'
    BY <1>1, <1>4, <1>6, <2>1 DEF LoginAccepted
  <2> QED BY <2>3, <2>4
<1>14. StorageInv'
  <2> SUFFICES ASSUME ~raced', ~cut' PROVE StoragesSound'
    BY DEF StorageInv
  <2>1. StoragesSound /\ config' = config
    BY <1>1 DEF LoginInv, StorageInv
  <2>2. Placing(login[l]) /\ \A m \in Login : Placing(login[m]) => m = l
    BY <1>2, <2>1 DEF StoragesSound, OnePlaces, Placing
  <2>3. \A i : Placed(i) <=> i = new.id
    BY <1>8, <2>2 DEF Placed
  <2>4. ContextAt(new.url.origin).storage = new.id /\ ContextAt(new.url.origin).addr = new.url
    BY <1>8, <2>1, <2>2 DEF StoragesSound, PlacingIsSaved
  <2>5. \A m \in Login : ~Placing(login'[m])
    BY <1>4, <1>6, <2>2 DEF Placing
  <2>6. new.url.origin \in Origin /\ new.id # 0
    BY <1>8 DEF Address
  <2>7. StoragesDiffer'
    BY <2>1 DEF StoragesSound, StoragesDiffer, ContextAt
  <2>8. RowsFollow'
    <3>1. ASSUME NEW row \in storageRows', NEW o \in Origin, ContextAt(o).storage = row.id
          PROVE  row.url = ContextAt(o).addr
      <4>1. CASE row = new
        <5>1. o = new.url.origin
          BY <2>1, <2>4, <2>6, <3>1, <4>1 DEF StoragesSound, StoragesDiffer
        <5> QED BY <2>4, <4>1, <5>1
      <4>2. CASE row # new
        <5>1. row \in storageRows /\ row.id # new.id
          BY <1>9, <4>2
        <5> QED BY <2>1, <2>3, <3>1, <5>1 DEF StoragesSound, RowsFollow
      <4> QED BY <4>1, <4>2
    <3> QED BY <2>1, <3>1 DEF RowsFollow, ContextAt
  <2>9. StoragesExist'
    <3>1. ASSUME NEW o \in Origin, ContextAt(o).storage # 0
          PROVE  ContextAt(o).storage \in {row.id : row \in storageRows'}
      <4>1. CASE ContextAt(o).storage = new.id
        BY <1>9, <4>1
      <4>2. CASE ContextAt(o).storage # new.id
        <5>1. PICK row \in storageRows : row.id = ContextAt(o).storage
          BY <2>1, <2>3, <3>1, <4>2 DEF StoragesSound, StoragesExist
        <5>2. row \in storageRows'
          BY <1>9, <4>2, <5>1
        <5> QED BY <5>1, <5>2
      <4> QED BY <4>1, <4>2
    <3> QED BY <2>1, <3>1 DEF StoragesExist, ContextAt
  <2>10. PlacingIsSaved' /\ OnePlaces'
    BY <2>5 DEF PlacingIsSaved, OnePlaces
  <2>11. BareIsFinalized'
    <3>1. \A m \in Login : Finalizing(login[m], asked[m]) =>
                             Finalizing(login'[m], asked'[m]) /\ login'[m].url = login[m].url
      BY <1>1, <1>2, <1>6 DEF Finalizing
    <3> QED BY <2>1, <3>1 DEF StoragesSound, BareIsFinalized, ContextAt
  <2>12. ASSUME NothingOrphaned PROVE NothingOrphaned'
    <3>1. ASSUME NEW row \in storageRows' PROVE \E o \in Origin : ContextAt(o).storage = row.id
      BY <1>9, <2>4, <2>6, <2>12 DEF NothingOrphaned
    <3> QED BY <1>1, <2>1, <2>12, <3>1 DEF NothingOrphaned, ContextAt
  <2> QED BY <1>1, <2>1, <2>7, <2>8, <2>9, <2>10, <2>11, <2>12 DEF StoragesSound
<1> QED BY <1>11, <1>12, <1>13, <1>14 DEF LoginInv

-----------------------------------------------------------------------------
\* trust_fingerprint writes a fingerprint and a server into the context at o.
Trusted(c, o, fp, s) == [c EXCEPT !.contexts[o].fp = fp, !.contexts[o].server = s]

LEMMA TrustedConfig ==
  ASSUME NEW c \in ConfigState, NEW o \in Origin, NEW fp \in Nat, NEW s \in LoginServer, NEW d,
         d = Trusted(c, o, fp, s)
  PROVE  /\ d \in ConfigState /\ d.current = c.current
         /\ \A q \in Origin \ {o} : d.contexts[q] = c.contexts[q]
         /\ d.contexts[o].addr = c.contexts[o].addr /\ d.contexts[o].server = s
         /\ d.contexts[o].fp = fp /\ d.contexts[o].storage = c.contexts[o].storage
         /\ d.contexts[o].token = c.contexts[o].token
<1>1. PICK x : x = [c.contexts[o] EXCEPT !.fp = fp, !.server = s]
  OBVIOUS
<1>2. /\ x \in Context /\ x.addr = c.contexts[o].addr /\ x.server = s /\ x.fp = fp
      /\ x.storage = c.contexts[o].storage /\ x.token = c.contexts[o].token
  BY <1>1 DEF ConfigState, Context
<1>3. PICK cs : cs = [c.contexts EXCEPT ![o] = x]
  OBVIOUS
<1>4. cs \in [Origin -> Context] /\ cs[o] = x /\ \A q \in Origin \ {o} : cs[q] = c.contexts[q]
  BY <1>2, <1>3 DEF ConfigState
<1>5. d = [c EXCEPT !.contexts = cs]
  BY <1>1, <1>3 DEF ConfigState, Trusted
<1>6. d \in ConfigState /\ d.contexts = cs /\ d.current = c.current
  BY <1>4, <1>5 DEF ConfigState
<1> QED BY <1>2, <1>4, <1>6

\* ensure_context: the context at the address is there, with nothing but the
\* address if it is new.
LEMMA Ensured ==
  ASSUME NEW c \in ConfigState, NEW n \in Nat, Sane(c, n), NEW url \in Address, NEW e,
         e = EnsureContext(c, url)
  PROVE  /\ e \in ConfigState /\ e.current = c.current
         /\ \A q \in Origin \ {url.origin} : e.contexts[q] = c.contexts[q]
         /\ \/ /\ e.contexts[url.origin] = c.contexts[url.origin]
               /\ c.contexts[url.origin].server # NoServer
            \/ /\ c.contexts[url.origin] = NoContext
               /\ e.contexts[url.origin].addr = url
               /\ e.contexts[url.origin].storage = 0 /\ ~e.contexts[url.origin].token
<1>1. url.origin \in Origin /\ ContextName(url) = url.origin
  BY DEF Address, ContextName
<1>2. CASE Known(c, url.origin)
  BY <1>1, <1>2 DEF EnsureContext, Known, Sane, SaneContext
<1>3. CASE ~Known(c, url.origin)
  <2>1. PICK x : x = [NoContext EXCEPT !.addr = url]
    OBVIOUS
  <2>2. x \in Context /\ x.addr = url /\ x.storage = 0 /\ ~x.token
    BY <2>1 DEF NoContext, Context
  <2>3. PICK cs : cs = [c.contexts EXCEPT ![url.origin] = x]
    OBVIOUS
  <2>4. cs \in [Origin -> Context] /\ cs[url.origin] = x
        /\ \A q \in Origin \ {url.origin} : cs[q] = c.contexts[q]
    BY <1>1, <2>2, <2>3 DEF ConfigState
  <2>5. e = [c EXCEPT !.contexts = cs]
    BY <1>1, <1>3, <2>1, <2>3 DEF EnsureContext, ConfigState
  <2>6. e \in ConfigState /\ e.contexts = cs /\ e.current = c.current
    BY <2>4, <2>5 DEF ConfigState
  <2> QED BY <1>3, <2>2, <2>4, <2>6 DEF Known
<1> QED BY <1>2, <1>3

\* The user trusts a fingerprint.  When no login changes the device every
\* context has its storage, and the one of the address waits for the login.
LEMMA TrustKeeps ==
  ASSUME LoginInv, NEW l \in Login, TrustFingerprint(l)
  PROVE  LoginInv'
<1> USE DEF world, tables, counts
<1>1. PICK url : url = login[l].url
  OBVIOUS
<1>2. PICK e : e = EnsureContext(LoadConfig, url)
  OBVIOUS
<1>3. PICK ask : ask = asked[l]
  OBVIOUS
<1>4. PICK d : d = [e EXCEPT !.contexts[url.origin].fp = ask.fp,
                             !.contexts[url.origin].server = ask.result.server]
  OBVIOUS
<1>5. /\ login[l] \in LoginState /\ ask \in AskedState /\ login[l].at = "idle" /\ ask.fp # 0
      /\ LoginSane(login[l], ask, nextId) /\ nextId \in Nat
  BY <1>3 DEF TrustFingerprint, LoginInv, LoginTyped, TablesTyped, DeviceSane
<1>6. /\ url \in Address /\ url.origin \in Origin /\ ask.result.server \in LoginServer
      /\ ask.result.fp = ask.fp /\ ask.fp \in Nat /\ ask.result \in ResultState
  BY <1>1, <1>5 DEF LoginSane, Address, AskedState
<1>7. /\ SaveConfig(d, LoadConfig, Applying) /\ accepted' = accepted \cup {ask.fp}
      /\ login' = [login EXCEPT ![l] = [@ EXCEPT !.at = "load", !.result = ask.result]]
      /\ UNCHANGED <<world, tables, asked, tokenSync, nextId, counts>>
  BY <1>1, <1>2, <1>3, <1>4 DEF TrustFingerprint, ContextName
<1>8. /\ config' = d /\ raced' \in BOOLEAN /\ takenOver' \in BOOLEAN
      /\ takenOver => takenOver'
      /\ raced => raced'
      /\ ~raced' => Applying = {}
      /\ ~takenOver' => \A o \in Origin :
           \/ d.contexts[o].server = LoadConfig.contexts[o].server
           \/ d.contexts[o].server = NoServer
           \/ LoadConfig.contexts[o].server = NoServer
  <2>1. LoginTyped
    BY DEF LoginInv
  <2> QED BY <1>7, <2>1, SavedFlags
<1>9. /\ LoadConfig \in ConfigState /\ Readable(LoadConfig) /\ LoadConfig.contexts = config.contexts
      /\ Sane(LoadConfig, nextId)
  BY Loaded DEF LoginInv
<1>10. /\ e \in ConfigState /\ e.current = LoadConfig.current
       /\ \A q \in Origin \ {url.origin} : e.contexts[q] = config.contexts[q]
       /\ \/ /\ e.contexts[url.origin] = config.contexts[url.origin]
             /\ config.contexts[url.origin].server # NoServer
          \/ /\ config.contexts[url.origin] = NoContext
             /\ e.contexts[url.origin].addr = url
             /\ e.contexts[url.origin].storage = 0 /\ ~e.contexts[url.origin].token
  <2>1. /\ e \in ConfigState /\ e.current = LoadConfig.current
        /\ \A q \in Origin \ {url.origin} : e.contexts[q] = LoadConfig.contexts[q]
        /\ \/ /\ e.contexts[url.origin] = LoadConfig.contexts[url.origin]
              /\ LoadConfig.contexts[url.origin].server # NoServer
           \/ /\ LoadConfig.contexts[url.origin] = NoContext
              /\ e.contexts[url.origin].addr = url
              /\ e.contexts[url.origin].storage = 0 /\ ~e.contexts[url.origin].token
    BY <1>2, <1>5, <1>6, <1>9, Ensured
  <2> QED BY <1>9, <2>1
<1>11. /\ d \in ConfigState /\ d.current = e.current
       /\ \A q \in Origin \ {url.origin} : d.contexts[q] = config.contexts[q]
       /\ d.contexts[url.origin].addr = e.contexts[url.origin].addr
       /\ d.contexts[url.origin].server = ask.result.server
       /\ d.contexts[url.origin].fp = ask.fp
       /\ d.contexts[url.origin].storage = e.contexts[url.origin].storage
       /\ d.contexts[url.origin].token = e.contexts[url.origin].token
  <2>1. PICK o \in Origin : o = url.origin
    BY <1>6
  <2>2. PICK fp \in Nat, s \in LoginServer : fp = ask.fp /\ s = ask.result.server
    BY <1>6
  <2>3. d = Trusted(e, o, fp, s)
    BY <1>4, <2>1, <2>2 DEF Trusted
  <2>4. /\ d \in ConfigState /\ d.current = e.current
        /\ \A q \in Origin \ {o} : d.contexts[q] = e.contexts[q]
        /\ d.contexts[o].addr = e.contexts[o].addr /\ d.contexts[o].server = s
        /\ d.contexts[o].fp = fp /\ d.contexts[o].storage = e.contexts[o].storage
        /\ d.contexts[o].token = e.contexts[o].token
    <3>1. e \in ConfigState
      BY <1>10
    <3> QED BY <2>3, <3>1, TrustedConfig
  <2> QED BY <1>10, <2>1, <2>2, <2>4
<1>12. PICK k : k = [login[l] EXCEPT !.at = "load", !.result = ask.result]
  OBVIOUS
<1>13. /\ k \in LoginState /\ k.at = "load" /\ k.url = url /\ k.result = ask.result
       /\ login' = [login EXCEPT ![l] = k]
  <2>1. k \in LoginState /\ k.at = "load" /\ k.url = url /\ k.result = ask.result
    BY <1>1, <1>5, <1>6, <1>12 DEF LoginState, LoginSteps
  <2>2. login' = [login EXCEPT ![l] = k]
    BY <1>7, <1>12
  <2> QED BY <2>1, <2>2
<1>14. LoginSane(k, asked[l], nextId)
  BY <1>3, <1>5, <1>6, <1>13 DEF LoginSane
<1>15. /\ login' \in [Login -> LoginState] /\ login'[l] = k /\ asked' \in [Login -> AskedState]
       /\ \A m \in Login \ {l} : login'[m] = login[m]
       /\ \A m \in Login : LoginSane(login'[m], asked'[m], nextId')
  <2>1. UNCHANGED asked /\ nextId' \in Nat /\ nextId <= nextId' /\ LoginSane(k, asked[l], nextId')
    BY <1>5, <1>7, <1>14
  <2> QED BY <1>13, <2>1, LoginAt
<1>16. LoginTyped'
  <2>1. accepted' \in SUBSET Nat
    BY <1>6, <1>7 DEF LoginInv, LoginTyped
  <2> QED BY <1>7, <1>8, <1>11, <1>15, <2>1 DEF LoginInv, LoginTyped, TablesTyped
<1>17. DeviceSane'
  <2>1. ASSUME NEW o \in Origin PROVE SaneContext(d.contexts[o], o, nextId)
    <3>1. SaneContext(config.contexts[o], o, nextId)
      BY DEF LoginInv, DeviceSane, Sane
    <3>2. CASE o # url.origin
      BY <1>11, <3>1, <3>2
    <3>3. CASE o = url.origin
      BY <1>5, <1>6, <1>10, <1>11, <3>1, <3>3, DesktopLoginAssumption DEF SaneContext
    <3> QED BY <3>2, <3>3
  <2>2. Sane(config, nextId)'
    BY <1>7, <1>8, <2>1 DEF Sane
  <2>3. Readable(config')
    BY <1>8, <1>9, <1>10, <1>11 DEF Readable
  <2> QED BY <1>7, <1>15, <2>2, <2>3 DEF LoginInv, DeviceSane
<1>18. FingerprintInv'
  <2> SUFFICES ASSUME ~raced' PROVE FingerprintsAccepted' /\ \A m \in Login : LoginAccepted(login[m])'
    BY DEF FingerprintInv
  <2>1. FingerprintsAccepted /\ \A m \in Login : LoginAccepted(login[m])
    BY <1>8 DEF LoginInv, FingerprintInv
  <2>2. FingerprintsAccepted'
    BY <1>7, <1>8, <1>11, <2>1 DEF FingerprintsAccepted
  <2>3. ASSUME NEW m \in Login PROVE LoginAccepted(login[m])'
    BY <1>6, <1>7, <1>13, <1>15, <2>1 DEF LoginAccepted
  <2> QED BY <2>2, <2>3
<1>19. StorageInv'
  <2> SUFFICES ASSUME ~raced', ~cut' PROVE StoragesSound'
    BY DEF StorageInv
  <2>1. StoragesSound
    BY <1>7, <1>8 DEF LoginInv, StorageInv
  <2>2. \A m \in Login : /\ ~Placing(login[m]) /\ ~Finalizing(login[m], asked[m])
                         /\ ~Placing(login'[m])
    BY <1>8, <1>13, <1>15 DEF Applying, Placing, Finalizing
  <2>3. \A i : ~Placed(i) /\ ~Placed(i)'
    BY <2>2 DEF Placed
  <2>4. NoContext.storage = 0 /\ NoContext.server = NoServer
    BY DEF NoContext
  <2>5. \A o \in Origin :
          /\ ContextAt(o)'.storage = ContextAt(o).storage
          /\ ContextAt(o).storage # 0 => ContextAt(o)'.addr = ContextAt(o).addr
          /\ o # url.origin => ContextAt(o)' = ContextAt(o)
    BY <1>8, <1>10, <1>11, <2>4 DEF ContextAt
  <2>6. StoragesDiffer' /\ StoragesExist'
    BY <1>7, <2>1, <2>3, <2>5 DEF StoragesSound, StoragesDiffer, StoragesExist
  <2>7. RowsFollow'
    <3>1. \A row \in storageRows : row.id # 0
      BY DEF LoginInv, LoginTyped, TablesTyped
    <3> QED BY <1>7, <2>1, <2>3, <2>5, <3>1 DEF StoragesSound, RowsFollow
  <2>8. PlacingIsSaved' /\ OnePlaces'
    BY <2>2 DEF PlacingIsSaved, OnePlaces
  <2>9. BareIsFinalized'
    <3>1. \A o \in Origin : ContextAt(o).server # NoServer => ContextAt(o).storage # 0
      BY <2>1, <2>2 DEF StoragesSound, BareIsFinalized
    <3>2. Finalizing(login'[l], asked'[l]) /\ login'[l].url.origin = url.origin
      BY <1>13, <1>15 DEF Finalizing
    <3> QED BY <2>5, <3>1, <3>2 DEF BareIsFinalized
  <2>10. ASSUME NothingOrphaned, ~takenOver' PROVE NothingOrphaned'
    <3>1. ASSUME NEW o \in Origin
          PROVE  ContextAt(o)'.server = ContextAt(o).server \/ ContextAt(o)'.storage = 0
      <4>1. CASE o # url.origin
        BY <2>5, <4>1
      <4>2. CASE o = url.origin
        <5>1. d.contexts[o].server # NoServer
          BY <1>6, <1>11, <4>2, DesktopLoginAssumption
        <5>2. d.contexts[o].server = config.contexts[o].server \/ config.contexts[o].server = NoServer
          BY <1>8, <1>9, <2>10, <5>1
        <5>3. ASSUME config.contexts[o].server = NoServer PROVE ContextAt(o).storage = 0
          BY <5>3, <2>4 DEF LoginInv, DeviceSane, Sane, SaneContext, ContextAt
        <5> QED BY <1>8, <2>5, <5>2, <5>3 DEF ContextAt
      <4> QED BY <4>1, <4>2
    <3> QED BY <1>7, <2>5, <2>10, <3>1 DEF NothingOrphaned
  <2>11. Readable(config')
    BY <1>8, <1>9, <1>10, <1>11 DEF Readable
  <2> QED BY <1>8, <2>1, <2>6, <2>7, <2>8, <2>9, <2>10, <2>11 DEF StoragesSound
<1> QED BY <1>16, <1>17, <1>18, <1>19 DEF LoginInv

-----------------------------------------------------------------------------
\* migrate_context_for_server_id: nothing moves, or a context of the server comes
\* from another name to one that is free or of the server.
LEMMA MigratedFrom ==
  ASSUME NEW r \in ConfigState, NEW n \in Nat, Sane(r, n), NEW name \in Origin,
         NEW s \in LoginServer, NEW c \in Migrations(r, name, s)
  PROVE  /\ c \in ConfigState
         /\ \E from \in Origin :
              /\ c.contexts[name] = r.contexts[from]
              /\ \A q \in Origin \ {name} :
                   c.contexts[q] = IF q = from THEN NoContext ELSE r.contexts[q]
              /\ from = name => \/ \A q \in Origin \ {name} : r.contexts[q].server # s
                                \/ r.contexts[name].server \notin {NoServer, s}
              /\ from # name => r.contexts[from].server = s
<1> DEFINE others == ContextsOf(r, s) \ {name}
<1>1. others = {q \in Origin : r.contexts[q].server = s} \ {name}
  BY ContextsByServer
<1>2. CASE c = r /\ (others = {} \/ r.contexts[name].server \notin {NoServer, s})
  BY <1>1, <1>2
<1>3. CASE ~(others = {} \/ r.contexts[name].server \notin {NoServer, s})
  <2>1. PICK old \in others :
          c = [r EXCEPT !.contexts = [@ EXCEPT ![name] = r.contexts[old], ![old] = NoContext]]
    BY <1>3 DEF Migrations
  <2>2. old \in Origin /\ old # name /\ r.contexts[old].server = s
    BY <1>1
  <2>3. PICK cs : cs = [r.contexts EXCEPT ![name] = r.contexts[old], ![old] = NoContext]
    OBVIOUS
  <2>4. /\ cs \in [Origin -> Context] /\ cs[name] = r.contexts[old]
        /\ \A q \in Origin \ {name} : cs[q] = IF q = old THEN NoContext ELSE r.contexts[q]
    BY <2>2, <2>3, NothingYet DEF ConfigState
  <2>5. c = [r EXCEPT !.contexts = cs]
    BY <2>1, <2>3
  <2>6. c \in ConfigState /\ c.contexts = cs
    BY <2>4, <2>5 DEF ConfigState
  <2> QED BY <2>2, <2>4, <2>6
<1> QED BY <1>2, <1>3 DEF Migrations

\* What the save of the login l writes when it has read r: the context at the
\* address, with the storage of the context it came from, of a row at the
\* address or a new one.
SavedAs(l, r, from, storage) ==
  LET k == login[l]
      name == k.url.origin
  IN  /\ storage \in 1 .. nextId'
      /\ \/ r.contexts[from].storage # 0 /\ storage = r.contexts[from].storage
         \/ r.contexts[from].storage = 0 /\ storage = nextId + 1
         \/ r.contexts[from].storage = 0 /\ \E row \in storageRows : row.id = storage /\ row.url = k.url
      /\ config' \in ConfigState /\ Readable(config')
      /\ config'.contexts[name] =
           [addr |-> k.url, server |-> k.result.server, fp |-> k.result.fp, storage |-> storage,
            token |-> TRUE]
      /\ \A q \in Origin \ {name} :
           config'.contexts[q] = IF q = from THEN NoContext ELSE r.contexts[q]
      /\ from = name => \/ \A q \in Origin \ {name} : r.contexts[q].server # k.result.server
                        \/ r.contexts[name].server \notin {NoServer, k.result.server}
      /\ from # name => r.contexts[from].server = k.result.server

LEMMA SaveShape ==
  ASSUME LoginInv, NEW l \in Login, SaveForLogin(l)
  PROVE  \E d : \E from \in Origin, storage \in Nat \ {0} :
           /\ SaveConfig(d, login[l].read, Applying \ {l})
           /\ SavedAs(l, login[l].read, from, storage)
           /\ login' = [login EXCEPT ![l] = [@ EXCEPT !.at = "clean", !.storage = storage]]
           /\ nextId' \in Nat /\ nextId <= nextId'
<1>1. PICK k : k = login[l]
  OBVIOUS
<1>2. PICK r : r = k.read
  OBVIOUS
<1>3. /\ k \in LoginState /\ k.at = "save" /\ LoginSane(k, asked[l], nextId) /\ nextId \in Nat
      /\ r \in ConfigState /\ Sane(r, nextId) /\ k.url \in Address /\ k.result.server \in LoginServer
      /\ k.result.fp \in Nat
  <2>1. k \in LoginState /\ k.at = "save" /\ LoginSane(k, asked[l], nextId) /\ nextId \in Nat
    BY <1>1 DEF SaveForLogin, LoginInv, LoginTyped, TablesTyped, DeviceSane
  <2> QED BY <1>2, <2>1 DEF LoginSane, LoginState, ResultState
<1>4. PICK name \in Origin : name = k.url.origin
  BY <1>3 DEF Address
<1>5. PICK found : found = IF RowsAt(k.url) = {} THEN {nextId + 1} ELSE {row.id : row \in RowsAt(k.url)}
  OBVIOUS
<1>6. PICK c \in Migrations(r, name, k.result.server) :
        \E storage \in IF c.contexts[name].storage # 0 THEN {c.contexts[name].storage} ELSE found :
           /\ SaveConfig([contexts |-> [c.contexts EXCEPT ![name] =
                            [addr |-> k.url, server |-> k.result.server,
                             fp |-> k.result.fp, storage |-> storage, token |-> TRUE]],
                          current |-> name], r, Applying \ {l})
           /\ nextId' = IF storage > nextId THEN storage ELSE nextId
           /\ login' = [login EXCEPT ![l] = [@ EXCEPT !.at = "clean", !.storage = storage]]
  BY <1>1, <1>2, <1>4, <1>5 DEF SaveForLogin, ContextName
<1>7. PICK storage \in IF c.contexts[name].storage # 0 THEN {c.contexts[name].storage} ELSE found :
           /\ SaveConfig([contexts |-> [c.contexts EXCEPT ![name] =
                            [addr |-> k.url, server |-> k.result.server,
                             fp |-> k.result.fp, storage |-> storage, token |-> TRUE]],
                          current |-> name], r, Applying \ {l})
           /\ nextId' = IF storage > nextId THEN storage ELSE nextId
           /\ login' = [login EXCEPT ![l] = [@ EXCEPT !.at = "clean", !.storage = storage]]
  BY <1>6
<1>8. /\ c \in ConfigState
      /\ \E from \in Origin :
           /\ c.contexts[name] = r.contexts[from]
           /\ \A q \in Origin \ {name} :
                c.contexts[q] = IF q = from THEN NoContext ELSE r.contexts[q]
           /\ from = name => \/ \A q \in Origin \ {name} : r.contexts[q].server # k.result.server
                             \/ r.contexts[name].server \notin {NoServer, k.result.server}
           /\ from # name => r.contexts[from].server = k.result.server
  BY <1>3, MigratedFrom
<1>9. PICK from \in Origin :
           /\ c.contexts[name] = r.contexts[from]
           /\ \A q \in Origin \ {name} :
                c.contexts[q] = IF q = from THEN NoContext ELSE r.contexts[q]
           /\ from = name => \/ \A q \in Origin \ {name} : r.contexts[q].server # k.result.server
                             \/ r.contexts[name].server \notin {NoServer, k.result.server}
           /\ from # name => r.contexts[from].server = k.result.server
  BY <1>8
<1>10. r.contexts[from].storage \in Nat /\ r.contexts[from].storage <= nextId
  BY <1>3 DEF Sane, SaneContext, ConfigState, Context
<1>11. \A i \in found : /\ i \in 1 .. nextId + 1
                        /\ i = nextId + 1 \/ \E row \in storageRows : row.id = i /\ row.url = k.url
  <2>1. \A row \in storageRows : row.id \in 1 .. nextId
    BY DEF LoginInv, LoginTyped, TablesTyped
  <2>2. \A i \in found : i = nextId + 1 \/ \E row \in storageRows : row.id = i /\ row.url = k.url
    BY <1>5 DEF RowsAt
  <2> QED BY <1>3, <2>1, <2>2
<1>12. /\ storage \in Nat \ {0} /\ nextId' \in Nat /\ nextId <= nextId' /\ storage \in 1 .. nextId'
       /\ \/ r.contexts[from].storage # 0 /\ storage = r.contexts[from].storage
          \/ r.contexts[from].storage = 0 /\ storage = nextId + 1
          \/ r.contexts[from].storage = 0 /\ \E row \in storageRows : row.id = storage /\ row.url = k.url
  <2>1. nextId' = IF storage > nextId THEN storage ELSE nextId
    BY <1>7
  <2>2. CASE r.contexts[from].storage # 0
    BY <1>3, <1>7, <1>9, <1>10, <2>1, <2>2
  <2>3. CASE r.contexts[from].storage = 0
    <3>1. storage \in found
      BY <1>7, <1>9, <2>3
    <3> QED BY <1>3, <1>11, <2>1, <2>3, <3>1
  <2> QED BY <2>2, <2>3
<1>13. PICK x : x = [addr |-> k.url, server |-> k.result.server, fp |-> k.result.fp,
                     storage |-> storage, token |-> TRUE]
  OBVIOUS
<1>14. x \in Context
  BY <1>3, <1>12, <1>13 DEF Context
<1>15. PICK cs : cs = [c.contexts EXCEPT ![name] = x]
  OBVIOUS
<1>16. /\ cs \in [Origin -> Context] /\ cs[name] = x
       /\ \A q \in Origin \ {name} : cs[q] = IF q = from THEN NoContext ELSE r.contexts[q]
  BY <1>8, <1>9, <1>14, <1>15 DEF ConfigState
<1>17. PICK d : d = [contexts |-> cs, current |-> name]
  OBVIOUS
<1>18. SaveConfig(d, r, Applying \ {l})
  BY <1>7, <1>13, <1>15, <1>17
<1>19. d \in ConfigState /\ Readable(d) /\ d.contexts = cs
  BY <1>16, <1>17, DesktopLoginAssumption DEF ConfigState, Readable
<1>20. config' = d
  BY <1>18 DEF SaveConfig
<1>21. SavedAs(l, r, from, storage)
  BY <1>1, <1>4, <1>9, <1>12, <1>13, <1>16, <1>19, <1>20 DEF SavedAs
<1> QED BY <1>1, <1>2, <1>7, <1>12, <1>18, <1>21

\* The fingerprint that a login saves was met first or is trusted, if nobody has
\* changed the file since the login read it.
LEMMA SavedIsAccepted ==
  ASSUME LoginInv, NEW l \in Login, SaveForLogin(l), ~raced, LoadConfig = login[l].read
  PROVE  login[l].result.fp \in accepted'
<1>1. PICK k : k = login[l]
  OBVIOUS
<1>2. /\ k \in LoginState /\ k.at = "save" /\ LoginSane(k, asked[l], nextId)
  BY <1>1 DEF SaveForLogin, LoginInv, LoginTyped, DeviceSane
<1>3. k.result.fp # 0 /\ ContextName(k.url) \in Origin
  BY <1>2 DEF LoginSane, Address, ContextName
<1>4. accepted' = IF FirstMet(k.url, k.result.server) THEN accepted \cup {k.result.fp} ELSE accepted
  BY <1>1 DEF SaveForLogin
<1>5. k.result.fp \in accepted \/ Pinned(k)
  BY <1>1, <1>2 DEF LoginInv, FingerprintInv, LoginAccepted
<1>6. \A o \in Origin : k.read.contexts[o].fp \in accepted \cup {0}
  BY <1>1, Loaded DEF LoginInv, FingerprintInv, FingerprintsAccepted
<1>7. CASE \E o \in ContextsOf(k.read, k.result.server) : k.read.contexts[o].fp = k.result.fp
  <2>1. k.result.fp \in accepted
    BY <1>3, <1>6, <1>7 DEF ContextsOf
  <2> QED BY <1>1, <1>4, <2>1
<1>8. CASE /\ ContextsOf(k.read, k.result.server) = {}
           /\ k.read.contexts[ContextName(k.url)].fp \in {0, k.result.fp}
  <2>1. CASE k.read.contexts[ContextName(k.url)].fp = 0
    BY <1>1, <1>4, <1>8, <2>1 DEF FirstMet
  <2>2. CASE k.read.contexts[ContextName(k.url)].fp = k.result.fp
    <3>1. k.result.fp \in accepted
      BY <1>3, <1>6, <2>2
    <3> QED BY <1>1, <1>4, <3>1
  <2> QED BY <1>8, <2>1, <2>2
<1> QED BY <1>1, <1>4, <1>5, <1>7, <1>8 DEF Pinned

\* The save of a login that nothing has overlapped.
LEMMA SaveSound ==
  ASSUME LoginInv, NEW l \in Login, NEW from \in Origin, NEW storage \in Nat \ {0},
         SavedAs(l, config, from, storage), StoragesSound,
         login[l].at = "save", Applying \ {l} = {}, UNCHANGED <<tables, asked>>,
         NEW k \in LoginState, login' = [login EXCEPT ![l] = k], k.at = "clean",
         k.url = login[l].url, k.storage = storage,
         takenOver => takenOver',
         ~takenOver' => \/ login[l].result.server = ContextAt(login[l].url.origin).server
                        \/ ContextAt(login[l].url.origin).server = NoServer
  PROVE  StoragesSound'
<1> USE DEF tables
<1>1. PICK name \in Origin : name = login[l].url.origin /\ name = k.url.origin
  BY DEF LoginInv, DeviceSane, LoginSane, Address
<1>2. PICK s \in LoginServer : s = login[l].result.server /\ s # NoServer
  BY DesktopLoginAssumption DEF LoginInv, DeviceSane, LoginSane
<1>3. /\ ContextAt(name)'.storage = storage /\ ContextAt(name)'.server = s
      /\ ContextAt(name)'.addr = login[l].url
      /\ \A q \in Origin \ {name} : ContextAt(q)' = IF q = from THEN NoContext ELSE ContextAt(q)
      /\ from = name => \/ \A q \in Origin \ {name} : ContextAt(q).server # s
                        \/ ContextAt(name).server \notin {NoServer, s}
      /\ from # name => ContextAt(from).server = s
      /\ \/ ContextAt(from).storage # 0 /\ storage = ContextAt(from).storage
         \/ ContextAt(from).storage = 0 /\ storage = nextId + 1
         \/ ContextAt(from).storage = 0 /\ \E row \in storageRows : row.id = storage /\ row.url = login[l].url
      /\ Readable(config')
  BY <1>1, <1>2 DEF SavedAs, ContextAt
<1>4. NoContext.storage = 0 /\ NoContext.server = NoServer
  BY DEF NoContext
<1>5. /\ login'[l] = k /\ \A m \in Login \ {l} : login'[m] = login[m]
  BY DEF LoginInv, LoginTyped
<1>6. \A m \in Login : /\ ~Placing(login[m]) /\ (Finalizing(login[m], asked[m]) => m = l)
                       /\ (Placing(login'[m]) <=> m = l)
  BY <1>5 DEF Applying, Placing, Finalizing
<1>7. \A i : ~Placed(i) /\ (Placed(i)' <=> i = storage)
  BY <1>5, <1>6 DEF Placed
<1>8. \A o \in Origin : ContextAt(o).server # NoServer /\ ContextAt(o).storage = 0 => o = name
  BY <1>1, <1>6 DEF StoragesSound, BareIsFinalized
<1>9. ASSUME ContextAt(from).storage = 0 PROVE from = name
  BY <1>2, <1>3, <1>8, <1>9
<1>10. ASSUME NEW o \in Origin
       PROVE  /\ ContextAt(o).storage \in Nat /\ ContextAt(o).storage <= nextId
              /\ ContextAt(o).storage # 0 => ContextAt(o).addr.origin = o
              /\ ContextAt(o).server = NoServer => ContextAt(o) = NoContext
  BY DEF LoginInv, LoginTyped, ConfigState, Context, DeviceSane, Sane, SaneContext, ContextAt
<1>11. nextId \in Nat /\ \A row \in storageRows : row.id # 0
  BY DEF LoginInv, LoginTyped, TablesTyped
<1>12. ASSUME NEW q \in Origin, q # from PROVE ContextAt(q).storage # storage
  <2>1. CASE ContextAt(from).storage # 0
    BY <1>3, <1>12, <2>1 DEF StoragesSound, StoragesDiffer
  <2>2. CASE storage = nextId + 1
    BY <1>10, <1>11, <2>2
  <2>3. ASSUME ContextAt(from).storage = 0, ContextAt(q).storage = storage,
               NEW row \in storageRows, row.id = storage, row.url = login[l].url
        PROVE  FALSE
    <3>1. row.url = ContextAt(q).addr
      BY <1>7, <2>3 DEF StoragesSound, RowsFollow
    <3>2. q = name
      BY <1>1, <1>10, <2>3, <3>1
    <3> QED BY <1>9, <1>12, <2>3, <3>2
  <2> QED BY <1>3, <2>1, <2>2, <2>3
<1>13. \A q \in Origin \ {name} : \/ q # from /\ ContextAt(q)' = ContextAt(q)
                                  \/ q = from /\ ContextAt(q)' = NoContext
  BY <1>3
<1>14. StoragesDiffer'
  <2>1. ASSUME NEW o \in Origin, NEW q \in Origin, o # q, ContextAt(o)'.storage # 0
        PROVE  ContextAt(o)'.storage # ContextAt(q)'.storage
    <3>1. CASE o = name
      BY <1>3, <1>4, <1>12, <1>13, <2>1, <3>1
    <3>2. CASE q = name
      BY <1>3, <1>4, <1>12, <1>13, <2>1, <3>2
    <3>3. CASE o # name /\ q # name
      BY <1>4, <1>13, <2>1, <3>3 DEF StoragesSound, StoragesDiffer
    <3> QED BY <3>1, <3>2, <3>3
  <2> QED BY <2>1 DEF StoragesDiffer
<1>15. RowsFollow'
  <2>1. ASSUME NEW row \in storageRows, NEW o \in Origin, ContextAt(o)'.storage = row.id,
               row.id # storage
        PROVE  row.url = ContextAt(o)'.addr
    <3>1. o # name /\ ContextAt(o)' = ContextAt(o)
      BY <1>3, <1>4, <1>11, <1>13, <2>1
    <3> QED BY <1>7, <2>1, <3>1 DEF StoragesSound, RowsFollow
  <2> QED BY <1>7, <2>1 DEF RowsFollow
<1>16. StoragesExist'
  <2>1. ASSUME NEW o \in Origin, ContextAt(o)'.storage \notin {0, storage}
        PROVE  ContextAt(o)'.storage \in {row.id : row \in storageRows}
    <3>1. o # name /\ ContextAt(o)' = ContextAt(o)
      BY <1>3, <1>4, <1>13, <2>1
    <3> QED BY <1>7, <2>1, <3>1 DEF StoragesSound, StoragesExist
  <2> QED BY <1>7, <2>1 DEF StoragesExist
<1>17. PlacingIsSaved' /\ OnePlaces'
  BY <1>1, <1>3, <1>5, <1>6 DEF PlacingIsSaved, OnePlaces
<1>18. BareIsFinalized'
  <2>1. ASSUME NEW o \in Origin, ContextAt(o)'.server # NoServer, ContextAt(o)'.storage = 0
        PROVE  FALSE
    BY <1>3, <1>4, <1>8, <1>13, <2>1
  <2> QED BY <2>1 DEF BareIsFinalized
<1>19. ASSUME NothingOrphaned, ~takenOver' PROVE NothingOrphaned'
  <2>1. from # name => ContextAt(name).storage = 0
    <3>1. CASE ContextAt(name).server = NoServer
      BY <1>4, <1>10, <3>1
    <3>2. CASE ContextAt(name).server = s
      BY <1>2, <1>3, <1>9, <1>19, <3>2 DEF NothingOrphaned
    <3> QED BY <1>1, <1>2, <1>19, <3>1, <3>2
  <2>2. ASSUME NEW row \in storageRows PROVE \E o \in Origin : ContextAt(o)'.storage = row.id
    <3>1. PICK o \in Origin : ContextAt(o).storage = row.id
      BY <1>19 DEF NothingOrphaned
    <3>2. CASE o = from
      BY <1>3, <1>11, <3>1, <3>2
    <3>3. CASE o # from
      BY <1>11, <1>13, <2>1, <3>1, <3>3
    <3> QED BY <3>2, <3>3
  <2>3. ASSUME NEW q \in Origin \ {name}, ContextAt(q)'.server = s PROVE ContextAt(q)'.storage = 0
    <3>1. q # from /\ ContextAt(q)' = ContextAt(q)
      BY <1>2, <1>4, <1>13, <2>3
    <3>2. from # name
      BY <1>1, <1>2, <1>3, <1>19, <2>3, <3>1
    <3>3. ContextAt(from).storage # 0
      BY <1>9, <3>2
    <3> QED BY <1>2, <1>3, <1>19, <2>3, <3>1, <3>2, <3>3 DEF NothingOrphaned
  <2>4. ASSUME NEW o \in Origin, NEW q \in Origin, o # q,
               ContextAt(o)'.server = ContextAt(q)'.server, ContextAt(o)'.server # NoServer
        PROVE  ContextAt(o)'.storage = 0 \/ ContextAt(q)'.storage = 0
    <3>1. CASE o = name \/ q = name
      BY <1>3, <2>3, <2>4, <3>1
    <3>2. CASE o # name /\ q # name
      BY <1>4, <1>13, <1>19, <2>4, <3>2 DEF NothingOrphaned
    <3> QED BY <3>1, <3>2
  <2> QED BY <1>19, <2>2, <2>4 DEF NothingOrphaned
<1> QED BY <1>3, <1>14, <1>15, <1>16, <1>17, <1>18, <1>19 DEF StoragesSound

\* apply_login_context up to its save.
LEMMA SaveKeeps ==
  ASSUME LoginInv, NEW l \in Login, SaveForLogin(l)
  PROVE  LoginInv'
<1> USE DEF world, tables, counts
<1>0. PICK d : \E from \in Origin, storage \in Nat \ {0} :
        /\ SaveConfig(d, login[l].read, Applying \ {l})
        /\ SavedAs(l, login[l].read, from, storage)
        /\ login' = [login EXCEPT ![l] = [@ EXCEPT !.at = "clean", !.storage = storage]]
        /\ nextId' \in Nat /\ nextId <= nextId'
  BY SaveShape
<1>1. PICK from \in Origin, storage \in Nat \ {0} :
        /\ SaveConfig(d, login[l].read, Applying \ {l})
        /\ SavedAs(l, login[l].read, from, storage)
        /\ login' = [login EXCEPT ![l] = [@ EXCEPT !.at = "clean", !.storage = storage]]
        /\ nextId' \in Nat /\ nextId <= nextId'
  BY <1>0
<1>2. UNCHANGED <<world, tables, asked, tokenSync, counts>>
  BY DEF SaveForLogin
<1>3. /\ login[l] \in LoginState /\ login[l].at = "save" /\ LoginSane(login[l], asked[l], nextId)
      /\ nextId \in Nat
  BY DEF SaveForLogin, LoginInv, LoginTyped, TablesTyped, DeviceSane
<1>4. PICK k : k = [login[l] EXCEPT !.at = "clean", !.storage = storage]
  OBVIOUS
<1>5. /\ k \in LoginState /\ k.at = "clean" /\ k.url = login[l].url /\ k.result = login[l].result
      /\ k.storage = storage
  BY <1>3, <1>4 DEF LoginState, LoginSteps
<1>6. login' = [login EXCEPT ![l] = k]
  BY <1>1, <1>4
<1>7. storage \in 1 .. nextId' /\ config' \in ConfigState /\ Readable(config')
  BY <1>1 DEF SavedAs
<1>8. LoginSane(k, asked[l], nextId')
  BY <1>3, <1>5, <1>7 DEF LoginSane
<1>9. /\ login' \in [Login -> LoginState] /\ login'[l] = k /\ asked' \in [Login -> AskedState]
      /\ \A m \in Login \ {l} : login'[m] = login[m]
      /\ \A m \in Login : LoginSane(login'[m], asked'[m], nextId')
  <2>1. UNCHANGED asked
    BY <1>2
  <2> QED BY <1>1, <1>5, <1>6, <1>8, <2>1, LoginAt
<1>10. /\ config' = d /\ raced' \in BOOLEAN /\ takenOver' \in BOOLEAN
       /\ takenOver => takenOver'
       /\ raced => raced'
       /\ ~raced' => LoadConfig = login[l].read /\ Applying \ {l} = {}
       /\ ~takenOver' => \A o \in Origin :
            \/ d.contexts[o].server = LoadConfig.contexts[o].server
            \/ d.contexts[o].server = NoServer
            \/ LoadConfig.contexts[o].server = NoServer
  <2>1. LoginTyped
    BY DEF LoginInv
  <2> QED BY <1>1, <2>1, SavedFlags
<1>11. accepted' = accepted \/ accepted' = accepted \cup {login[l].result.fp}
  BY DEF SaveForLogin
<1>12. TablesTyped'
  <2>1. 1 .. nextId \subseteq 1 .. nextId'
    BY <1>1, <1>3
  <2>2. storageRows' \subseteq [id : 1 .. nextId', url : Address, fp : Nat]
    BY <1>2, <2>1 DEF LoginInv, LoginTyped, TablesTyped
  <2> QED BY <1>1, <1>2, <2>2 DEF LoginInv, LoginTyped, TablesTyped
<1>13. LoginTyped'
  <2>1. login[l].result.fp \in Nat
    BY <1>3 DEF LoginState, ResultState
  <2>2. accepted' \in SUBSET Nat
    BY <1>11, <2>1 DEF LoginInv, LoginTyped
  <2> QED BY <1>2, <1>7, <1>9, <1>10, <1>12, <2>2 DEF LoginInv, LoginTyped
<1>14. PICK name \in Origin : name = login[l].url.origin /\ login[l].url \in Address
  BY <1>3 DEF LoginSane, Address
<1>15. /\ \A o \in Origin \ {name} : config'.contexts[o] =
            IF o = from THEN NoContext ELSE login[l].read.contexts[o]
       /\ config'.contexts[name].server = login[l].result.server
       /\ config'.contexts[name].fp = login[l].result.fp
       /\ config'.contexts[name].storage = storage
       /\ config'.contexts[name].addr = login[l].url
  BY <1>1, <1>14 DEF SavedAs
<1>16. DeviceSane'
  <2>1. login[l].read \in ConfigState /\ Sane(login[l].read, nextId')
    <3>1. login[l].read \in ConfigState /\ Sane(login[l].read, nextId)
      BY <1>3 DEF LoginSane, LoginState
    <3> QED BY <1>1, <1>3, <3>1, SaneGrows
  <2>2. ASSUME NEW o \in Origin PROVE SaneContext(config'.contexts[o], o, nextId')
    <3>1. SaneContext(NoContext, o, nextId')
      BY <1>1 DEF SaneContext, NoContext
    <3>2. CASE o # name
      BY <1>15, <2>1, <3>1, <3>2 DEF Sane
    <3>3. CASE o = name
      <4>1. login[l].result.server # NoServer /\ login[l].result.fp # 0
        BY <1>3, DesktopLoginAssumption DEF LoginSane
      <4> QED BY <1>7, <1>14, <1>15, <3>3, <4>1 DEF SaneContext
    <3> QED BY <3>2, <3>3
  <2>3. tokenSync.at # "idle" => Sane(tokenSync.read, nextId')
    <3>1. tokenSync.read \in ConfigState
      BY DEF LoginInv, LoginTyped, TokenSyncState
    <3> QED BY <1>1, <1>3, <3>1, SaneGrows DEF LoginInv, DeviceSane
  <2>4. Sane(config, nextId)'
    BY <2>2 DEF Sane
  <2> QED BY <1>2, <1>7, <1>9, <2>3, <2>4 DEF LoginInv, DeviceSane
<1>17. FingerprintInv'
  <2> SUFFICES ASSUME ~raced' PROVE FingerprintsAccepted' /\ \A m \in Login : LoginAccepted(login[m])'
    BY DEF FingerprintInv
  <2>1. FingerprintsAccepted /\ (\A m \in Login : LoginAccepted(login[m])) /\ ~raced
    BY <1>10 DEF LoginInv, FingerprintInv
  <2>2. login[l].result.fp \in accepted'
    BY <1>10, <2>1, SavedIsAccepted
  <2>3. \A o \in Origin : login[l].read.contexts[o].fp \in accepted \cup {0}
    BY <1>10, <2>1, Loaded DEF LoginInv, FingerprintsAccepted
  <2>4. FingerprintsAccepted'
    <3>1. NoContext.fp = 0
      BY DEF NoContext
    <3>2. ASSUME NEW o \in Origin PROVE config'.contexts[o].fp \in accepted' \cup {0}
      BY <1>11, <1>15, <2>2, <2>3, <3>1
    <3> QED BY <1>2, <1>11, <2>1, <3>2 DEF FingerprintsAccepted
  <2>5. ASSUME NEW m \in Login PROVE LoginAccepted(login[m])'
    BY <1>5, <1>9, <1>11, <2>1, <2>2 DEF LoginAccepted
  <2> QED BY <2>4, <2>5
<1>18. StorageInv'
  <2> SUFFICES ASSUME ~raced', ~cut' PROVE StoragesSound'
    BY DEF StorageInv
  <2>1. StoragesSound
    BY <1>2, <1>10 DEF LoginInv, StorageInv
  <2>2. LoadConfig = config /\ login[l].read = config /\ Applying \ {l} = {}
    BY <1>10, <2>1, Loaded DEF LoginInv, StoragesSound
  <2>3. SavedAs(l, config, from, storage)
    BY <1>1, <2>2
  <2>4. ~takenOver' => \/ login[l].result.server = ContextAt(login[l].url.origin).server
                       \/ ContextAt(login[l].url.origin).server = NoServer
    <3>1. login[l].result.server # NoServer
      BY <1>3, DesktopLoginAssumption DEF LoginSane
    <3> QED BY <1>10, <1>14, <1>15, <2>2, <3>1 DEF ContextAt
  <2>5. UNCHANGED <<tables, asked>>
    BY <1>2
  <2> QED BY <1>3, <1>5, <1>6, <1>10, <2>1, <2>2, <2>3, <2>4, <2>5, SaveSound
<1> QED BY <1>13, <1>16, <1>17, <1>18 DEF LoginInv

-----------------------------------------------------------------------------
LEMMA LoginStutterKeeps == LoginInv /\ UNCHANGED loginVars => LoginInv'
<1> SUFFICES ASSUME LoginInv, UNCHANGED loginVars PROVE LoginInv'
  OBVIOUS
<1> USE DEF loginVars
<1>1. LoginTyped'
  BY DEF LoginInv, LoginTyped, TablesTyped
<1>2. (tokenSync.at # "idle" => Sane(tokenSync.read, nextId) /\ Readable(tokenSync.read))'
  BY DEF LoginInv, DeviceSane
<1> QED BY <1>1, <1>2, ElsewhereKeeps

LEMMA LoginStepKeeps ==
  ASSUME LoginInv, NEW l \in Login, LoginStep(l)
  PROVE  LoginInv'
<1>1. CASE \E url \in Address : PasswordLogin(l, url) \/ PasswordRegister(l, url) \/ BeginLogin(l, url)
  BY <1>1, BeginKeeps
<1>2. CASE \E matches \in BOOLEAN : Callback(l, matches)
  BY <1>2, CallbackKeeps
<1>3. CASE ListenerFails(l) \/ RequestFails(l) \/ FinishLogin(l)
  BY <1>3, LoginEnds
<1>4. CASE Answered(l) \/ TrustFingerprint(l) \/ LoadForLogin(l) \/ SaveForLogin(l)
  BY <1>4, AnsweredKeeps, TrustKeeps, LoadKeeps, SaveKeeps
<1>5. CASE CleanForLogin(l) \/ RowForLogin(l)
  BY <1>5, CleanKeeps, RowKeeps
<1> QED BY <1>1, <1>2, <1>3, <1>4, <1>5 DEF LoginStep

LEMMA LoginInductive == LoginInv /\ [DesktopLoginNext]_loginVars => LoginInv'
<1> SUFFICES ASSUME LoginInv, [DesktopLoginNext]_loginVars PROVE LoginInv'
  OBVIOUS
<1>1. CASE \E l \in Login : LoginStep(l)
  BY <1>1, LoginStepKeeps
<1>2. CASE \/ \E o \in Origin, s \in LoginServer : MoveServer(o, s)
           \/ \E s \in LoginServer : NewSecrets(s)
           \/ \E id \in 1 .. nextId : EditOffline(id)
  BY <1>2, WorldKeeps
<1>3. CASE SyncReads \/ SyncEnds \/ \E last \in BOOLEAN : SyncSaves(last)
  BY <1>3, SyncReadsKeeps, SyncSavesKeeps
<1>4. CASE \E id \in 1 .. nextId : RemoveStorage(id)
  BY <1>4, RemoveKeeps
<1>5. CASE \E id \in 1 .. nextId, erase \in BOOLEAN : SignOut(id, erase)
  BY <1>5, SignOutKeeps
<1>6. CASE \E torn \in BOOLEAN : KillDesktop(torn)
  BY <1>6, KillKeeps
<1>7. CASE UNCHANGED loginVars
  BY <1>7, LoginStutterKeeps
<1> QED BY <1>1, <1>2, <1>3, <1>4, <1>5, <1>6, <1>7 DEF DesktopLoginNext

LEMMA LoginInvKeepsDevice == LoginInv => DeviceLoginsKept
<1> SUFFICES ASSUME LoginInv PROVE DeviceLoginsKept
  OBVIOUS
<1>1. DesktopLoginTypeOK
  BY DEF LoginInv, LoginTyped, TablesTyped, DesktopLoginTypeOK, ConfigState, LoginState
<1>2. StoragesSound => EditsSurviveLogins
  BY DEF StoragesSound, NothingOrphaned, EditsSurviveLogins
<1>3. ASSUME StoragesSound PROVE ContextsHaveStorage
  <2>1. \A o, q \in Origin : o # q /\ config.contexts[o].storage # 0
          => config.contexts[o].storage # config.contexts[q].storage
    BY <1>3 DEF StoragesSound, StoragesDiffer, ContextAt
  <2>2. ASSUME Quiet, NEW o \in Origin, config.contexts[o].token
        PROVE  config.contexts[o].storage \in {row.id : row \in storageRows}
    <3>1. config.contexts[o].storage # 0
      BY <2>2 DEF LoginInv, DeviceSane, Sane, SaneContext
    <3>2. ~Placed(config.contexts[o].storage)
      BY <2>2 DEF Quiet, Placed, Placing
    <3> QED BY <1>3, <3>1, <3>2 DEF StoragesSound, StoragesExist, ContextAt
  <2> QED BY <2>1, <2>2 DEF ContextsHaveStorage
<1>4. LoginsKeepDevice
  BY <1>2, <1>3 DEF LoginInv, FingerprintInv, StorageInv, LoginsKeepDevice
<1> QED BY <1>1, <1>4 DEF DeviceLoginsKept

\* What logins leave on the device is right for any number of servers, addresses,
\* logins, moves and kills, as long as no two commands change the device at a
\* time: every fingerprint was met first or trusted (fingerprint_change_for_context,
\* trust_fingerprint), and unless a login was killed halfway no waiting change is
\* thrown away and every context with a session has a storage of its own
\* (apply_login_context, migrate_context_for_server_id, cleanup_duplicate_storages).
THEOREM LoginsKeep == DesktopLoginSpec => []DeviceLoginsKept
<1>1. DesktopLoginInit => LoginInv
  BY LoginInitially
<1>2. LoginInv /\ [DesktopLoginNext]_loginVars => LoginInv'
  BY LoginInductive
<1>3. LoginInv => DeviceLoginsKept
  BY LoginInvKeepsDevice
<1> QED BY <1>1, <1>2, <1>3, PTL DEF DesktopLoginSpec

=============================================================================
