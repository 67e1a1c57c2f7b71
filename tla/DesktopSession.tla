---------------------------- MODULE DesktopSession ----------------------------
(***************************************************************************)
(* The master key of a running desktop (services/session.rs): unlocking by *)
(* password and by biometrics, the first password, the settings that hold  *)
(* the wrapped master key, and handle_master_key_change, which throws away *)
(* the shared items that were sealed under another key.                    *)
(*                                                                         *)
(* unlock checks no password: every password makes a key, and a mistyped   *)
(* one makes another key than the right one.  A command about the settings *)
(* runs beside the unlocking, and a sync goes on under the key it has      *)
(* started with.                                                           *)
(***************************************************************************)
EXTENDS Naturals, FiniteSets

CONSTANTS
  Passphrase,      \* what the user types
  MaxSessionCalls,
  NoKey

ASSUME DesktopSessionAssumption == MaxSessionCalls \in Nat

VARIABLES
  salt,          \* kdf_salt of config.identity, 0 without an identity
  memoryKey,     \* state.master_key
  onFile,        \* settings.json
  inMemory,      \* state.settings
  onScreen,      \* the settings that the window shows
  keyFp,         \* metadata master_key_fp
  initialized,   \* metadata initialized
  envelope,      \* the key that opens the personal vault on the server
  sharedItems,   \* the keys that the shared items of the cache are sealed under
  unlocking,     \* the command that sets the master key
  changing,      \* the command that changes the settings
  syncing,       \* the key of the sync that runs
  keyChanged,    \* the key changed under a sync, or a sync began in an unlocking
  dwks, calls

sessionVars == <<salt, memoryKey, onFile, inMemory, onScreen, keyFp, initialized, envelope,
                 sharedItems, unlocking, changing, syncing, keyChanged, dwks, calls>>
settingsVars == <<onFile, inMemory, onScreen>>
keyData == <<keyFp, initialized, sharedItems>>

MasterKey == [password : Passphrase, salt : 1 .. 2]
SomeKey == MasterKey \cup {NoKey}

\* DesktopSettings: wrapped_master_key is a key sealed under a device key, and
\* biometry_dwk_backup is a device key.
Unwrapped == [key |-> NoKey, under |-> 0]
DefaultSettings == [remember |-> FALSE, wrapped |-> Unwrapped, dwk |-> 0]
Settings == [remember : BOOLEAN, wrapped : [key : SomeKey, under : Nat], dwk : Nat]

NotUnlocking == [at |-> "idle", key |-> NoKey, wrap |-> FALSE, next |-> DefaultSettings]
NotChanging == [at |-> "idle", next |-> DefaultSettings, shown |-> FALSE]

DesktopSessionTypeOK ==
  /\ salt \in 0 .. 2 /\ {memoryKey, keyFp, envelope, syncing} \subseteq SomeKey
  /\ {onFile, inMemory, onScreen} \subseteq Settings
  /\ sharedItems \subseteq MasterKey
  /\ unlocking.at \in {"idle", "prompt", "read", "wipe", "mark", "wrap", "file", "memory"}
  /\ changing.at \in {"idle", "file", "memory"}

\* A fresh application, without an account or after a first login to an account
\* whose personal vault may have a key.
DesktopSessionInit ==
  /\ salt \in 0 .. 1
  /\ envelope \in {NoKey} \cup {k \in MasterKey : k.salt = salt}
  /\ memoryKey = NoKey /\ keyFp = NoKey /\ initialized = FALSE /\ sharedItems = {}
  /\ onFile = DefaultSettings /\ inMemory = DefaultSettings /\ onScreen = DefaultSettings
  /\ unlocking = NotUnlocking /\ changing = NotChanging
  /\ syncing = NoKey /\ keyChanged = FALSE /\ dwks = 0 /\ calls = 0

Call == calls < MaxSessionCalls /\ calls' = calls + 1

-----------------------------------------------------------------------------
(* Setting the master key.                                                 *)

DeriveKey(password) == [password |-> password, salt |-> salt]

SetMasterKey(key, wrap) ==
  /\ memoryKey' = key
  /\ keyChanged' = (keyChanged \/ syncing \notin {NoKey, key})
  /\ unlocking' = [NotUnlocking EXCEPT !.at = "read", !.key = key, !.wrap = wrap]

\* initialize_local_identity
InitializeIdentity ==
  /\ Call /\ salt = 0 /\ salt' = 1
  /\ UNCHANGED <<memoryKey, settingsVars, keyData, envelope, unlocking, changing, syncing,
                 keyChanged, dwks>>

\* apply_login_context: a login to another account brings another salt.
LoginIdentity ==
  /\ Call /\ salt' \in 1 .. 2 /\ salt' # salt
  /\ envelope' \in {NoKey} \cup {k \in MasterKey : k.salt = salt'}
  /\ UNCHANGED <<memoryKey, settingsVars, keyData, unlocking, changing, syncing, keyChanged, dwks>>

\* verify_remote_master_password, with a server that answers: without a session
\* or without an envelope every password is right.
RemoteAccepts(key) == envelope \in {NoKey, key}

\* initialize_master_password up to handle_master_key_change
InitializeMasterPassword(password) ==
  /\ Call /\ unlocking.at = "idle" /\ salt # 0
  /\ RemoteAccepts(DeriveKey(password)) /\ ~initialized
  /\ initialized' = TRUE
  /\ SetMasterKey(DeriveKey(password), FALSE)
  /\ UNCHANGED <<salt, settingsVars, keyFp, sharedItems, envelope, changing, syncing, dwks>>

\* unlock up to handle_master_key_change
Unlock(password) ==
  /\ Call /\ unlocking.at = "idle" /\ salt # 0
  /\ SetMasterKey(DeriveKey(password), TRUE)
  /\ UNCHANGED <<salt, settingsVars, keyData, envelope, changing, syncing, dwks>>

\* session_unlock_with_biometrics: the device key is read before the prompt,
\* the wrapped key after it.
AskBiometrics ==
  /\ Call /\ unlocking.at = "idle" /\ inMemory.dwk # 0
  /\ unlocking' = [NotUnlocking EXCEPT !.at = "prompt", !.next = inMemory]
  /\ UNCHANGED <<salt, memoryKey, settingsVars, keyData, envelope, changing, syncing, keyChanged,
                 dwks>>

BiometricsAnswer ==
  /\ unlocking.at = "prompt"
  /\ \/ /\ inMemory.wrapped.key # NoKey /\ inMemory.wrapped.under = unlocking.next.dwk
        /\ SetMasterKey(inMemory.wrapped.key, FALSE)
     \/ /\ unlocking' = NotUnlocking
        /\ UNCHANGED <<memoryKey, keyChanged>>
  /\ UNCHANGED <<salt, settingsVars, keyData, envelope, changing, syncing, dwks, calls>>

\* session_lock
Lock ==
  /\ Call /\ memoryKey # NoKey /\ memoryKey' = NoKey
  /\ UNCHANGED <<salt, settingsVars, keyData, envelope, unlocking, changing, syncing, keyChanged,
                 dwks>>

-----------------------------------------------------------------------------
(* handle_master_key_change, and the rest of unlock.                       *)

AfterMark == IF unlocking.wrap THEN [unlocking EXCEPT !.at = "wrap"] ELSE NotUnlocking

CompareFingerprint ==
  /\ unlocking.at = "read"
  /\ unlocking' = IF keyFp = unlocking.key THEN AfterMark
                  ELSE [unlocking EXCEPT !.at = IF keyFp = NoKey THEN "mark" ELSE "wipe"]
  /\ UNCHANGED <<salt, memoryKey, settingsVars, keyData, envelope, changing, syncing, keyChanged,
                 dwks, calls>>

WipeSharedItems ==
  /\ unlocking.at = "wipe" /\ sharedItems' = {}
  /\ unlocking' = [unlocking EXCEPT !.at = "mark"]
  /\ UNCHANGED <<salt, memoryKey, settingsVars, keyFp, initialized, envelope, changing, syncing,
                 keyChanged, dwks, calls>>

MarkFingerprint ==
  /\ unlocking.at = "mark" /\ keyFp' = unlocking.key /\ unlocking' = AfterMark
  /\ UNCHANGED <<salt, memoryKey, settingsVars, initialized, sharedItems, envelope, changing,
                 syncing, keyChanged, dwks, calls>>

\* wrap_master_key_with_biometry makes a device key for every wrapping.
Wrapped(s, key) ==
  [s EXCEPT !.wrapped = [key |-> key, under |-> dwks + 1], !.dwk = dwks + 1]

\* The prompt of unlock: refused or nothing to wrap, or the key is wrapped.
WrapForUnlock ==
  /\ unlocking.at = "wrap"
  /\ \/ unlocking' = NotUnlocking /\ UNCHANGED dwks
     \/ /\ inMemory.remember /\ inMemory.wrapped = Unwrapped
        /\ unlocking' = [unlocking EXCEPT !.at = "file", !.next = Wrapped(inMemory, unlocking.key)]
        /\ dwks' = dwks + 1
  /\ UNCHANGED <<salt, memoryKey, settingsVars, keyData, envelope, changing, syncing, keyChanged,
                 calls>>

SaveForUnlock ==
  /\ unlocking.at \in {"file", "memory"}
  /\ IF unlocking.at = "file"
     THEN /\ onFile' = unlocking.next /\ UNCHANGED inMemory
          /\ unlocking' = [unlocking EXCEPT !.at = "memory"]
     ELSE /\ inMemory' = unlocking.next /\ UNCHANGED onFile
          /\ unlocking' = NotUnlocking
  /\ UNCHANGED <<salt, memoryKey, onScreen, keyData, envelope, changing, syncing, keyChanged, dwks,
                 calls>>

-----------------------------------------------------------------------------
(* The settings.                                                           *)

\* session_rebind_biometrics; the window is not told.
RebindBiometrics ==
  /\ Call /\ changing.at = "idle" /\ memoryKey # NoKey /\ inMemory.remember
  /\ changing' = [at |-> "file", next |-> Wrapped(inMemory, memoryKey), shown |-> FALSE]
  /\ dwks' = dwks + 1
  /\ UNCHANGED <<salt, memoryKey, settingsVars, keyData, envelope, unlocking, syncing, keyChanged>>

\* Faulty: the device key in memory replaces the one that the window has.
KeptDwkOfMemory(s) == [s EXCEPT !.dwk = inMemory.dwk]

\* The device key that update_settings keeps.
KeptDwk(s) == IF s.dwk = 0 THEN [s EXCEPT !.dwk = inMemory.dwk] ELSE s

\* update_settings with what the window shows and remember switched or not.
UpdateSettings(remember) ==
  LET next == KeptDwk([onScreen EXCEPT !.remember = remember])
      turnsOn == ~inMemory.remember /\ remember
      turnsOff == inMemory.remember /\ ~remember
  IN  /\ Call /\ changing.at = "idle"
      /\ turnsOn => memoryKey # NoKey
      /\ changing' = [at |-> "file", shown |-> TRUE, next |->
           CASE turnsOn -> Wrapped(next, memoryKey)
             [] turnsOff -> [next EXCEPT !.wrapped = Unwrapped, !.dwk = 0]
             [] OTHER -> next]
      /\ dwks' = IF turnsOn THEN dwks + 1 ELSE dwks
      /\ UNCHANGED <<salt, memoryKey, settingsVars, keyData, envelope, unlocking, syncing,
                     keyChanged>>

SaveChange ==
  /\ changing.at \in {"file", "memory"}
  /\ IF changing.at = "file"
     THEN /\ onFile' = changing.next /\ UNCHANGED <<inMemory, onScreen>>
          /\ changing' = [changing EXCEPT !.at = "memory"]
     ELSE /\ inMemory' = changing.next /\ UNCHANGED onFile
          /\ onScreen' = IF changing.shown THEN changing.next ELSE onScreen
          /\ changing' = NotChanging
  /\ UNCHANGED <<salt, memoryKey, keyData, envelope, unlocking, syncing, keyChanged, dwks, calls>>

\* bootstrap, at a start and whenever the window asks for it.
Bootstrap ==
  /\ inMemory' = onFile /\ onScreen' = onFile
  /\ UNCHANGED <<salt, memoryKey, onFile, keyData, envelope, unlocking, changing, syncing,
                 keyChanged, dwks, calls>>

-----------------------------------------------------------------------------
(* The sync, the end of the application and the reset.                     *)

\* remote_sync keeps the key it has found and seals shared items under it.
BeginKeySync ==
  /\ syncing = NoKey /\ memoryKey # NoKey /\ syncing' = memoryKey
  /\ keyChanged' = (keyChanged \/ unlocking.at # "idle")
  /\ UNCHANGED <<salt, memoryKey, settingsVars, keyData, envelope, unlocking, changing, dwks, calls>>

SealSharedItem ==
  /\ syncing # NoKey /\ sharedItems' = sharedItems \cup {syncing}
  /\ UNCHANGED <<salt, memoryKey, settingsVars, keyFp, initialized, envelope, unlocking, changing,
                 syncing, keyChanged, dwks, calls>>

EndKeySync ==
  /\ syncing # NoKey /\ syncing' = NoKey
  /\ UNCHANGED <<salt, memoryKey, settingsVars, keyData, envelope, unlocking, changing, keyChanged,
                 dwks, calls>>

\* The application is killed and started again.
Restart ==
  /\ Call /\ memoryKey' = NoKey /\ inMemory' = onFile /\ onScreen' = onFile
  /\ unlocking' = NotUnlocking /\ changing' = NotChanging /\ syncing' = NoKey
  /\ UNCHANGED <<salt, onFile, keyData, envelope, keyChanged, dwks>>

\* local_factory_reset leaves the metadata and the settings in memory.
FactoryReset ==
  /\ Call /\ salt' = 0 /\ sharedItems' = {} /\ onFile' = DefaultSettings /\ memoryKey' = NoKey
  /\ envelope' = NoKey
  /\ UNCHANGED <<inMemory, onScreen, keyFp, initialized, unlocking, changing, syncing, keyChanged,
                 dwks>>

DesktopSessionNext ==
  \/ InitializeIdentity \/ LoginIdentity
  \/ \E p \in Passphrase : InitializeMasterPassword(p) \/ Unlock(p)
  \/ AskBiometrics \/ BiometricsAnswer \/ Lock
  \/ CompareFingerprint \/ WipeSharedItems \/ MarkFingerprint \/ WrapForUnlock \/ SaveForUnlock
  \/ RebindBiometrics \/ \E r \in BOOLEAN : UpdateSettings(r)
  \/ SaveChange \/ Bootstrap
  \/ BeginKeySync \/ SealSharedItem \/ EndKeySync \/ Restart \/ FactoryReset

DesktopSessionSpec == DesktopSessionInit /\ [][DesktopSessionNext]_sessionVars

-----------------------------------------------------------------------------
\* The shared items of the cache open with the key whose fingerprint is stored,
\* and outside of an unlocking that is the key in memory: a mistyped password, a
\* login to another account or a kill in the middle of
\* handle_master_key_change leaves no item behind that the next key cannot
\* open.  A sync that the key changes under is not covered.
SharedItemsOpen ==
  keyChanged \/ /\ unlocking.at \notin {"wipe", "mark"} => sharedItems \subseteq {keyFp}
                /\ unlocking.at = "idle" => memoryKey \in {NoKey, keyFp}

\* A wrapped master key is sealed under the device key beside it, in the file,
\* in memory and in the window, whatever commands about the settings overlap.
WrappedKeyOpens ==
  \A s \in {onFile, inMemory, onScreen} :
    s.wrapped = Unwrapped \/ s.wrapped.under = s.dwk

\* What the desktop keeps for the next unlocking can be opened then.
SessionKeysOpen == SharedItemsOpen /\ WrappedKeyOpens

\* Keys and settings are of their type, and what the desktop keeps for the next
\* unlocking can be opened then (handle_master_key_change, update_settings).
DeviceKeysOpen == DesktopSessionTypeOK /\ SessionKeysOpen
=============================================================================
