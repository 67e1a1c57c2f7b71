------------------------------ MODULE MCDesktop ------------------------------
(***************************************************************************)
(* What one desktop does, in three parts that share no state: it syncs     *)
(* edits with a server (DeviceSync), logs in to two servers (DesktopLogin) *)
(* and is unlocked and locked (DesktopSession).  part says which of them   *)
(* moves in a behaviour.                                                   *)
(***************************************************************************)
EXTENDS MCDeviceSync, DesktopLogin, DesktopSession

CONSTANTS o1, s1

VARIABLE part

desktopVars == <<part, vars, loginVars, sessionVars>>

\* What is interleaved with the logins of one behaviour.
LoginMix ==
  { {"browser"}, {"path", "edit", "crash"}, {"move", "secrets", "edit"}, {"sync"},
    {"remove", "edit"} }

\* Of the initial states that differ in the names of origins and servers only,
\* one is enough.
NamesFixed == answers[o1] = s1 /\ secrets[s1] = 1

\* The parts that do not move keep one of their initial states.
LoginAtRest ==
  /\ loginMenu = CHOOSE m \in LoginMenus : TRUE
  /\ answers = [o \in Origin |-> s1]
SessionAtRest == salt = 0 /\ envelope = NoKey

DesktopInit ==
  /\ part \in {"sync", "login", "session"}
  /\ Init
  /\ DesktopLoginInit /\ NamesFixed /\ (part # "login" => LoginAtRest)
  /\ DesktopSessionInit /\ (part # "session" => SessionAtRest)

DesktopNext ==
  /\ UNCHANGED part
  /\ \/ part = "sync" /\ Next /\ UNCHANGED <<loginVars, sessionVars>>
     \/ part = "login" /\ DesktopLoginNext /\ UNCHANGED <<vars, sessionVars>>
     \/ part = "session" /\ DesktopSessionNext /\ UNCHANGED <<vars, loginVars>>

\* The fairness of DeviceSync; logins and unlocking depend on the user.
DesktopFair ==
  \A d \in Device : /\ WF_vars(part = "sync" /\ StartSync(d))
                    /\ WF_vars(part = "sync" /\ SyncStep(d))

DesktopSpec == DesktopInit /\ [][DesktopNext]_desktopVars /\ DesktopFair
=============================================================================
