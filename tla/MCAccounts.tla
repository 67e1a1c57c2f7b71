----------------------------- MODULE MCAccounts -----------------------------
(***************************************************************************)
(* One instance of Accounts and PersonalVault: the requests that end in a  *)
(* session, and the devices that make the key of the personal vault after  *)
(* the login.  They share no state; part says which of them moves.         *)
(***************************************************************************)
EXTENDS Accounts, PersonalVault

VARIABLE part

accountRunVars == <<part, accountVars, deskVars>>

\* What is interleaved with what by the callers.
Menus ==
  { {"register", "create", "login"}, {"login", "oidc"}, {"login", "block", "unblock"},
    {"auth", "block", "unblock"}, {"refresh", "auth", "delete"}, {"change", "reset"},
    {"update_me", "recovery", "change"}, {"refresh", "logout", "revoke_device"},
    {"refresh", "auth", "expire"} }

AccountRunInit ==
  /\ part \in {"accounts", "keys"}
  /\ AccountsInit /\ PersonalVaultInit
  /\ part = "keys" => menu = CHOOSE m \in AccountMenus : TRUE

AccountRunNext ==
  /\ UNCHANGED part
  /\ \/ part = "accounts" /\ AccountsNext /\ UNCHANGED deskVars
     \/ part = "keys" /\ PersonalVaultNext /\ UNCHANGED accountVars

\* AccountsFair and PersonalVaultFairness, each for its part.
AccountRunFair ==
  /\ WF_accountVars(part = "accounts" /\ \E c \in Caller : AccountStep(c))
  /\ WF_deskVars(/\ part = "keys"
                 /\ \E d \in Desk : SyncStep(d) \/ DeskLogin(d) \/ BeginSync(d))

AccountRunSpec == AccountRunInit /\ [][AccountRunNext]_accountRunVars /\ AccountRunFair
=============================================================================
