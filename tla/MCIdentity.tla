----------------------------- MODULE MCIdentity -----------------------------
(***************************************************************************)
(* What belongs to one user or account, for TLC: the account session, the  *)
(* login prompts, the vault, the folder layouts, the settings backup and   *)
(* the supporter licence.  They share no state here, so that a behaviour   *)
(* of the group is a behaviour of the component in focus.                  *)
(***************************************************************************)
EXTENDS MCAccount, PhoneLogin, Vault, FolderLayout, SettingsSync, Supporter

VARIABLE focus  \* the component whose behaviour this is

groupVars == <<vars, phoneVars, vaultVars, layoutVars, settingsVars, supporterVars, focus>>

Holder == [c \in Channels |-> "a"]

IdentityInit ==
  /\ focus \in {"account", "phone", "vault", "layout", "settings", "supporter"}
  /\ Init /\ PhoneInit /\ VaultInit /\ LayoutInit /\ SettingsInit /\ SupporterInit
  /\ focus # "vault" => ~FileExists(vaultDisk)
  /\ focus # "layout" => \A c \in Channels : remote[c] = 0

IdentityNext ==
  \/ /\ focus = "account" /\ Next
     /\ UNCHANGED <<phoneVars, vaultVars, layoutVars, settingsVars, supporterVars, focus>>
  \/ /\ focus = "phone" /\ PhoneNext
     /\ UNCHANGED <<vars, vaultVars, layoutVars, settingsVars, supporterVars, focus>>
  \/ /\ focus = "vault" /\ VaultNext
     /\ UNCHANGED <<vars, phoneVars, layoutVars, settingsVars, supporterVars, focus>>
  \/ /\ focus = "layout" /\ LayoutNext
     /\ UNCHANGED <<vars, phoneVars, vaultVars, settingsVars, supporterVars, focus>>
  \/ /\ focus = "settings" /\ SettingsNext
     /\ UNCHANGED <<vars, phoneVars, vaultVars, layoutVars, supporterVars, focus>>
  \/ /\ focus = "supporter" /\ SupporterNext
     /\ UNCHANGED <<vars, phoneVars, vaultVars, layoutVars, settingsVars, focus>>

IdentitySpec == IdentityInit /\ [][IdentityNext]_groupVars
=============================================================================
