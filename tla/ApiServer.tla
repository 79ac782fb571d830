----------------------------- MODULE ApiServer -----------------------------
(***************************************************************************)
(* Parts of the API server that keep tables of their own and share no      *)
(* state: the tokens of AuthTokens, and beside them native logins          *)
(* (NativeLogin), SSH host keys (HostKeys) and settings (Settings).  Each  *)
(* is an instance with variables and bounds of its own, and what it        *)
(* promises has its name here.                                             *)
(***************************************************************************)
EXTENDS AuthTokens

CONSTANTS Nobody,
          Assets, Accounts, Passwords, AssetOf, MaxChanges,    \* NativeLogin
          Algorithms, Proxies, MaxKeyRequests,                 \* HostKeys
          SettingKeys, SecretKeys, TypedValues, MaxSettingRequests \* Settings

\* EnsureDefaults goes through the algorithms from the first to the last.
ASSUME AlgorithmsType == /\ IsFiniteSet(Algorithms) /\ Algorithms # {}
                         /\ Algorithms = 1..Cardinality(Algorithms)
\* BootstrapDefaults goes through the settings from the first on.
ASSUME SettingKeysType == 1 \in SettingKeys
ASSUME RequestsType == MaxKeyRequests \in Nat /\ MaxSettingRequests \in Nat

VARIABLES
    status, credential, connect, secret, resolving, route, given, changes,
    held,
    keys, lastId, listing, at, client, mine, offered, asks, shown, together,
    table, serving, setting, key, asked, read, requests, overtaken

Native == INSTANCE NativeLogin WITH pc <- resolving, req <- route

Host == INSTANCE HostKeys WITH
    MaxRequests <- MaxKeyRequests,
    table <- keys, pc <- listing, requests <- asks

Stored == INSTANCE Settings WITH
    Keys <- SettingKeys, Secrets <- SecretKeys, Values <- TypedValues,
    MaxRequests <- MaxSettingRequests, pc <- setting, at <- key

-----------------------------------------------------------------------------
(* Properties *)

\* See NativeLogin: a login without every condition met.
NoTargetWhileDenied == Native!NoTargetWhileDenied
\* See HostKeys: users see one fingerprint.
OneFingerprint == Host!OneFingerprint
\* See Settings: who may change a stored value.
ValueKept == Stored!ValueKept
=============================================================================
