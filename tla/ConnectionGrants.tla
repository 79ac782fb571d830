-------------------------- MODULE ConnectionGrants --------------------------
(***************************************************************************)
(* Connection tokens and what they are granted by.  ConnectionToken asks   *)
(* Store.HasAssetPermission for one answer, the relation connect; the      *)
(* tables that answer it and the requests that edit them are an instance   *)
(* of AssetGrants, with variables and bounds of its own, and what it       *)
(* promises has its name here.                                             *)
(***************************************************************************)
EXTENDS ConnectionToken

CONSTANTS Groups, Nodes, NamedAccounts, Permissions,
          MemberOf, Parent, AccountAsset, PermissionInputs, AssetInputs,
          MaxEdits, LastDay

VARIABLES
    assets, accounts, rule, links, users, created, today, doing, request, row,
    requests, secrets, asked

Tables == INSTANCE AssetGrants WITH
    Accounts <- NamedAccounts, AssetOf <- AccountAsset,
    Inputs <- PermissionInputs, MaxRequests <- MaxEdits, MaxTime <- LastDay,
    now <- today

\* What a request about a permission or an asset may carry.
ASSUME InputsType ==
    \A in \in PermissionInputs :
       /\ in.active \in Tables!Given /\ in.actions \in SUBSET STRING
       /\ in.from \in Int /\ in.until \in Int
       /\ Tables!permissionLinks(in) \in Tables!Links
ASSUME AssetInputsType ==
    \A in \in AssetInputs :
       in.node \in Nodes \union {NoRow} /\ in.active \in Tables!Given
ASSUME AccountAssetType == AccountAsset \in [NamedAccounts -> Assets]
ASSUME RowsType == NoRow \notin Tables!AssetRows \union Tables!AccountRows
ASSUME EditsType == MaxEdits \in Nat /\ LastDay \in Nat

-----------------------------------------------------------------------------
(* Properties *)

\* See AssetGrants: a permission is linked with all its last edit asked for.
LinkedAsAsked == Tables!LinkedAsAsked
\* See AssetGrants: what widens a permission.
GrantsGrowByEdit == Tables!GrantsGrowByEdit
\* See AssetGrants: how a rotated secret or a withdrawn account comes back.
RevertNeedsOverlap == Tables!RevertNeedsOverlap
=============================================================================
