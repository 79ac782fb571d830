---------------------------- MODULE MCAuthTokens ----------------------------
(* An instance of ApiServer for TLC.  Its parts are checked side by side: a   *)
(* behaviour runs one and leaves the others idle.                             *)
EXTENDS ApiServer, TLC

CONSTANTS u1, w1, w2, s1, s2, c1, k1, k2, x1, x2

MCUsers == {u1}
TwoWorkers == {w1, w2}

\* Native logins: two passwords, an account, and an asset it does not belong to.
TwoAssets == {s1, s2}
OneAccount == {c1}
TwoPasswords == {k1, k2}
MCAssetOf == (c1 :> s1)

\* Host keys: two algorithms and two SSH proxies.
TwoAlgorithms == 1..2
TwoProxies == {x1, x2}

\* Settings: one anybody may see and a secret.
TwoSettings == 1..2
OneSecret == {2}
OneTyped == {"typed"}

\* Tokens and one MFA set-up; or everything that writes a user's row.
Regimes == \/ setups <= 1 /\ passwords = 0
           \/ logins = 0

VARIABLE part

loginVars == <<status, credential, connect, secret, resolving, route, given,
               changes, held>>
keyVars == <<keys, lastId, listing, at, client, mine, offered, asks, shown,
             together>>
settingVars == <<table, serving, setting, key, asked, read, requests,
                 overtaken>>

MCInit ==
    /\ part \in {"tokens", "login", "keys", "settings"}
    /\ Init /\ Native!Init /\ Host!Init /\ Stored!Init

MCNext ==
    /\ UNCHANGED part
    /\ \/ /\ part = "tokens" /\ Next
          /\ UNCHANGED <<loginVars, keyVars, settingVars>>
       \/ /\ part = "login" /\ Native!Next
          /\ UNCHANGED <<vars, keyVars, settingVars>>
       \/ /\ part = "keys" /\ Host!Next
          /\ UNCHANGED <<vars, loginVars, settingVars>>
       \/ /\ part = "settings" /\ Stored!Next
          /\ UNCHANGED <<vars, loginVars, keyVars>>

MCSpec == MCInit /\ [][MCNext]_<<part, vars, loginVars, keyVars, settingVars>>

SymmetricWorkers == Permutations(TwoWorkers)
=============================================================================
