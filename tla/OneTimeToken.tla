---------------------------- MODULE OneTimeToken ----------------------------
(***************************************************************************)
(* What the connection-token service promises, without saying how: a       *)
(* token is minted once, a one-time token serves at most one connection,   *)
(* and a token that was withdrawn with its user, asset or account never    *)
(* comes back.  ConnectionToken implements this specification.             *)
(***************************************************************************)
EXTENDS Naturals

CONSTANTS Tokens    \* the values a token can have (UUIDs)

VARIABLES state,    \* [Tokens -> States]
          served    \* [Tokens -> Nat]: connections a one-time token paid for

vars == <<state, served>>

\* "open": a one-time token nobody has redeemed; "many": a reusable one.
States == {"unminted", "open", "many", "spent", "withdrawn"}

TypeOK == /\ state \in [Tokens -> States]
          /\ served \in [Tokens -> Nat]

Init == /\ state = [t \in Tokens |-> "unminted"]
        /\ served = [t \in Tokens |-> 0]

Mint(t, kind) == /\ state[t] = "unminted"
                 /\ state' = [state EXCEPT ![t] = kind]
                 /\ UNCHANGED served

Redeem(t) == /\ state[t] = "open"
             /\ state' = [state EXCEPT ![t] = "spent"]
             /\ served' = [served EXCEPT ![t] = @ + 1]

\* Deleting a user, an asset or an account takes all its tokens with it.
Withdraw(S) ==
    /\ \A t \in S : state[t] # "unminted"
    /\ state' = [t \in Tokens |-> IF t \in S THEN "withdrawn" ELSE state[t]]
    /\ UNCHANGED served

Next == \/ \E t \in Tokens, kind \in {"open", "many"} : Mint(t, kind)
        \/ \E t \in Tokens : Redeem(t)
        \/ \E S \in SUBSET Tokens : Withdraw(S)

Spec == Init /\ [][Next]_vars

=============================================================================
