---------------------------- MODULE PaymentLedger ----------------------------
(***************************************************************************)
(* What the payments of one organization promise                           *)
(* (subscription-payments.service.ts, subscriptions.service.ts): one       *)
(* payment is open at a time, a closed one never opens again, and each     *)
(* payment or manual reference buys one period, at the end of the chain.   *)
(***************************************************************************)
EXTENDS Sequences

CONSTANTS
  Payment,  \* requests for payment, each with its merchant reference
  Manual,   \* references of grants made by an operator
  Trial     \* the trial given when the organization is created

VARIABLES
  account,  \* account[p]: none, open, closed (refused) or paid
  chain     \* the sources of the periods, in their order

ledger == <<account, chain>>

Granted == {chain[i] : i \in DOMAIN chain}

Init ==
  /\ account = [p \in Payment |-> "none"]
  /\ chain \in {<<>>, <<Trial>>}

Open(p) ==
  /\ account[p] = "none"
  /\ \A q \in Payment : account[q] # "open"
  /\ account' = [account EXCEPT ![p] = "open"]
  /\ UNCHANGED chain

Close(p) ==
  /\ account[p] = "open"
  /\ account' = [account EXCEPT ![p] = "closed"]
  /\ UNCHANGED chain

\* A refusal that the provider reverses is paid too.
Pay(p) ==
  /\ account[p] \in {"open", "closed"} /\ p \notin Granted
  /\ account' = [account EXCEPT ![p] = "paid"]
  /\ chain' = Append(chain, p)

Grant(m) ==
  /\ m \notin Granted
  /\ chain' = Append(chain, m)
  /\ UNCHANGED account

Next ==
  \/ \E p \in Payment : Open(p) \/ Close(p) \/ Pay(p)
  \/ \E m \in Manual : Grant(m)

Spec == Init /\ [][Next]_ledger

=============================================================================
