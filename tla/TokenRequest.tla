---------------------------- MODULE TokenRequest ----------------------------
(***************************************************************************)
(* What a login may rely on when it asks for a Google token: a request is  *)
(* answered at most once, never while its state can still be redeemed, and *)
(* a state can be redeemed once.  It may also expire, be abandoned by its  *)
(* caller, or vanish in a crash of the bot.  The queue, the channels, the  *)
(* clock and the web server that implement this are in module OAuth.       *)
(***************************************************************************)
CONSTANT Requests

VARIABLES
  outcome,     \* outcome[r]: how far request r got
  redeemable   \* the requests whose state a browser can still bring back

vars == <<outcome, redeemable>>

Outcomes == {"unasked", "asked", "token", "error", "timeout", "gone"}

TypeOK == /\ outcome \in [Requests -> Outcomes]
          /\ redeemable \subseteq Requests

Init == /\ outcome = [r \in Requests |-> "unasked"]
        /\ redeemable = {}

Ask(r) == /\ outcome[r] = "unasked"
          /\ outcome' = [outcome EXCEPT ![r] = "asked"]
          /\ redeemable' = redeemable \cup {r}

Redeem(r) == /\ r \in redeemable
             /\ redeemable' = redeemable \ {r}
             /\ UNCHANGED outcome

\* An answer, good or bad, comes only after the state was redeemed.
Answer(r) == /\ outcome[r] = "asked"
             /\ r \notin redeemable
             /\ \E o \in {"token", "error"} : outcome' = [outcome EXCEPT ![r] = o]
             /\ UNCHANGED redeemable

\* The caller stops waiting; the state stays redeemable.
Leave(r) == /\ outcome[r] = "asked"
            /\ \E o \in {"timeout", "gone"} : outcome' = [outcome EXCEPT ![r] = o]
            /\ UNCHANGED redeemable

Crash == /\ outcome' = [r \in Requests |->
                          IF outcome[r] = "asked" THEN "gone" ELSE outcome[r]]
         /\ redeemable' = {}

Next == \/ \E r \in Requests : Ask(r) \/ Redeem(r) \/ Answer(r) \/ Leave(r)
        \/ Crash

Spec == Init /\ [][Next]_vars
=============================================================================
