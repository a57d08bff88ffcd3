------------------------------- MODULE TitleLedger -------------------------------
(***************************************************************************)
(* What the contracts promise about title, with the contracts left out:    *)
(* each vehicle is granted once, changes hands only from its holder to a   *)
(* person who agreed to the holder's standing offer, and ends scrapped, at *)
(* a moment when no offer stands.  VehicleSystem is shown to implement it. *)
(***************************************************************************)
CONSTANTS Vehicles, Users, Nobody

VARIABLES
    state,    \* "untitled", "held" or "scrapped"
    holder,   \* the last holder; Nobody before the grant
    offer     \* the holder's standing offer

ledgerVars == <<state, holder, offer>>

NoOffer == [buyer |-> Nobody, agreed |-> FALSE]

LedgerInit ==
    /\ state = [d \in Vehicles |-> "untitled"]
    /\ holder = [d \in Vehicles |-> Nobody]
    /\ offer = [d \in Vehicles |-> NoOffer]

Grant(d, u) ==
    /\ state[d] = "untitled"
    /\ state' = [state EXCEPT ![d] = "held"]
    /\ holder' = [holder EXCEPT ![d] = u]
    /\ UNCHANGED offer

MakeOffer(d, b) ==
    /\ state[d] = "held" /\ offer[d] = NoOffer /\ b # holder[d]
    /\ offer' = [offer EXCEPT ![d] = [buyer |-> b, agreed |-> FALSE]]
    /\ UNCHANGED <<state, holder>>

Agree(d) ==
    /\ offer[d] # NoOffer
    /\ offer' = [offer EXCEPT ![d] = [buyer |-> offer[d].buyer, agreed |-> TRUE]]
    /\ UNCHANGED <<state, holder>>

Withdraw(d) ==
    /\ offer' = [offer EXCEPT ![d] = NoOffer]
    /\ UNCHANGED <<state, holder>>

Convey(d) ==
    /\ state[d] = "held" /\ offer[d].agreed
    /\ holder' = [holder EXCEPT ![d] = offer[d].buyer]
    /\ offer' = [offer EXCEPT ![d] = NoOffer]
    /\ UNCHANGED state

Scrap(d) ==
    /\ state[d] = "held" /\ offer[d] = NoOffer
    /\ state' = [state EXCEPT ![d] = "scrapped"]
    /\ UNCHANGED <<holder, offer>>

LedgerNext ==
    \E d \in Vehicles :
        \/ \E u \in Users : Grant(d, u) \/ MakeOffer(d, u)
        \/ Agree(d) \/ Withdraw(d) \/ Convey(d) \/ Scrap(d)

LedgerSpec == LedgerInit /\ [][LedgerNext]_ledgerVars
=============================================================================
