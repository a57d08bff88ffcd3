------------------------------ MODULE TitleMirror ------------------------------
(***************************************************************************)
(* One vehicle in the database, from manufacture to scrap: the services of *)
(* manufacturer, dealer, RTO and scrap centre, the indexer's handlers of   *)
(* DigitalVehiclePassport and OwnershipToken and the sweep. The dealer's   *)
(* trade certificate, fines and loans, which the gas estimate tests too,   *)
(* are left out.                                                           *)
(***************************************************************************)
EXTENDS Relay

CONSTANTS
    MaxOwners,    \* bound: successive owners
    MaxTransfers  \* bound: transfers requested

ASSUME TitleMirrorAssumption == MaxOwners \in Nat \ {0} /\ MaxTransfers \in Nat

VARIABLES
    car,       \* the two contracts: status, dealer, consent to scrap, owner
    deed,      \* OwnershipToken: what became of each transfer
    echo,      \* events of citizens' transactions, and StatusChange, unhandled
    vehicle,   \* VehiclePassport row
    title,     \* VehicleOwnership row
    asked,     \* RegistrationRequest.status
    deal       \* TransferRequest rows

titleRest == <<car, deed, echo, vehicle, title, asked, deal>>
titleVars == <<relayVars, titleRest>>

Transfers == 1 .. MaxTransfers
CarStatus == {"none", "NOT_REG", "ACTIVE", "SCRAPPED"}

NoVehicle == [status |-> "none", dvp |-> FALSE, dealer |-> "none", allowed |-> FALSE]
NoTitle == [made |-> FALSE, active |-> FALSE, owner |-> 0, wallet |-> "none"]
NoDeal == [status |-> "absent", sellerOK |-> FALSE, buyerOK |-> FALSE]

(* The vehicle as the run finds it: unknown, made and perhaps assigned, or  *)
(* registered; the database agrees.                                         *)
TitleInit ==
    /\ RelayInit
    /\ \/ /\ car = [status |-> "none", dealer |-> FALSE, consent |-> FALSE, owner |-> 0]
          /\ vehicle = NoVehicle /\ title = NoTitle /\ asked = "absent"
       \/ \E d \in BOOLEAN :
            /\ car = [status |-> "NOT_REG", dealer |-> d, consent |-> FALSE, owner |-> 0]
            /\ vehicle = [status |-> "NOT_REG", dvp |-> TRUE, allowed |-> FALSE,
                          dealer |-> IF d THEN "lower" ELSE "none"]
            /\ title = NoTitle /\ asked = "absent"
       \/ /\ car = [status |-> "ACTIVE", dealer |-> TRUE, consent |-> FALSE, owner |-> 1]
          /\ vehicle = [status |-> "ACTIVE", dvp |-> TRUE, dealer |-> "lower", allowed |-> FALSE]
          /\ title = [made |-> TRUE, active |-> TRUE, owner |-> 1, wallet |-> "lower"]
          /\ asked = "APPROVED"
    /\ deed = [q \in Transfers |-> "none"] /\ echo = {}
    /\ deal = [q \in Transfers |-> NoDeal]

TitleOps == {"manufacture", "assignToDealer", "register", "scrapVehicle"}

TitleTx == [op : TitleOps \cup {"none"}, id : {0}, by : {0}, link : {0, 1},
            chain : {"unsent", "pool", "mined", "reverted"}, call : {"idle", "sent"},
            row : {"absent", "PENDING", "MINED", "FAILED"},
            event : {"none", "ready", "read", "applied", "handled", "lost"}, seen : {0}]

Echoes ==
    [ev : {"StatusChange"}, to : CarStatus, q : {0}, owner : {0}]
      \cup [ev : {"ScrapAuthorized"}, to : {"none"}, q : {0}, owner : {0}]
      \cup [ev : {"XferInit", "SellerOK", "BuyerOK", "RtoOK", "XferCancelled", "XferDone"},
            to : {"none"}, q : Transfers, owner : 0 .. MaxOwners]

TitleTypeOK ==
    /\ tx \in [Txs -> TitleTx]
    /\ sweep \in Txs \cup {0} /\ crashes \in 0 .. MaxCrashes /\ losses \in 0 .. MaxLosses
    /\ car \in [status : CarStatus, dealer : BOOLEAN, consent : BOOLEAN, owner : 0 .. MaxOwners]
    /\ deed \in [Transfers -> {"none", "asked", "accepted", "done", "cancelled"}]
    /\ echo \subseteq Echoes
    /\ vehicle \in [status : CarStatus, dvp : BOOLEAN, dealer : {"none", "lower", "mixed"},
                    allowed : BOOLEAN]
    /\ title \in [made : BOOLEAN, active : BOOLEAN, owner : 0 .. MaxOwners,
                  wallet : {"none", "lower", "mixed"}]
    /\ asked \in {"absent", "PENDING", "APPROVED"}
    /\ deal \in [Transfers -> [status : {"absent", "PENDING", "BUYER_ACCEPTED", "RTO_APPROVED",
                                         "CANCELLED"}, sellerOK : BOOLEAN, buyerOK : BOOLEAN]]

-----------------------------------------------------------------------------
(* The chain; also what a gas estimate tests                                *)

OpenTransfers == {q \in Transfers : deed[q] \in {"asked", "accepted"}}

TitleAccepts(op) ==
    CASE op = "manufacture"    -> car.status = "none"
      [] op = "assignToDealer" -> car.status = "NOT_REG"
      [] op = "register"       -> car.status = "NOT_REG" /\ car.dealer
      [] OTHER                 -> car.status = "ACTIVE" /\ car.consent /\ OpenTransfers = {}

Said(ev, q, owner) == [ev |-> ev, to |-> "none", q |-> q, owner |-> owner]
StatusSaid(s) == [Said("StatusChange", 0, 0) EXCEPT !.to = s]

MineTitle(t) ==
    /\ tx[t].chain = "pool" /\ TitleAccepts(tx[t].op)
    /\ \/ /\ tx[t].op = "manufacture"
          /\ car' = [car EXCEPT !.status = "NOT_REG"] /\ UNCHANGED echo
       \/ /\ tx[t].op = "assignToDealer"
          /\ car' = [car EXCEPT !.dealer = TRUE] /\ UNCHANGED echo
       \/ /\ tx[t].op = "register"
          /\ car' = [car EXCEPT !.status = "ACTIVE", !.owner = 1]
          /\ echo' = echo \cup {StatusSaid("ACTIVE")}
       \/ /\ tx[t].op = "scrapVehicle"
          /\ car' = [car EXCEPT !.status = "SCRAPPED", !.consent = FALSE]
          /\ echo' = echo \cup {StatusSaid("SCRAPPED")}
    /\ Mined(t, 0)
    /\ UNCHANGED <<deed, vehicle, title, asked, deal>>

TitleTxReverts(t) ==
    /\ TxReverts(t)
    /\ UNCHANGED titleRest

(* A citizen's wallet, or an RTO's for the last approval                    *)
WalletSays(said) ==
    /\ echo' = echo \cup said
    /\ UNCHANGED <<relayVars, vehicle, title, asked, deal>>

InitTransfer(q) ==
    /\ car.status = "ACTIVE" /\ OpenTransfers = {}
    /\ deed[q] = "none" /\ \A p \in 1 .. q - 1 : deed[p] # "none"
    /\ deed' = [deed EXCEPT ![q] = "asked"]
    /\ WalletSays({Said("XferInit", q, 0), Said("SellerOK", q, 0)})
    /\ UNCHANGED car

AcceptTransfer(q) ==
    /\ deed[q] = "asked" /\ deed' = [deed EXCEPT ![q] = "accepted"]
    /\ WalletSays({Said("BuyerOK", q, 0)})
    /\ UNCHANGED car

CancelTransfer(q) ==
    /\ q \in OpenTransfers /\ deed' = [deed EXCEPT ![q] = "cancelled"]
    /\ WalletSays({Said("XferCancelled", q, 0)})
    /\ UNCHANGED car

CompleteTransfer(q) ==
    /\ deed[q] = "accepted" /\ car.owner < MaxOwners
    /\ deed' = [deed EXCEPT ![q] = "done"]
    /\ car' = [car EXCEPT !.owner = @ + 1]
    /\ WalletSays({Said("RtoOK", q, 0), Said("XferDone", q, car'.owner)})

AuthorizeScrap ==
    /\ car.status = "ACTIVE" /\ ~car.consent
    /\ car' = [car EXCEPT !.consent = TRUE]
    /\ WalletSays({Said("ScrapAuthorized", 0, 0)})
    /\ UNCHANGED deed

-----------------------------------------------------------------------------
(* The services                                                             *)

RequestTitle(t, op, link) ==
    /\ TitleAccepts(op)
    /\ SubmitEntityTx(t, op, 0, 0, link)
    /\ UNCHANGED titleRest

ManufactureVehicle(t) == vehicle = NoVehicle /\ RequestTitle(t, "manufacture", 0)

(* vinHash is unique: the row of the second of two requests fails.          *)
CreateDraftVehicle(t) ==
    /\ Storing(t, "manufacture") /\ vehicle = NoVehicle
    /\ StoreTx(t, 1)
    /\ vehicle' = [NoVehicle EXCEPT !.status = "NOT_REG"]
    /\ UNCHANGED <<car, deed, echo, title, asked, deal>>

DraftRefused(t) ==
    /\ Storing(t, "manufacture") /\ vehicle # NoVehicle
    /\ tx' = [tx EXCEPT ![t].call = "idle"]
    /\ UNCHANGED <<sweep, crashes, losses, titleRest>>

InStock == vehicle.dvp /\ vehicle.status = "NOT_REG"

AssignToDealer(t) ==
    /\ InStock
    /\ ~\E s \in Txs : tx[s].op = "assignToDealer" /\ tx[s].row = "PENDING"
    /\ RequestTitle(t, "assignToDealer", 1)

(* The dealer's wallet, lower-cased, is looked for in the row.              *)
InInventory == InStock /\ vehicle.dealer = "lower"

CreateSaleRequest ==
    /\ InInventory /\ asked = "absent" /\ asked' = "PENDING"
    /\ UNCHANGED <<relayVars, car, deed, echo, vehicle, title, deal>>

RegisterVehicle(t) == InStock /\ asked = "PENDING" /\ RequestTitle(t, "register", 1)

(* checkEligibility and scrapVehicle                                        *)
ScrapVehicle(t) ==
    /\ vehicle.status = "ACTIVE" /\ title.made
    /\ \A q \in Transfers : deal[q].status # "PENDING"
    /\ RequestTitle(t, "scrapVehicle", 1)

(* Fault: the vehicle is shown scrapped before its transaction is mined.    *)
CreateScrapTxEarly(t) ==
    /\ tx[t].call = "sent" /\ tx[t].op \in TitleOps \ {"manufacture"}
    /\ StoreTx(t, tx[t].link)
    /\ vehicle' = [vehicle EXCEPT !.status = IF tx[t].op = "scrapVehicle" THEN "SCRAPPED" ELSE @]
    /\ UNCHANGED <<car, deed, echo, title, asked, deal>>

CreateTitleTx(t) ==
    /\ tx[t].call = "sent" /\ tx[t].op \in TitleOps \ {"manufacture"}
    /\ StoreTx(t, tx[t].link)
    /\ UNCHANGED titleRest

CreateAssignmentTx(t) == tx[t].op = "assignToDealer" /\ CreateTitleTx(t)
CreateVehicleRegTx(t) == tx[t].op = "register" /\ CreateTitleTx(t)
CreatePendingScrapTx(t) == tx[t].op = "scrapVehicle" /\ CreateTitleTx(t)

-----------------------------------------------------------------------------
(* The indexer. Apart from handleVehicleMfg, handlers look the vehicle up   *)
(* by its on-chain id and do nothing without it.                            *)

Reads(t, op) ==
    /\ Arrived(t, op) /\ AppliedBy(t)
    /\ UNCHANGED <<car, deed, echo, deal>>

HandleVehicleMfg(t) ==
    /\ Reads(t, "manufacture")
    /\ vehicle' = IF vehicle = NoVehicle
                  THEN [NoVehicle EXCEPT !.status = "NOT_REG", !.dvp = TRUE]
                  ELSE [vehicle EXCEPT !.dvp = TRUE]
    /\ UNCHANGED <<title, asked>>

HandleVehicleAssigned(t) ==
    /\ Reads(t, "assignToDealer")
    /\ vehicle' = [vehicle EXCEPT !.dealer = IF vehicle.dvp THEN "lower" ELSE @]
    /\ UNCHANGED <<title, asked>>

(* The title is upserted with the owner the event names, the vehicle ACTIVE *)
(* whatever it was.                                                         *)
HandleVehicleReg(t) ==
    /\ Reads(t, "register")
    /\ IF vehicle.dvp
       THEN /\ vehicle' = [vehicle EXCEPT !.status = "ACTIVE"]
            /\ title' = [made |-> TRUE, owner |-> 1, wallet |-> "lower",
                         active |-> title.made => title.active]
            /\ asked' = IF asked = "PENDING" THEN "APPROVED" ELSE asked
       ELSE UNCHANGED <<vehicle, title, asked>>

HandleVehicleScrapped(t) ==
    /\ Reads(t, "scrapVehicle")
    /\ IF vehicle.dvp
       THEN /\ vehicle' = [vehicle EXCEPT !.status = "SCRAPPED", !.allowed = FALSE]
            /\ title' = [title EXCEPT !.active = FALSE]
       ELSE UNCHANGED <<vehicle, title>>
    /\ UNCHANGED asked

Hears(e, ev) ==
    /\ e \in echo /\ e.ev = ev /\ echo' = echo \ {e}
    /\ UNCHANGED <<relayVars, car, deed, asked>>

HandleStatusChange(e) ==
    /\ Hears(e, "StatusChange")
    /\ vehicle' = [vehicle EXCEPT !.status = IF vehicle.dvp THEN e.to ELSE @]
    /\ UNCHANGED <<title, deal>>

HandleScrapAuthorized(e) ==
    /\ Hears(e, "ScrapAuthorized")
    /\ vehicle' = [vehicle EXCEPT !.allowed = vehicle.dvp]
    /\ UNCHANGED <<title, deal>>

(* An upsert by reqId, which sets no approval                               *)
HandleXferInit(e) ==
    /\ Hears(e, "XferInit")
    /\ deal' = [deal EXCEPT ![e.q].status = IF title.made THEN "PENDING" ELSE @]
    /\ UNCHANGED <<vehicle, title>>

DealStatus == [SellerOK |-> "PENDING", BuyerOK |-> "BUYER_ACCEPTED", RtoOK |-> "RTO_APPROVED"]

HandleXferApproved(e) ==
    /\ e.ev \in DOMAIN DealStatus /\ Hears(e, e.ev)
    /\ deal' = [deal EXCEPT ![e.q].status = IF @ = "absent" THEN @ ELSE DealStatus[e.ev]]
    /\ UNCHANGED <<vehicle, title>>

HandleXferCancelled(e) ==
    /\ Hears(e, "XferCancelled")
    /\ deal' = [deal EXCEPT ![e.q].status = IF @ = "absent" THEN @ ELSE "CANCELLED"]
    /\ UNCHANGED <<vehicle, title>>

HandleXferDone(e) ==
    /\ Hears(e, "XferDone")
    /\ title' = IF title.made THEN [title EXCEPT !.owner = e.owner, !.wallet = "lower"] ELSE title
    /\ UNCHANGED <<vehicle, deal>>

LoseEcho(e) ==
    /\ e \in echo /\ losses < MaxLosses
    /\ echo' = echo \ {e} /\ losses' = losses + 1
    /\ UNCHANGED <<tx, sweep, crashes, car, deed, vehicle, title, asked, deal>>

-----------------------------------------------------------------------------
(* The sweep. Wallets are stored as the receipt spells them.                *)

Sweeps(t, op) ==
    /\ FoundMined(t, op) /\ Replayed(t)
    /\ UNCHANGED <<car, deed, echo, deal>>

ReplayMint(t) ==
    /\ Sweeps(t, "manufacture")
    /\ vehicle' = [vehicle EXCEPT !.dvp = TRUE, !.status = "NOT_REG"]
    /\ UNCHANGED <<title, asked>>

ReplayAssign(t) ==
    /\ Sweeps(t, "assignToDealer")
    /\ vehicle' = [vehicle EXCEPT !.dealer = "mixed"]
    /\ UNCHANGED <<title, asked>>

(* A second title of the vehicle cannot be created: the replay fails.       *)
ReplayRegister(t) ==
    /\ Sweeps(t, "register") /\ ~title.made
    /\ title' = [made |-> TRUE, active |-> TRUE, owner |-> 1, wallet |-> "mixed"]
    /\ vehicle' = [vehicle EXCEPT !.status = "ACTIVE"]
    /\ asked' = IF asked = "PENDING" THEN "APPROVED" ELSE asked

ReplayScrap(t) ==
    /\ Sweeps(t, "scrapVehicle")
    /\ vehicle' = [vehicle EXCEPT !.status = "SCRAPPED"]
    /\ title' = [title EXCEPT !.active = FALSE]
    /\ UNCHANGED asked

RollsBack(t, op) ==
    /\ RollingBack(t, op)
    /\ sweep' = 0
    /\ UNCHANGED <<crashes, losses, car, deed, echo>>

(* The vehicle goes, with all that refers to it.                            *)
RollBackMint(t) ==
    /\ RollsBack(t, "manufacture")
    /\ vehicle' = NoVehicle /\ title' = NoTitle /\ asked' = "absent"
    /\ deal' = [q \in Transfers |-> NoDeal]
    /\ tx' = Cascaded({1})

RollBackAssign(t) ==
    /\ RollsBack(t, "assignToDealer")
    /\ vehicle' = [vehicle EXCEPT !.dealer = "none"]
    /\ UNCHANGED <<tx, title, asked, deal>>

(* It asks for an ownershipId, which no registration has.                   *)
RollBackRegister(t) ==
    /\ RollsBack(t, "register") /\ UNCHANGED <<tx, vehicle, title, asked, deal>>

RollBackScrap(t) ==
    /\ RollsBack(t, "scrapVehicle")
    /\ vehicle' = [vehicle EXCEPT !.status = "ACTIVE"]
    /\ UNCHANGED <<tx, title, asked, deal>>

-----------------------------------------------------------------------------
TitleRequest(t) ==
    ManufactureVehicle(t) \/ AssignToDealer(t) \/ RegisterVehicle(t) \/ ScrapVehicle(t)

TitleStore(t) ==
    \/ CreateDraftVehicle(t) \/ DraftRefused(t)
    \/ CreateAssignmentTx(t) \/ CreateVehicleRegTx(t) \/ CreatePendingScrapTx(t)

CitizenStep ==
    \/ CreateSaleRequest \/ AuthorizeScrap
    \/ \E q \in Transfers :
         InitTransfer(q) \/ AcceptTransfer(q) \/ CancelTransfer(q) \/ CompleteTransfer(q)

TitleHandle(t) ==
    \/ HandleVehicleMfg(t) \/ HandleVehicleAssigned(t) \/ HandleVehicleReg(t)
    \/ HandleVehicleScrapped(t)

EchoHandle ==
    \E e \in echo :
        \/ HandleStatusChange(e) \/ HandleScrapAuthorized(e) \/ HandleXferInit(e)
        \/ HandleXferApproved(e) \/ HandleXferCancelled(e) \/ HandleXferDone(e)
        \/ LoseEcho(e)

TitleReplay(t) == ReplayMint(t) \/ ReplayAssign(t) \/ ReplayRegister(t) \/ ReplayScrap(t)

TitleRollBack(t) ==
    RollBackMint(t) \/ RollBackAssign(t) \/ RollBackRegister(t) \/ RollBackScrap(t)

TitleNext ==
    \/ \E t \in Txs :
         \/ TitleRequest(t) \/ TitleStore(t) \/ MineTitle(t) \/ TitleTxReverts(t)
         \/ TitleHandle(t) \/ TitleReplay(t) \/ TitleRollBack(t)
         \/ RelayStep(t) /\ UNCHANGED titleRest
    \/ CitizenStep
    \/ EchoHandle
    \/ Crash /\ UNCHANGED titleRest

TitleSpec == TitleInit /\ [][TitleNext]_titleVars

-----------------------------------------------------------------------------
(* Properties                                                               *)

(* Events handled in any order, twice or never, replays of old transactions *)
(* and roll-backs of others may leave the vehicle behind the chain, but not *)
(* ahead of it: no row shows a step of its life that has not happened.      *)
TitleNotAhead ==
    /\ vehicle.dvp => car.status # "none"
    /\ vehicle.dealer # "none" => car.dealer
    /\ vehicle.status = "ACTIVE" \/ title.made \/ asked = "APPROVED" => car.owner > 0
    /\ vehicle.status = "SCRAPPED" \/ (title.made /\ ~title.active) => car.status = "SCRAPPED"
    /\ title.owner <= car.owner
    /\ \A q \in Transfers :
         /\ deal[q].status = "RTO_APPROVED" => deed[q] = "done"
         /\ deal[q].status = "CANCELLED" => deed[q] = "cancelled"

=============================================================================
