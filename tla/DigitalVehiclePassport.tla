------------------------- MODULE DigitalVehiclePassport -------------------------
(***************************************************************************)
(* DigitalVehiclePassport.sol: the soulbound passport a manufacturer mints *)
(* for each vehicle, its status, its assignment to a dealer, and the       *)
(* owner's authorisation of one scrap centre.  VIN hashes are unique, so a *)
(* vehicle and its passport are the same value.                            *)
(***************************************************************************)
EXTENDS OwnershipToken

CONSTANTS
    Mfgs,            \* manufacturers
    ScrapCentres     \* scrap centres

ASSUME PassportAssumption == Nobody \notin ScrapCentres /\ Nobody \notin Dealers

VARIABLES
    mfgStatus,       \* status of each manufacturer
    scrapStatus,     \* status of each scrap centre
    passport,        \* passports: status and manufacturer
    vehicleDealer,   \* vehicleDealer
    authorizedScrap, \* authorizedScrapCenter
    authorizedBy     \* history: the owner named by the last ScrapAuthorized event

dvpVars == <<mfgStatus, scrapStatus, passport, vehicleDealer,
             authorizedScrap, authorizedBy>>

(* "NONE" is the zero passport (tokenId = 0), whose status reads NOT_REG.   *)
PassportStatus == {"NONE", "NOT_REG", "ACTIVE", "SCRAPPED"}

DvpTypeOK ==
    /\ mfgStatus \in [Mfgs -> EntityStatus]
    /\ scrapStatus \in [ScrapCentres -> EntityStatus]
    /\ passport \in [Vehicles -> [status : PassportStatus, mfg : Mfgs \cup {Nobody}]]
    /\ vehicleDealer \in [Vehicles -> Dealers \cup {Nobody}]
    /\ authorizedScrap \in [Vehicles -> ScrapCentres \cup {Nobody}]
    /\ authorizedBy \in [Vehicles -> Owners]

DvpInit ==
    /\ mfgStatus = [m \in Mfgs |-> InitialStatus(m)]
    /\ scrapStatus = [s \in ScrapCentres |-> InitialStatus(s)]
    /\ passport = [d \in Vehicles |-> [status |-> "NONE", mfg |-> Nobody]]
    /\ vehicleDealer = [d \in Vehicles |-> Nobody]
    /\ authorizedScrap = [d \in Vehicles |-> Nobody]
    /\ authorizedBy = [d \in Vehicles |-> Nobody]

DvpExists(d) == passport[d].status # "NONE"

-----------------------------------------------------------------------------
(* Transactions of this contract alone                                      *)

AdminMfg(m) ==
    /\ mfgStatus' = AdminCall(mfgStatus, m)
    /\ UNCHANGED <<scrapStatus, passport, vehicleDealer, authorizedScrap, authorizedBy>>

AdminScrapCentre(s) ==
    /\ scrapStatus' = AdminCall(scrapStatus, s)
    /\ UNCHANGED <<mfgStatus, passport, vehicleDealer, authorizedScrap, authorizedBy>>

Manufacture(m, d) ==
    /\ mfgStatus[m] = "active"
    /\ ~DvpExists(d)
    /\ passport' = [passport EXCEPT ![d] = [status |-> "NOT_REG", mfg |-> m]]
    /\ UNCHANGED <<mfgStatus, scrapStatus, vehicleDealer, authorizedScrap, authorizedBy>>

(* A deactivated manufacturer may still assign the vehicles it made.        *)
AssignToDealer(m, d, dl) ==
    /\ mfgStatus[m] # "unregistered"
    /\ passport[d].status = "NOT_REG"
    /\ passport[d].mfg = m
    /\ vehicleDealer' = [vehicleDealer EXCEPT ![d] = dl]
    /\ UNCHANGED <<mfgStatus, scrapStatus, passport, authorizedScrap, authorizedBy>>

(* The caller is compared with owns[].owner, read through OwnershipToken.   *)
AuthorizeScrap(u, d, s) ==
    /\ passport[d].status = "ACTIVE"
    /\ IsRegistered(d)
    /\ CurrentOwner(d) = u
    /\ scrapStatus[s] = "active"
    /\ authorizedScrap' = [authorizedScrap EXCEPT ![d] = s]
    /\ authorizedBy' = [authorizedBy EXCEPT ![d] = u]
    /\ UNCHANGED <<mfgStatus, scrapStatus, passport, vehicleDealer>>

-----------------------------------------------------------------------------
(* Local parts of the transactions that span contracts                      *)

(* Called by OwnershipToken.register                                        *)
ActivateVehicle(d) ==
    /\ DvpExists(d)
    /\ passport[d].status # "SCRAPPED"
    /\ passport' = [passport EXCEPT ![d].status = "ACTIVE"]
    /\ UNCHANGED <<mfgStatus, scrapStatus, vehicleDealer, authorizedScrap, authorizedBy>>

(* scrapVehicle: the checks on this contract's storage, then the update     *)
MayScrap(s, d) ==
    /\ scrapStatus[s] = "active"
    /\ passport[d].status = "ACTIVE"
    /\ authorizedScrap[d] = s

MarkScrapped(d) ==
    /\ passport' = [passport EXCEPT ![d].status = "SCRAPPED"]
    /\ authorizedScrap' = [authorizedScrap EXCEPT ![d] = Nobody]
    /\ UNCHANGED <<mfgStatus, scrapStatus, vehicleDealer, authorizedBy>>
=============================================================================
