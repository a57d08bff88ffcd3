----------------------------- MODULE OwnershipToken -----------------------------
(***************************************************************************)
(* OwnershipToken.sol: the title of a vehicle as an ERC-721 token, the two *)
(* party transfer an RTO finalises, and the dealers' trade certificates.   *)
(*                                                                         *)
(* This module holds the contract's storage, its views, the transactions   *)
(* that touch no other contract, and the local part of those that do       *)
(* (register, approveTransfer, deactivateVehicle, attach/detachPendingLoan)*)
(* which VehicleSystem composes with the contracts they call.              *)
(***************************************************************************)
EXTENDS VehicleLib

CONSTANTS
    Vehicles,        \* vehicles, by VIN; a vehicle is also its DVP token
    Users,           \* accounts that may own a vehicle
    CodeAccounts,    \* the users whose account holds contract code
    Dealers,         \* dealer wallets
    RTOs,            \* regional transport offices
    MaxTokens,       \* bound: titles minted
    MaxXfers,        \* bound: completed transfers per title
    XferWindow,      \* 30 days
    MaxTradeCert     \* 365 days

ASSUME OwnershipAssumption ==
    /\ MaxTokens \in Nat /\ MaxXfers \in Nat
    /\ XferWindow \in Nat /\ MaxTradeCert \in Nat
    /\ Nobody \notin Users /\ Nobody \notin Vehicles

VARIABLES
    rto,         \* status of each RTO
    tradeCert,   \* tradeCerts: the current certificate of each dealer
    tokenCtr,    \* _tokenCtr
    own,         \* owns
    dvpToOwn,    \* dvpToOwn; 0 when the vehicle has no title
    nft,         \* ERC-721 owner of each title
    xfer,        \* activeXfer; the zero struct when there is none
    hasXfer      \* hasActiveXfer

ownershipVars == <<rto, tradeCert, tokenCtr, own, dvpToOwn, nft, xfer, hasXfer>>

Tokens == 1 .. MaxTokens
Owners == Users \cup {Nobody}

OwnRecord == [dvp : Vehicles \cup {Nobody}, owner : Owners,
              active : BOOLEAN, xferCnt : 0 .. MaxXfers]
NoOwn     == [dvp |-> Nobody, owner |-> Nobody, active |-> FALSE, xferCnt |-> 0]

(* reqId # 0 is "exists"; bankId is the pending loan's bank, 0 if none.     *)
XferRecord == [exists : BOOLEAN, seller : Owners, buyer : Owners, date : Clock,
               sellerOK : BOOLEAN, buyerOK : BOOLEAN,
               hasPendingLoan : BOOLEAN, bankId : Nat]
NoXfer     == [exists |-> FALSE, seller |-> Nobody, buyer |-> Nobody, date |-> 0,
               sellerOK |-> FALSE, buyerOK |-> FALSE,
               hasPendingLoan |-> FALSE, bankId |-> 0]

OwnershipTypeOK ==
    /\ rto \in [RTOs -> EntityStatus]
    /\ tradeCert \in [Dealers -> [validTill : Dates, active : BOOLEAN]]
    /\ tokenCtr \in 0 .. MaxTokens
    /\ own \in [Tokens -> OwnRecord]
    /\ dvpToOwn \in [Vehicles -> 0 .. MaxTokens]
    /\ nft \in [Tokens -> Owners]
    /\ xfer \in [Tokens -> XferRecord]
    /\ hasXfer \in [Tokens -> BOOLEAN]

OwnershipInit ==
    /\ rto = [r \in RTOs |-> InitialStatus(r)]
    /\ tradeCert = [dl \in Dealers |-> [validTill |-> 0, active |-> FALSE]]
    /\ tokenCtr = 0
    /\ own = [t \in Tokens |-> NoOwn]
    /\ dvpToOwn = [d \in Vehicles |-> 0]
    /\ nft = [t \in Tokens |-> Nobody]
    /\ xfer = [t \in Tokens |-> NoXfer]
    /\ hasXfer = [t \in Tokens |-> FALSE]

-----------------------------------------------------------------------------
(* Views                                                                    *)

TradeCertValid(dl) == tradeCert[dl].active /\ now <= tradeCert[dl].validTill

(* Fault: existence alone is tested.                                        *)
ExistsOnly(t) == own[t].dvp # Nobody

ExistsAndIsActive(t) == own[t].dvp # Nobody /\ own[t].active

IsRegistered(d)  == dvpToOwn[d] # 0
CurrentOwner(d)  == IF IsRegistered(d) THEN own[dvpToOwn[d]].owner ELSE Nobody
HasActiveXfer(d) == IsRegistered(d) /\ hasXfer[dvpToOwn[d]]

XferExpired(t) == now > xfer[t].date + XferWindow

-----------------------------------------------------------------------------
(* Transactions of this contract alone                                      *)

AdminRTO(r) ==
    /\ rto' = AdminCall(rto, r)
    /\ UNCHANGED <<tradeCert, tokenCtr, own, dvpToOwn, nft, xfer, hasXfer>>

IssueTradeCert(r, dl, till) ==
    /\ rto[r] = "active"
    /\ now < till /\ till <= now + MaxTradeCert
    /\ ~TradeCertValid(dl)
    /\ tradeCert' = [tradeCert EXCEPT ![dl] = [validTill |-> till, active |-> TRUE]]
    /\ UNCHANGED <<rto, tokenCtr, own, dvpToOwn, nft, xfer, hasXfer>>

RevokeTradeCert(r, dl) ==
    /\ rto[r] = "active"
    /\ tradeCert[dl].active
    /\ tradeCert' = [tradeCert EXCEPT ![dl].active = FALSE]
    /\ UNCHANGED <<rto, tokenCtr, own, dvpToOwn, nft, xfer, hasXfer>>

(* Fault: TransferAlreadyPending is not checked.                            *)
MayOfferAgain(u, t, b) ==
    nft[t] = u /\ own[t].active /\ b # u /\ b \notin CodeAccounts

MayOffer(u, t, b) ==
    /\ nft[t] = u
    /\ own[t].active
    /\ b # u
    /\ b \notin CodeAccounts
    /\ ~hasXfer[t]

InitTransfer(u, t, b) ==
    /\ MayOffer(u, t, b)
    /\ xfer' = [xfer EXCEPT ![t] =
                  [exists |-> TRUE, seller |-> u, buyer |-> b, date |-> now,
                   sellerOK |-> TRUE, buyerOK |-> FALSE,
                   hasPendingLoan |-> FALSE, bankId |-> 0]]
    /\ hasXfer' = [hasXfer EXCEPT ![t] = TRUE]
    /\ UNCHANGED <<rto, tradeCert, tokenCtr, own, dvpToOwn, nft>>

AcceptTransfer(b, t) ==
    /\ xfer[t].buyer = b
    /\ xfer[t].sellerOK
    /\ xfer' = [xfer EXCEPT ![t].buyerOK = TRUE]
    /\ UNCHANGED <<rto, tradeCert, tokenCtr, own, dvpToOwn, nft, hasXfer>>

(* Fault: hasActiveXfer is left set.                                        *)
DeleteRequestOnly(t) == xfer' = [xfer EXCEPT ![t] = NoXfer] /\ UNCHANGED hasXfer

(* delete activeXfer[t]; delete hasActiveXfer[t] -- an attached loan goes   *)
(* with the request.                                                        *)
DeleteXfer(t) ==
    /\ xfer' = [xfer EXCEPT ![t] = NoXfer]
    /\ hasXfer' = [hasXfer EXCEPT ![t] = FALSE]

MayCancel(c, t) ==
    \/ c \in {xfer[t].seller, xfer[t].buyer, Admin}
    \/ c \in RTOs /\ rto[c] = "active"
    \/ XferExpired(t)

CancelTransfer(c, t) ==
    /\ xfer[t].exists
    /\ MayCancel(c, t)
    /\ DeleteXfer(t)
    /\ UNCHANGED <<rto, tradeCert, tokenCtr, own, dvpToOwn, nft>>

-----------------------------------------------------------------------------
(* Local parts of the transactions that span contracts                      *)

(* register: the checks on this contract's storage, then the mint           *)
MayRegister(r, d, dl) ==
    /\ rto[r] = "active"
    /\ ~IsRegistered(d)
    /\ TradeCertValid(dl)

(* Fault: dvpToOwn is given the counter before its increment.               *)
MintTitleStalePointer(d, u) ==
    /\ tokenCtr < MaxTokens
    /\ tokenCtr' = tokenCtr + 1
    /\ own' = [own EXCEPT ![tokenCtr'] = [dvp |-> d, owner |-> u,
                                          active |-> TRUE, xferCnt |-> 0]]
    /\ dvpToOwn' = [dvpToOwn EXCEPT ![d] = tokenCtr]
    /\ nft' = [nft EXCEPT ![tokenCtr'] = u]
    /\ UNCHANGED <<rto, tradeCert, xfer, hasXfer>>

MintTitle(d, u) ==
    /\ tokenCtr < MaxTokens
    /\ tokenCtr' = tokenCtr + 1
    /\ own' = [own EXCEPT ![tokenCtr'] = [dvp |-> d, owner |-> u,
                                          active |-> TRUE, xferCnt |-> 0]]
    /\ dvpToOwn' = [dvpToOwn EXCEPT ![d] = tokenCtr']
    /\ nft' = [nft EXCEPT ![tokenCtr'] = u]
    /\ UNCHANGED <<rto, tradeCert, xfer, hasXfer>>

(* Fault: the buyer's acceptance is not checked.                            *)
MayApproveUnaccepted(r, t) == rto[r] = "active" /\ xfer[t].sellerOK /\ ~XferExpired(t)

(* approveTransfer: the checks on this contract's storage, then the title   *)
MayApprove(r, t) ==
    /\ rto[r] = "active"
    /\ xfer[t].sellerOK /\ xfer[t].buyerOK
    /\ ~XferExpired(t)

MoveTitle(t) ==
    /\ own[t].xferCnt < MaxXfers
    /\ nft[t] = xfer[t].seller
    /\ own' = [own EXCEPT ![t].owner = xfer[t].buyer, ![t].xferCnt = @ + 1]
    /\ nft' = [nft EXCEPT ![t] = xfer[t].buyer]
    /\ DeleteXfer(t)
    /\ UNCHANGED <<rto, tradeCert, tokenCtr, dvpToOwn>>

(* Fault: the NFT is not burned.                                            *)
DeactivateWithoutBurn(t) ==
    /\ HasSystemRole("ownership", "dvp")
    /\ own[t].dvp # Nobody
    /\ DeleteXfer(t)
    /\ own' = [own EXCEPT ![t].active = FALSE]
    /\ UNCHANGED <<rto, tradeCert, tokenCtr, dvpToOwn, nft>>

(* Called by DigitalVehiclePassport.scrapVehicle                            *)
DeactivateVehicle(t) ==
    /\ HasSystemRole("ownership", "dvp")
    /\ own[t].dvp # Nobody
    /\ nft[t] # Nobody
    /\ IF hasXfer[t] THEN DeleteXfer(t) ELSE UNCHANGED <<xfer, hasXfer>>
    /\ own' = [own EXCEPT ![t].active = FALSE]
    /\ nft' = [nft EXCEPT ![t] = Nobody]
    /\ UNCHANGED <<rto, tradeCert, tokenCtr, dvpToOwn>>

(* Called by LoanContract.registerLoan and cancelPendingLoan                *)
AttachPendingLoan(d, bank, b) ==
    LET t == dvpToOwn[d] IN
    /\ HasSystemRole("ownership", "loan")
    /\ t # 0 /\ xfer[t].exists
    /\ xfer[t].buyer = b
    /\ ~xfer[t].hasPendingLoan
    /\ xfer' = [xfer EXCEPT ![t].hasPendingLoan = TRUE, ![t].bankId = bank]
    /\ UNCHANGED <<rto, tradeCert, tokenCtr, own, dvpToOwn, nft, hasXfer>>

DetachPendingLoan(d, bank) ==
    LET t == dvpToOwn[d] IN
    /\ HasSystemRole("ownership", "loan")
    /\ t # 0 /\ xfer[t].exists
    /\ xfer[t].hasPendingLoan
    /\ xfer[t].bankId = bank
    /\ xfer' = [xfer EXCEPT ![t].hasPendingLoan = FALSE, ![t].bankId = 0]
    /\ UNCHANGED <<rto, tradeCert, tokenCtr, own, dvpToOwn, nft, hasXfer>>
=============================================================================
