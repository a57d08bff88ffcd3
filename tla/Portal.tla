--------------------------------- MODULE Portal ---------------------------------
(***************************************************************************)
(* The front end's cache of server state (TanStack Query), as one query of  *)
(* one dashboard sees it: fetched when a page appears, cancelled and asked  *)
(* again when a mutation or a notice invalidates its key. What is shown is  *)
(* told by how many writes to the tables it reads it has seen. Queries do   *)
(* not touch each other, so one is watched at a time.                       *)
(***************************************************************************)
EXTENDS Naturals, Sequences, SequencesExt

CONSTANT MaxWrites  \* bound: writes to the tables the watched query reads

ASSUME PortalAssumption == MaxWrites \in Nat

-----------------------------------------------------------------------------
(* Keys of queries, and keys a mutation's hook invalidates, as pairs, hook   *)
(* file by hook file (hooks/use-*.ts)                                       *)

CitizenKeys ==
    {<<"profile", <<"citizen", "profile">>>>, <<"vehicles", <<"citizen", "vehicles">>>>,
     <<"incoming", <<"citizen", "transfers", "incoming">>>>,
     <<"detail", <<"citizen", "vehicle", "tid">>>>,
     <<"timeline", <<"citizen", "vehicle", "tid", "timeline">>>>,
     <<"rtos", <<"public", "rtos">>>>, <<"scrapCenters", <<"public", "scrap-centers">>>>}

B2BKeys ==
    {<<"analytics", <<"gov", "analytics">>>>, <<"institutions", <<"institutions">>>>,
     <<"staff", <<"staff">>>>, <<"auditLogs", <<"gov", "auditLogs">>>>}
B2BInvalidates ==
    ({"createInstitution", "toggleInstitution", "retryRegistration"} \X {<<"institutions">>})
    \union ({"createStaff", "updateRole", "updateStatus"} \X {<<"staff">>})

BankKeys == {<<"loans", <<"bank", "loans">>>>}
(* Fault: a loan registered invalidates the key of a loan's details.        *)
BankInvalidatesDetail ==
    {<<"registerLoan", <<"bank", "loan">>>>}
    \union ({"issueNoc", "cancelPendingLoan", "refinanceLoan"} \X {<<"bank", "loans">>})
BankInvalidates ==
    {"registerLoan", "issueNoc", "cancelPendingLoan", "refinanceLoan"} \X {<<"bank", "loans">>}

DealerKeys ==
    {<<"inventory", <<"dealer", "inventory">>>>, <<"tradeCerts", <<"dealer", "trade-certs">>>>}
DealerInvalidates == {<<"createSaleRequest", <<"dealer", "inventory">>>>}

InsuranceKeys == {<<"policies", <<"insurance", "policies">>>>}
InsuranceInvalidates ==
    {"issuePolicy", "fileClaim", "expirePolicy"} \X {<<"insurance", "policies">>}

MfgKeys == {<<"mfgVehicles", <<"mfg", "vehicles">>>>}
MfgInvalidates == {"manufacture", "assign"} \X {<<"mfg", "vehicles">>}

PaymentKeys ==
    {<<"challans", <<"payment", "challans">>>>, <<"globalChallans", <<"gov", "challans">>>>}
PaymentInvalidates ==
    {<<"initiatePayment", <<"payment", "challans">>>>,
     <<"adminCancelChallan", <<"gov", "challans">>>>}

PoliceKeys == {<<"policeChallans", <<"police", "challans">>>>}
PoliceInvalidates ==
    {"issueChallan", "cancelChallan", "markPaid"} \X {<<"police", "challans">>}

PucKeys == {<<"certificates", <<"puc", "certificates">>>>}
PucInvalidates == {"issuePuc", "expirePuc"} \X {<<"puc", "certificates">>}

RtoKeys ==
    {<<"registrations", <<"rto", "registrations">>>>, <<"transfers", <<"rto", "transfers">>>>,
     <<"rtoCerts", <<"rto", "trade-certs">>>>}
RtoInvalidates ==
    ({"issueTradeCert", "revokeTradeCert"} \X {<<"rto", "trade-certs">>})
    \union {<<"registerVehicle", <<"rto", "registrations">>>>,
            <<"approveTransfer", <<"rto", "transfers">>>>}

ScrapKeys ==
    {<<"scrapped", <<"scrap", "vehicles">>>>, <<"scrapEligibility", <<"scrap", "eligibility">>>>}
ScrapInvalidates == {<<"scrapVehicle", <<"scrap">>>>}

AdminKeys ==
    {<<"safeInfo", <<"admin", "safe-info">>>>, <<"proposals", <<"admin", "proposals">>>>,
     <<"proposal", <<"admin", "proposal", "id">>>>}
AdminInvalidates ==
    {"cancelProposal", "signProposal", "executeProposal"} \X {<<"admin", "proposals">>}

Keys ==
    CitizenKeys \union B2BKeys \union BankKeys \union DealerKeys \union InsuranceKeys
    \union MfgKeys \union PaymentKeys \union PoliceKeys \union PucKeys \union RtoKeys
    \union ScrapKeys \union AdminKeys \union
    {<<"eligibility", <<"transfer-eligibility">>>>, <<"transferStatus", <<"transfer-status">>>>,
     <<"ownScrap", <<"citizen-scrap-eligibility">>>>}

Invalidates ==
    B2BInvalidates \union BankInvalidates \union DealerInvalidates \union InsuranceInvalidates
    \union MfgInvalidates \union PaymentInvalidates \union PoliceInvalidates
    \union PucInvalidates \union RtoInvalidates \union ScrapInvalidates \union AdminInvalidates

(* useSubmitKyc puts the answer in the cache.                               *)
Replaces == {<<"submitKyc", "profile">>}

(* What NotificationProvider invalidates on a notice; <<>> is every key.     *)
Notices == {<<>>, <<"citizen", "vehicles">>, <<"citizen", "vehicle">>}

-----------------------------------------------------------------------------
(* Tables a query lists, repository by repository; names and counts joined    *)
(* to their rows are left out.                                              *)

TitleTables == {"ownership", "vehicle"}
ComplianceTables == {"loan", "challan", "policy", "puc", "transfer"}

CitizenReads ==
    ({"profile"} \X {"user"}) \union ({"rtos", "scrapCenters"} \X {"entity"})
    \union ({"vehicles", "detail", "eligibility"} \X TitleTables)
    \union ({"detail", "eligibility"} \X ComplianceTables)
TransferReads ==
    ({"ownScrap", "transferStatus", "incoming", "timeline"} \X (TitleTables \union {"transfer"}))
    \union ({"ownScrap"} \X {"challan", "loan"}) \union ({"timeline"} \X ComplianceTables)
GovReads ==
    ({"globalChallans"} \X (TitleTables \union {"challan"}))
    \union ({"analytics"} \X {"vehicle", "challan", "entity", "transfer"})
    \union ({"auditLogs"} \X {"vehicle", "challan", "policy", "puc", "transfer"})
RtoReads ==
    ({"rtoCerts"} \X {"cert"}) \union ({"registrations"} \X {"request", "vehicle"})
    \union ({"transfers"} \X {"transfer"})
MfgReads == {"mfgVehicles"} \X {"vehicle", "tx"}
InsuranceReads == {"policies"} \X {"policy"}
PucReads == {"certificates"} \X {"puc"}
DealerReads == {<<"tradeCerts", "cert">>, <<"inventory", "vehicle">>}
BankReads == {"loans"} \X {"loan", "vehicle"}
ScrapReads ==
    ({"scrapped", "scrapEligibility"} \X TitleTables)
    \union ({"scrapEligibility"} \X {"challan", "transfer", "loan"})
PoliceReads == {"policeChallans"} \X (TitleTables \union {"challan"})
PaymentReads == {"challans"} \X {"challan"}
EntityReads == {"institutions"} \X {"entity"}
MemberReads == {"staff"} \X {"member"}
AdminReads == {"safeInfo"} \X {"safe"} \union ({"proposals", "proposal"} \X {"proposal"})

TablesRead ==
    CitizenReads \union TransferReads \union GovReads \union RtoReads \union MfgReads
    \union InsuranceReads \union PucReads \union DealerReads \union BankReads
    \union ScrapReads \union PoliceReads \union PaymentReads \union EntityReads
    \union MemberReads \union AdminReads

(* Tables a mutation's request has written when it is answered, service by  *)
(* service. What the chain does later is not among them, and               *)
(* executeProposal only queues a job.                                       *)

CitizenWrites == {<<"submitKyc", "user">>}
EntityWrites ==
    {<<"createInstitution", "entity">>}
    \union ({"createInstitution", "toggleInstitution", "retryRegistration"} \X {"proposal"})
MemberWrites == {"createStaff", "updateRole", "updateStatus"} \X {"member"}
BankWrites ==
    {<<"registerLoan", "loan">>}
    \union ({"registerLoan", "issueNoc", "cancelPendingLoan", "refinanceLoan"} \X {"tx"})
DealerWrites == {<<"createSaleRequest", "request">>}
InsuranceWrites ==
    {<<"issuePolicy", "policy">>} \union ({"issuePolicy", "fileClaim", "expirePolicy"} \X {"tx"})
MfgWrites == {<<"manufacture", "vehicle">>} \union ({"manufacture", "assign"} \X {"tx"})
PaymentWrites == {<<"initiatePayment", "challan">>}
GovWrites == {<<"adminCancelChallan", "proposal">>}
PoliceWrites ==
    {<<"issueChallan", "challan">>}
    \union ({"issueChallan", "cancelChallan", "markPaid"} \X {"tx"})
PucWrites == {<<"issuePuc", "puc">>} \union ({"issuePuc", "expirePuc"} \X {"tx"})
RtoWrites ==
    {<<"issueTradeCert", "cert">>}
    \union ({"issueTradeCert", "revokeTradeCert", "registerVehicle", "approveTransfer"} \X {"tx"})
ScrapWrites == {<<"scrapVehicle", "tx">>}
AdminWrites == {"cancelProposal", "signProposal"} \X {"proposal"}

TablesWritten ==
    CitizenWrites \union EntityWrites \union MemberWrites \union BankWrites
    \union DealerWrites \union InsuranceWrites \union MfgWrites \union PaymentWrites
    \union GovWrites \union PoliceWrites \union PucWrites \union RtoWrites
    \union ScrapWrites \union AdminWrites

-----------------------------------------------------------------------------
(* Pages: the queries they show and the mutations they send. Transactions   *)
(* of the user's wallet touch no query, and a page's selection is made.     *)

Page(name, shows, does) == [name |-> name, shows |-> shows, does |-> does]

(* The layout shows the profile on every citizen's page.                    *)
CitizenPage(name, shows, does) == Page(name, shows \union {"profile"}, does)

VehiclesPage == CitizenPage("vehicles", {"vehicles"}, {})
VehiclePage == CitizenPage("vehicle", {"detail", "timeline"}, {})
TransfersPage ==
    CitizenPage("transfers", {"vehicles", "incoming", "eligibility", "transferStatus"}, {})
AuthorizeScrapPage == CitizenPage("authorizeScrap", {"vehicles", "scrapCenters", "ownScrap"}, {})
ChallansPage == CitizenPage("challans", {"challans"}, {"initiatePayment"})
KycPage == CitizenPage("kyc", {"rtos"}, {"submitKyc"})
DealerPage ==
    CitizenPage("dealer", {"inventory", "tradeCerts", "rtos"}, {"createSaleRequest"})

OverviewPage == Page("overview", {"analytics"}, {})
EntitiesPage ==
    Page("entities", {"institutions"},
         {"createInstitution", "toggleInstitution", "retryRegistration"})
AdminPage ==
    Page("admin", {"safeInfo", "proposals", "proposal"},
         {"cancelProposal", "signProposal", "executeProposal"})
GovLogsPage == Page("govLogs", {"globalChallans"}, {"adminCancelChallan"})
AuditPage == Page("audit", {"auditLogs"}, {})

MintPage == Page("mint", {}, {"manufacture"})
HistoryPage == Page("history", {"mfgVehicles"}, {"assign"})
PoliciesPage == Page("policies", {"policies"}, {"issuePolicy"})
ClaimsPage == Page("claims", {"policies"}, {"fileClaim", "expirePolicy"})
LoansPage == Page("loans", {"loans"}, {"registerLoan", "cancelPendingLoan"})
NocPage == Page("noc", {"loans"}, {"issueNoc", "refinanceLoan"})
ScrapProcessPage == Page("process", {"scrapEligibility"}, {"scrapVehicle"})
ScrapLogsPage == Page("scrapLogs", {"scrapped"}, {})
TradeCertsPage == Page("tradeCerts", {"rtoCerts"}, {"issueTradeCert", "revokeTradeCert"})
RegistrationsPage == Page("registrations", {"registrations"}, {"registerVehicle"})
RtoTransfersPage == Page("rtoTransfers", {"transfers"}, {"approveTransfer"})
PoliceIssuePage == Page("issueChallan", {}, {"issueChallan"})
PoliceSearchPage == Page("search", {"policeChallans"}, {"cancelChallan", "markPaid"})
PucIssuePage == Page("issuePuc", {}, {"issuePuc"})
PucLogsPage == Page("pucLogs", {"certificates"}, {"expirePuc"})
StaffPage == Page("staff", {"staff"}, {"createStaff", "updateRole", "updateStatus"})

(* One user's pages, as the sidebars offer them; every institution has the   *)
(* staff page of the government's.                                          *)
Dashboards ==
    {{VehiclesPage, VehiclePage, TransfersPage, AuthorizeScrapPage, ChallansPage, KycPage,
      DealerPage},
     {OverviewPage, EntitiesPage, AdminPage, GovLogsPage, AuditPage, StaffPage},
     {MintPage, HistoryPage}, {PoliciesPage, ClaimsPage}, {LoansPage, NocPage},
     {ScrapProcessPage, ScrapLogsPage}, {TradeCertsPage, RegistrationsPage, RtoTransfersPage},
     {PoliceIssuePage, PoliceSearchPage}, {PucIssuePage, PucLogsPage}}

-----------------------------------------------------------------------------

VARIABLES
    pages,     \* the dashboard
    page,      \* the page that is open
    watched,   \* the query
    shown,     \* what the cache has of it
    clock,     \* writes so far to the tables it reads, counted from one
    sent,      \* the mutation in hand
    due        \* the last write of the user's own that the cache was told of in time

portalVars == <<pages, page, watched, shown, clock, sent, due>>

(* `asOf` is the clock when the server read it, 0 before there is data.     *)
Nothing == [asOf |-> 0, stale |-> FALSE, failed |-> FALSE, fetch |-> "none", read |-> 0]
NoMutation == [does |-> "none", wrote |-> 0]

Asked(c) == [c EXCEPT !.fetch = "asked", !.read = 0]

IsShown(q, p) == q \in p.shows

(* Invalidation is by the beginning of a key.                               *)
IsOfWatched(key) == \E k \in Keys : k[1] = watched /\ IsPrefix(key, k[2])

(* useQuery, when its component appears                                     *)
Appears(c) == IF c.fetch = "none" /\ (c.asOf = 0 \/ c.stale) THEN Asked(c) ELSE c

(* invalidateQueries: a query on the page that has data is asked again even  *)
(* while a fetch is under way; a first fetch is left to end.                *)
Invalidated(c) ==
    LET marked == [c EXCEPT !.stale = TRUE] IN
    IF IsShown(watched, page) /\ (c.fetch = "none" \/ c.asOf # 0) THEN Asked(marked) ELSE marked

PortalInit ==
    /\ pages \in Dashboards /\ page \in pages
    /\ watched \in UNION {p.shows : p \in pages}
    /\ shown = IF IsShown(watched, page) THEN Asked(Nothing) ELSE Nothing
    /\ clock = 1 /\ sent = NoMutation /\ due = 0

PortalTypeOK ==
    /\ page \in pages /\ watched \in UNION {p.shows : p \in pages}
    /\ shown.asOf \in 0..clock /\ shown.read \in 0..clock
    /\ shown.fetch \in {"none", "asked", "read"} /\ {shown.stale, shown.failed} \subseteq BOOLEAN
    /\ clock \in 1..MaxWrites + 1 /\ due \in 0..clock
    /\ sent.does \in {"none"} \union UNION {p.does : p \in pages} /\ sent.wrote \in 0..clock

-----------------------------------------------------------------------------

Navigate(p) ==
    /\ p \in pages \ {page}
    /\ page' = p
    /\ shown' = IF IsShown(watched, p) /\ ~IsShown(watched, page) THEN Appears(shown) ELSE shown
    /\ UNCHANGED <<pages, watched, clock, sent, due>>

(* getGlobalAuditLogs asks for a table Prisma's schema has not, and fails.   *)
ServerReads ==
    /\ shown.fetch = "asked" /\ watched # "auditLogs"
    /\ shown' = [shown EXCEPT !.fetch = "read", !.read = clock]
    /\ UNCHANGED <<pages, page, watched, clock, sent, due>>

FetchLands ==
    /\ shown.fetch = "read"
    /\ shown' = [Nothing EXCEPT !.asOf = shown.read]
    /\ UNCHANGED <<pages, page, watched, clock, sent, due>>

(* The request or its answer is lost: it is sent once more, or given up.     *)
FetchFails ==
    /\ shown.fetch # "none"
    /\ shown' \in {Asked(shown), [shown EXCEPT !.fetch = "none", !.read = 0, !.failed = TRUE]}
    /\ UNCHANGED <<pages, page, watched, clock, sent, due>>

StaleTimePasses ==
    /\ shown.asOf # 0 /\ ~shown.stale
    /\ shown' = [shown EXCEPT !.stale = TRUE]
    /\ UNCHANGED <<pages, page, watched, clock, sent, due>>

(* The network is back.                                                     *)
Reconnects ==
    /\ IsShown(watched, page) /\ shown' = Appears(shown) /\ shown' # shown
    /\ UNCHANGED <<pages, page, watched, clock, sent, due>>

Notice(key) ==
    /\ IsOfWatched(key)
    /\ shown' = Invalidated(shown)
    /\ UNCHANGED <<pages, page, watched, clock, sent, due>>

(* Another user, or a handler of the backend                                *)
OthersWrite ==
    /\ clock <= MaxWrites
    /\ clock' = clock + 1
    /\ UNCHANGED <<pages, page, watched, shown, sent, due>>

-----------------------------------------------------------------------------
(* Mutations                                                                *)

WritesWatched(m) == \E w \in TablesWritten : w[1] = m /\ <<watched, w[2]>> \in TablesRead
InvalidatesWatched(m) == \E i \in Invalidates : i[1] = m /\ IsOfWatched(i[2])
ReplacesWatched(m) == <<m, watched>> \in Replaces

(* Those that neither write what the query reads nor name its key do nothing *)
(* to it and are left out. One mutation is in hand at a time.                *)
Mutate(m) ==
    /\ m \in page.does /\ sent = NoMutation
    /\ WritesWatched(m) \/ InvalidatesWatched(m)
    /\ sent' = [does |-> m, wrote |-> 0]
    /\ UNCHANGED <<pages, page, watched, shown, clock, due>>

ServerWrites ==
    /\ sent # NoMutation /\ sent.wrote = 0
    /\ WritesWatched(sent.does) => clock <= MaxWrites
    /\ clock' = IF WritesWatched(sent.does) THEN clock + 1 ELSE clock
    /\ sent' = [sent EXCEPT !.wrote = clock']
    /\ UNCHANGED <<pages, page, watched, shown, due>>

(* Lists that show what a mutation wrote and that its hook leaves to the     *)
(* stale time                                                               *)
Unnoticed ==
    ({"createInstitution", "toggleInstitution", "retryRegistration", "adminCancelChallan"}
       \X {"proposals", "proposal"})
    \union ({"cancelProposal", "signProposal"} \X {"proposal"})
    \union ({"initiatePayment"} \X {"detail", "timeline", "eligibility", "ownScrap"})
    \union {<<"createInstitution", "analytics">>}

(* No fetch that read before the write can still land unnoticed: there is    *)
(* none, or it is asked again.                                              *)
InTime(m) ==
    \/ shown.fetch = "none"
    \/ InvalidatesWatched(m) /\ IsShown(watched, page) /\ shown.asOf # 0

(* onSuccess                                                                *)
MutationSucceeds ==
    /\ sent.wrote # 0
    /\ shown' = CASE ReplacesWatched(sent.does) ->
                       [shown EXCEPT !.asOf = sent.wrote, !.stale = FALSE, !.failed = FALSE]
                  [] InvalidatesWatched(sent.does) -> Invalidated(shown)
                  [] OTHER -> shown
    /\ due' = IF /\ WritesWatched(sent.does) /\ InTime(sent.does)
                 /\ <<sent.does, watched>> \notin Unnoticed
              THEN sent.wrote ELSE due
    /\ sent' = NoMutation
    /\ UNCHANGED <<pages, page, watched, clock>>

(* It is refused, or its answer is lost after the write.                    *)
MutationFails ==
    /\ sent # NoMutation
    /\ sent' = NoMutation
    /\ UNCHANGED <<pages, page, watched, shown, clock, due>>

PortalNext ==
    \/ \E p \in pages : Navigate(p)
    \/ ServerReads \/ FetchLands \/ FetchFails \/ StaleTimePasses \/ Reconnects
    \/ \E key \in Notices : Notice(key)
    \/ OthersWrite
    \/ \E m \in page.does : Mutate(m)
    \/ ServerWrites \/ MutationSucceeds \/ MutationFails

PortalSpec == PortalInit /\ [][PortalNext]_portalVars

-----------------------------------------------------------------------------
(* Properties                                                               *)

(* The hooks' onSuccess: what the user changed is shown once the page has    *)
(* fetched, on whatever page it is looked at.                               *)
OwnChangesAppear ==
    IsShown(watched, page) /\ shown.fetch = "none" /\ ~shown.failed => shown.asOf >= due
=============================================================================
