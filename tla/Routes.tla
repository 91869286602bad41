---- MODULE Routes ----
(***************************************************************************)
(* The routes of the HTTP interface, in the order Nest registers them, the *)
(* permission each asks for, and how a call is answered: the first route   *)
(* whose method and path match takes it, and RbacGuard then looks at the   *)
(* permissions of the token.                                               *)
(***************************************************************************)
EXTENDS Naturals, Sequences, SequencesExt

\* A route: its path is a sequence of segments, ":" for a parameter.  action is what
\* @Permissions asks for in the controller's module, "none" if it asks for nothing.
R(method, path, action) == [method |-> method, path |-> path, action |-> action]

List == R("GET", <<>>, "read")
One == R("GET", <<":">>, "read")
New == R("POST", <<>>, "create")
Edit == R("PATCH", <<":">>, "update")
Delete == R("DELETE", <<":">>, "delete")
Get(path) == R("GET", path, "read")
Do(step, action) == R("POST", <<":", step>>, action)

\* The routes of a class with @Controller(prefix).
Controller(module, prefix, routes) ==
  [i \in DOMAIN routes |->
     [method |-> routes[i].method,
      path |-> prefix \o routes[i].path,
      needs |-> IF routes[i].action = "none" THEN {} ELSE {<<module, routes[i].action>>}]]

\* The controllers of SystemModule, in the order it registers them.
HealthController == Controller("none", <<"health">>, <<R("GET", <<>>, "none")>>)

AuthController == Controller("none", <<"auth">>, <<
  R("POST", <<"login">>, "none"), R("POST", <<"logout">>, "none"),
  R("POST", <<"refresh">>, "none"), R("GET", <<"me">>, "none"),
  R("GET", <<"me", "profile">>, "none"), R("POST", <<"2fa", "setup">>, "none"),
  R("POST", <<"2fa", "verify">>, "none"), R("POST", <<"2fa", "disable">>, "none"),
  R("POST", <<"change-password">>, "none")>>)

UsersController == Controller("system", <<"users">>, <<
  List, One, New, Edit, Delete, Do("roles", "update"),
  R("DELETE", <<":", "roles", ":">>, "delete"), Do("link-employee", "update")>>)

RolesController == Controller("system", <<>>, <<
  Get(<<"roles">>), Get(<<"roles", ":">>), R("POST", <<"roles">>, "create"),
  R("PATCH", <<"roles", ":">>, "update"), R("DELETE", <<"roles", ":">>, "delete"),
  R("POST", <<"roles", ":", "permissions">>, "update"),
  R("DELETE", <<"roles", ":", "permissions", ":">>, "delete"), Get(<<"permissions">>),
  Get(<<"permissions", "matrix">>)>>)

NotificationsController == Controller("none", <<"notifications">>, <<
  R("GET", <<"stream">>, "none"), R("GET", <<"unread-count">>, "none"),
  R("PATCH", <<":", "read">>, "none")>>)

AuditController == Controller("system", <<"audit-logs">>, <<List, One>>)

ComplianceController == Controller("compliance", <<"compliance-items">>, <<
  List, One, New, Edit, R("POST", <<"nightly-check">>, "update"), Delete>>)

\* of OrdersModule, in the order it registers them.
BuyersController == Controller("orders", <<"buyers">>, <<List, One, New, Edit, Delete>>)

ArticlesController == Controller("orders", <<"articles">>, <<List, One, New, Edit, Delete>>)

OrdersController == Controller("orders", <<"orders">>, <<
  List, One, New, Edit, R("PATCH", <<":", "status">>, "update"), Delete>>)

\* Mutant: the static path is registered after the parameter.
QuotationsParameterFirst == Controller("orders", <<"orders", ":", "quotations">>, <<
  List, New, One, Get(<<"conversion-rate">>), Edit, Do("send", "update"), Do("close", "update"),
  Do("populate-from-bom", "update")>>)

QuotationsController == Controller("orders", <<"orders", ":", "quotations">>, <<
  List, New, Get(<<"conversion-rate">>), One, Edit, Do("send", "update"), Do("close", "update"),
  Do("populate-from-bom", "update")>>)

SamplesController == Controller("orders", <<"orders", ":", "samples">>, <<
  List, New, One, Edit, Do("approve", "update"), Do("reject", "update")>>)

ComplaintsController == Controller("orders", <<"orders", ":", "complaints">>, <<
  List, New, One, R("PATCH", <<":", "root-cause">>, "update"),
  R("PATCH", <<":", "status">>, "update")>>)

CapaActionsController == Controller("orders", <<"orders", ":", "complaints", ":", "capa">>, <<
  List, New, Edit, R("PATCH", <<":", "status">>, "update")>>)

\* of ProcurementModule, in the order it registers them.
VendorsController == Controller("procurement", <<"procurement">>, <<
  Get(<<"vendor-categories">>), R("POST", <<"vendor-categories">>, "create"),
  R("PATCH", <<"vendor-categories", ":">>, "update"),
  R("DELETE", <<"vendor-categories", ":">>, "delete"), Get(<<"vendors">>),
  R("POST", <<"vendors">>, "create"), Get(<<"vendors", ":">>),
  R("PATCH", <<"vendors", ":">>, "update"), R("DELETE", <<"vendors", ":">>, "delete")>>)

PurchaseOrdersController == Controller("procurement", <<"procurement", "purchase-orders">>, <<
  List, New, One, Edit, Do("submit", "update"), Do("approve", "approve"),
  Do("reject", "approve"), Delete, Do("lines", "update"),
  R("DELETE", <<":", "lines", ":">>, "update")>>)

GoodsReceiptsController == Controller("procurement", <<"procurement", "goods-receipts">>, <<
  Get(<<"by-po", ":">>), New, One, R("PATCH", <<":", "lines", ":">>, "update"),
  Do("submit-qc", "update"), Do("approve", "approve"), Do("reject", "approve"),
  R("POST", <<":", "lines", ":", "photos">>, "update")>>)

VendorInvoicesController == Controller("procurement", <<"procurement", "vendor-invoices">>, <<
  List, New, One, Do("payments", "update")>>)

\* of ManufacturingModule, in the order it registers them.
BomController == Controller("manufacturing", <<"manufacturing", "bom">>, <<
  New, Get(<<":", "cost-sheet">>), Do("cost-sheet", "create"), Do("approve", "approve"), One,
  Edit, Delete>>)

ArticleBomController == Controller("manufacturing", <<"articles">>, <<
  Get(<<":", "bom", "versions">>), Get(<<":", "bom">>)>>)

CostSheetsController == Controller("manufacturing", <<"manufacturing", "cost-sheets">>, <<
  Edit>>)

ProductionOrdersController == Controller("manufacturing", <<"manufacturing", "production-orders">>, <<
  New, List, One, Edit, Do("start", "update"), Do("hold", "update")>>)

DailyProductionController == Controller("manufacturing", <<>>, <<
  R("POST", <<"manufacturing", "production-orders", ":", "daily">>, "create"),
  Get(<<"manufacturing", "production-orders", ":", "daily">>),
  R("PATCH", <<"manufacturing", "daily-productions", ":">>, "update")>>)

QcResultsController == Controller("manufacturing", <<>>, <<
  Get(<<"manufacturing", "qc", "aql-sample-size">>),
  R("POST", <<"manufacturing", "production-orders", ":", "qc">>, "create"),
  Get(<<"manufacturing", "production-orders", ":", "qc">>)>>)

MachinesController == Controller("manufacturing", <<"manufacturing", "machines">>, <<
  New, List, One, Edit, Do("maintenance", "create"), Get(<<":", "maintenance">>),
  R("PATCH", <<":", "maintenance", ":", "close">>, "update")>>)

ScrapController == Controller("manufacturing", <<>>, <<
  R("POST", <<"manufacturing", "production-orders", ":", "scrap">>, "create"),
  Get(<<"manufacturing", "production-orders", ":", "scrap">>),
  R("PATCH", <<"manufacturing", "scrap", ":", "dispose">>, "approve")>>)

FactoryMastersController == Controller("manufacturing", <<"manufacturing">>, <<
  Get(<<"factory-lines">>), Get(<<"operations">>)>>)

\* of InventoryModule, in the order it registers them.
WarehousesController == Controller("inventory", <<"inventory", "warehouses">>, <<
  List, One, New, Edit, Delete>>)

StockItemsController == Controller("inventory", <<"inventory", "stock-items">>, <<
  List, One, New, Edit, Delete>>)

StockTransactionsController == Controller("inventory", <<"inventory", "transactions">>, <<
  List, New>>)

StockCountsController == Controller("inventory", <<"inventory", "stock-counts">>, <<
  List, One, New, R("PATCH", <<":", "lines", ":">>, "update"), Do("submit", "update"),
  Do("approve", "approve"), Do("cancel", "update")>>)

StockSummaryController == Controller("inventory", <<"inventory", "stock-summary">>, <<
  List, R("POST", <<"refresh">>, "approve")>>)

\* of FinanceModule, in the order it registers them.
ChartOfAccountsController == Controller("finance", <<"finance", "chart-of-accounts">>, <<
  List, One, New, Edit, Delete>>)

GlEntriesController == Controller("finance", <<"finance", "gl", "entries">>, <<
  List, One, New, Edit, Delete>>)

GlReportsController == Controller("finance", <<"finance", "gl">>, <<
  Get(<<"trial-balance">>), Get(<<"account-balance">>)>>)

GlPeriodsController == Controller("finance", <<"finance", "gl", "periods">>, <<
  List, New, Do("close", "approve"), Do("lock", "approve"), Do("unlock", "approve")>>)

BankAccountsController == Controller("finance", <<"finance", "bank-accounts">>, <<
  List, One, New, Edit, Delete, Get(<<":", "transactions">>), Do("import", "create"),
  R("POST", <<"transactions", ":", "reconcile">>, "update")>>)

DeliveryChallansController == Controller("finance", <<"finance", "delivery-challans">>, <<
  List, One, New, Do("dispatch", "update"), Do("pod", "update"),
  Do("confirm-delivery", "approve")>>)

BuyerInvoicesController == Controller("finance", <<"finance", "buyer-invoices">>, <<
  List, Get(<<"ageing">>), One, Do("collect", "update"), Do("dispute", "update"),
  Do("clear-dispute", "update")>>)

\* of HrModule, in the order it registers them.
DepartmentsController == Controller("hr", <<"hr", "departments">>, <<New, List, One, Edit>>)

DesignationsController == Controller("hr", <<"hr", "designations">>, <<New, List, One, Edit>>)

EmployeesController == Controller("hr", <<"hr", "employees">>, <<
  New, List, One, Edit, Do("secrets", "update"),
  R("GET", <<":", "secrets", "reveal">>, "approve"), Do("terminate", "approve"),
  Do("resign", "approve")>>)

LeaveTypesController == Controller("hr", <<"hr", "leave-types">>, <<New, List, Edit>>)

LeaveRequestsController == Controller("hr", <<"hr", "leave-requests">>, <<
  R("POST", <<"apply">>, "create"), R("PATCH", <<":", "approve">>, "approve"),
  R("PATCH", <<":", "reject">>, "approve"), R("PATCH", <<":", "cancel">>, "update")>>)

LeaveBalancesController == Controller("hr", <<"hr", "leave-balances">>, <<
  List, R("POST", <<"carry-forward">>, "approve")>>)

AttendanceController == Controller("hr", <<"hr", "attendance">>, <<
  R("POST", <<"biometric-sync">>, "create"), R("POST", <<"corrections">>, "update"), List,
  Get(<<"lop">>)>>)

PfAccountsController == Controller("hr", <<"hr", "pf-accounts">>, <<
  R("POST", <<"enroll">>, "create"), Get(<<"contributions", "calculate">>),
  Get(<<"employee", ":">>), Do("contributions", "create"), Get(<<":", "statement">>)>>)

GratuityController == Controller("hr", <<"hr", "gratuity">>, <<
  R("POST", <<"run-monthly-accrual">>, "approve"), Get(<<":", "entitlement">>),
  Get(<<":", "provisions">>)>>)

Routes == FlattenSeq(<<
  HealthController, AuthController, UsersController, RolesController, NotificationsController,
  AuditController, ComplianceController, BuyersController, ArticlesController,
  OrdersController, QuotationsController, SamplesController, ComplaintsController,
  CapaActionsController, VendorsController, PurchaseOrdersController, GoodsReceiptsController,
  VendorInvoicesController, BomController, ArticleBomController, CostSheetsController,
  ProductionOrdersController, DailyProductionController, QcResultsController,
  MachinesController, ScrapController, FactoryMastersController, WarehousesController,
  StockItemsController, StockTransactionsController, StockCountsController,
  StockSummaryController, ChartOfAccountsController, GlEntriesController, GlReportsController,
  GlPeriodsController, BankAccountsController, DeliveryChallansController,
  BuyerInvoicesController, DepartmentsController, DesignationsController, EmployeesController,
  LeaveTypesController, LeaveRequestsController, LeaveBalancesController,
  AttendanceController, PfAccountsController, GratuityController>>)

\* The path of a call of route i, with an id for every parameter: no id is spelled like
\* a segment of a path.
Called(i) == [k \in DOMAIN Routes[i].path |-> IF Routes[i].path[k] = ":" THEN "id" ELSE Routes[i].path[k]]

Matches(j, method, path) ==
  /\ Routes[j].method = method
  /\ Len(Routes[j].path) = Len(path)
  /\ \A k \in DOMAIN path : Routes[j].path[k] \in {":", path[k]}

\* The route that takes a call of route i: the first that matches it.
Reached ==
  [i \in DOMAIN Routes |->
     CHOOSE j \in 1..i :
       /\ Matches(j, Routes[i].method, Called(i))
       /\ \A k \in 1..(j - 1) : ~Matches(k, Routes[i].method, Called(i))]

\* RbacGuard: nothing is asked for, or the token has everything, one of the permissions
\* asked for, or everything of its module.
Permitted(permissions, needs) ==
  \/ needs = {}
  \/ <<"*", "*">> \in permissions
  \/ \E p \in needs : p \in permissions \/ <<p[1], "*">> \in permissions
====
