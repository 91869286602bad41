---- MODULE Boms ----
(***************************************************************************)
(* Bills of material of an article and their cost sheets: BomService and   *)
(* CostSheetsService.  A draft is edited and deleted, and approved in a    *)
(* transaction that supersedes the approved one; each operation reads the  *)
(* status before it writes by id.                                          *)
(***************************************************************************)
EXTENDS Requests

CONSTANTS
  BomRows,     \* rows of mfg.bom_headers of one article
  LineCosts,   \* what the lines of a BOM cost, material and trims
  Margins      \* target margins, in percent

ASSUME BomsAssumption == LineCosts \cup Margins \subseteq Nat

VARIABLES
  bom,        \* status and cost of the lines of each BOM
  costSheet,  \* the cost sheet of each BOM
  built,      \* BOMs that production orders refer to
  bomReq,     \* the request of each client
  bomStale    \* BOMs written by a request that had read an old row

bomVars == <<bom, costSheet, built, bomReq, bomStale>>

NoBom == [status |-> "none", lines |-> 0]
Deleted == [status |-> "deleted", lines |-> 0]
NoSheet == [made |-> FALSE, total |-> 0, margin |-> 0, price |-> 0]

BomsInit ==
  /\ bom = [b \in BomRows |-> NoBom]
  /\ costSheet = [b \in BomRows |-> NoSheet]
  /\ built = {}
  /\ bomReq = [c \in Clients |-> Idle]
  /\ bomStale = {}

Stored(b) == bom[b] \notin {NoBom, Deleted}

\* create, from lines that are given or those of another BOM of the article.  The
\* version is checked by a unique index.
CreateBom ==
  /\ \E b \in BomRows, lines \in LineCosts :
       /\ bom[b] = NoBom
       /\ bom' = [bom EXCEPT ![b] = [status |-> "draft", lines |-> lines]]
  /\ UNCHANGED <<costSheet, built, bomReq, bomStale>>

\* Mutant: an approved BOM may be edited.
DraftOrApproved(status) == status \in {"draft", "approved"}

\* assertDraft
Draft(status) == status = "draft"

BeginBom(c, op, b, seen) ==
  /\ bomReq[c] = Idle
  /\ Stored(b)
  /\ bomReq' = [bomReq EXCEPT ![c] = [op |-> op, row |-> b, seen |-> seen, stale |-> FALSE]]

\* update, approve and deleteDraft read a draft.
ReadBom(c) ==
  /\ \E b \in BomRows, op \in {"edit", "approve", "delete"} :
       /\ Draft(bom[b].status)
       /\ BeginBom(c, op, b, NoSheet)
  /\ UNCHANGED <<bom, costSheet, built, bomStale>>

\* Client c ends a request that has written BOMs: others have read old ones.
EndBom(c, written) ==
  /\ bomReq' = Overtake(bomReq, c, Idle,
       LAMBDA d : bomReq[d].row \in written /\ bomReq[d].op \in {"edit", "approve", "delete", "build", "generate"})
  /\ bomStale' = IF bomReq[c].stale THEN bomStale \cup {bomReq[c].row} ELSE bomStale

\* The transaction replaces the lines.
EditBom(c) ==
  /\ bomReq[c].op = "edit"
  /\ LET b == bomReq[c].row
     IN /\ Stored(b)
        /\ \E lines \in LineCosts : bom' = [bom EXCEPT ![b].lines = lines]
        /\ EndBom(c, {b})
  /\ UNCHANGED <<costSheet, built>>

\* The transaction supersedes the approved BOM and approves this one.  One that meets
\* another approval is rolled back by the unique index.
ApproveBom(c) ==
  /\ bomReq[c].op = "approve"
  /\ LET b == bomReq[c].row
         others == {o \in BomRows \ {b} : bom[o].status = "approved"}
     IN /\ Stored(b)
        /\ bom' = [o \in BomRows |-> IF o = b THEN [bom[o] EXCEPT !.status = "approved"]
                                     ELSE IF o \in others THEN [bom[o] EXCEPT !.status = "superseded"]
                                     ELSE bom[o]]
        /\ EndBom(c, others \cup {b})
  /\ UNCHANGED <<costSheet, built>>

\* The delete fails for a BOM that a cost sheet or a production order refers to.
DeleteBom(c) ==
  /\ bomReq[c].op = "delete"
  /\ LET b == bomReq[c].row
     IN /\ Stored(b)
        /\ ~costSheet[b].made
        /\ b \notin built
        /\ bom' = [bom EXCEPT ![b] = Deleted]
        /\ EndBom(c, {b})
  /\ UNCHANGED <<costSheet, built>>

\* The production order of an article reads its approved BOM, and is inserted.
ReadBomToBuild(c) ==
  /\ \E b \in BomRows : bom[b].status = "approved" /\ BeginBom(c, "build", b, NoSheet)
  /\ UNCHANGED <<bom, costSheet, built, bomStale>>

BuildFromBom(c) ==
  /\ bomReq[c].op = "build"
  /\ Stored(bomReq[c].row)
  /\ built' = built \cup {bomReq[c].row}
  /\ bomReq' = [bomReq EXCEPT ![c] = Idle]
  /\ UNCHANGED <<bom, costSheet, bomStale>>

\* computeSellingPrice
SellingPrice(total, margin) == (total * (100 + margin)) \div 100

\* generate reads the lines and their latest rates; updateMargin reads the sheet.
ReadForSheet(c) ==
  /\ \E b \in BomRows, margin \in Margins :
       \/ BeginBom(c, "generate", b,
            [made |-> costSheet[b].made, total |-> bom[b].lines, margin |-> margin,
             price |-> SellingPrice(bom[b].lines, margin)])
       \/ /\ costSheet[b].made
          /\ BeginBom(c, "margin", b,
               [costSheet[b] EXCEPT !.margin = margin, !.price = SellingPrice(costSheet[b].total, margin)])
  /\ UNCHANGED <<bom, costSheet, built, bomStale>>

\* Mutant: a new margin does not change the price.
WithMarginOnly(sheet, seen) == [sheet EXCEPT !.margin = seen.margin]

\* updateMargin writes the margin and the price.
WithMargin(sheet, seen) == [sheet EXCEPT !.margin = seen.margin, !.price = seen.price]

\* generate updates the sheet it has found, or inserts one, which the unique index
\* refuses when there is one by now.
WriteSheet(c) ==
  /\ bomReq[c].op \in {"generate", "margin"}
  /\ LET r == bomReq[c]
         next == IF r.op = "margin" THEN WithMargin(costSheet[r.row], r.seen)
                 ELSE [r.seen EXCEPT !.made = TRUE]
     IN /\ Stored(r.row)
        /\ r.op = "generate" => r.seen.made = costSheet[r.row].made
        /\ costSheet' = [costSheet EXCEPT ![r.row] = next]
        /\ bomReq' = Overtake(bomReq, c, Idle,
             LAMBDA d : bomReq[d].row = r.row /\ bomReq[d].op \in {"generate", "margin"})
        /\ bomStale' = IF r.stale THEN bomStale \cup {r.row} ELSE bomStale
  /\ UNCHANGED <<bom, built>>

DropBomRequest(c) ==
  /\ bomReq[c] # Idle
  /\ bomReq' = [bomReq EXCEPT ![c] = Idle]
  /\ UNCHANGED <<bom, costSheet, built, bomStale>>

BomsNext ==
  \/ CreateBom
  \/ \E c \in Clients :
       \/ ReadBom(c)
       \/ EditBom(c)
       \/ ApproveBom(c)
       \/ DeleteBom(c)
       \/ ReadBomToBuild(c)
       \/ BuildFromBom(c)
       \/ ReadForSheet(c)
       \/ WriteSheet(c)
       \/ DropBomRequest(c)

BomsSpec == BomsInit /\ [][BomsNext]_bomVars

BomsTypeOK ==
  /\ bom \in [BomRows -> [status : {"none", "draft", "approved", "superseded", "deleted"}, lines : LineCosts \cup {0}]]
  /\ costSheet \in [BomRows -> [made : BOOLEAN, total : LineCosts \cup {0},
                                margin : Margins \cup {0}, price : Nat]]
  /\ built \subseteq BomRows
  /\ \A c \in Clients : bomReq[c] # Idle =>
       bomReq[c].op \in {"edit", "approve", "delete", "build", "generate", "margin"}
  /\ bomStale \subseteq BomRows

\* The lines of an approved BOM stay, and it is not deleted nor a draft again, unless a
\* request that had read the draft wrote after the approval (update, deleteDraft).
ApprovedBomsStand ==
  [][\A b \in BomRows :
       bom[b].status = "approved" /\ b \notin bomStale' =>
         /\ bom'[b].lines = bom[b].lines
         /\ bom'[b].status \in {"approved", "superseded"}]_bomVars

\* What a production order is made from was approved and is still there, or was
\* superseded since.
BuiltFromApproved ==
  \A b \in built \ bomStale : bom[b].status \in {"approved", "superseded"}

\* The price on a cost sheet is that of its total and its margin, unless two requests
\* wrote the sheet from one state of it (generate, updateMargin).
PriceFollowsCost ==
  \A b \in BomRows \ bomStale :
    costSheet[b].price = SellingPrice(costSheet[b].total, costSheet[b].margin)
====
