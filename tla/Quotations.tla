---- MODULE Quotations ----
(***************************************************************************)
(* Quotations of sales orders: QuotationsService.  A quotation is a draft, *)
(* is sent, and is closed as won or lost; an order has one won quotation.  *)
(* The price stands for all that an edit may change.  What a write has not *)
(* seen is recorded in quoteOvertaken, which no guard looks at.            *)
(***************************************************************************)
EXTENDS Requests

CONSTANTS
  Quotes,       \* rows of ord.quotations
  SalesOrders,  \* their orders
  QuoteOrder,   \* the order of each quotation
  Prices        \* quoted prices

ASSUME QuotationsAssumption == QuoteOrder \in [Quotes -> SalesOrders] /\ Prices # {}

VARIABLES
  orderOpen,      \* orders that are neither cancelled nor delivered
  quote,          \* status and price of each quotation
  quoteReq,       \* the request of each client
  wonEvents,      \* <<quotation, price>> of each quotation.won
  quoteOvertaken  \* quotations written by a request that had seen something old

quotationVars == <<orderOpen, quote, quoteReq, wonEvents, quoteOvertaken>>

QuoteStatus == {"none", "draft", "sent", "won", "lost"}
QuoteOps == {"create", "update", "populate", "send", "win", "lose"}

QuotationsInit ==
  /\ orderOpen = SalesOrders
  /\ quote = [q \in Quotes |-> [status |-> "none", price |-> CHOOSE p \in Prices : TRUE]]
  /\ quoteReq = [c \in Clients |-> Idle]
  /\ wonEvents = {}
  /\ quoteOvertaken = {}

\* Mutant: a won quotation can still be edited.
QuoteAllowsWon(op) ==
  CASE op = "create" -> {"none"}
    [] op \in {"update", "populate"} -> {"draft", "won"}
    [] op = "send" -> {"draft"}
    [] OTHER -> {"sent"}

\* The statuses from which an operation proceeds.
QuoteAllows(op) ==
  CASE op = "create" -> {"none"}
    [] op \in {"update", "populate", "send"} -> {"draft"}
    [] OTHER -> {"sent"}

\* An order is cancelled or delivered.
CloseOrder(o) ==
  /\ o \in orderOpen
  /\ orderOpen' = orderOpen \ {o}
  /\ UNCHANGED <<quote, quoteReq, wonEvents, quoteOvertaken>>

\* The first await of a method: the quotation, or for create its order, is read
\* and checked.
ReadQuote(c) ==
  /\ quoteReq[c] = Idle
  /\ \E op \in QuoteOps, q \in Quotes :
       /\ quote[q].status \in QuoteAllows(op)
       /\ op = "create" => QuoteOrder[q] \in orderOpen
       /\ quoteReq' = [quoteReq EXCEPT ![c] =
            [op |-> op, row |-> q, price |-> quote[q].price, counted |-> FALSE, stale |-> FALSE]]
  /\ UNCHANGED <<orderOpen, quote, wonEvents, quoteOvertaken>>

\* Mutant: the count looks for quotations that are still open.
OtherWinnersSent(q) ==
  {w \in Quotes \ {q} : quote[w].status = "sent" /\ QuoteOrder[w] = QuoteOrder[q]}

\* close(won) counts the other won quotations of the order, before it writes.
OtherWinners(q) ==
  {w \in Quotes \ {q} : quote[w].status = "won" /\ QuoteOrder[w] = QuoteOrder[q]}

CountWinners(c) ==
  /\ quoteReq[c].op = "win"
  /\ ~quoteReq[c].counted
  /\ OtherWinners(quoteReq[c].row) = {}
  /\ quoteReq' = [quoteReq EXCEPT ![c].counted = TRUE]
  /\ UNCHANGED <<orderOpen, quote, wonEvents, quoteOvertaken>>

\* quotation.update where id.  Whoever has read the row, or has counted the
\* winners of its order, has now seen something old.
WriteQuote(c, next, new) ==
  LET q == quoteReq[c].row
      sees(d) == \/ quoteReq[d].row = q
                 \/ /\ quoteReq[d].op = "win"
                    /\ quoteReq[d].counted
                    /\ QuoteOrder[quoteReq[d].row] = QuoteOrder[q]
  IN /\ quote' = [quote EXCEPT ![q] = new]
     /\ quoteReq' = Overtake(quoteReq, c, next, sees)
     /\ quoteOvertaken' = IF quoteReq[c].stale THEN quoteOvertaken \cup {q} ELSE quoteOvertaken
     /\ UNCHANGED <<orderOpen, wonEvents>>

\* create inserts a row of its own, with a new number: two creates never meet.
CreateQuote(c) ==
  /\ quoteReq[c].op = "create"
  /\ quote[quoteReq[c].row].status = "none"
  /\ \E p \in Prices : WriteQuote(c, Idle, [status |-> "draft", price |-> p])

UpdateQuote(c) ==
  /\ quoteReq[c].op = "update"
  /\ \E p \in Prices : WriteQuote(c, Idle, [quote[quoteReq[c].row] EXCEPT !.price = p])

\* autoPopulateCostFromBom reads the BOM, which must be approved, and its cost sheet
\* after it has checked the quotation, and writes the sheet's selling price.
PopulateQuote(c) ==
  /\ quoteReq[c].op = "populate"
  /\ \E sellingPrice \in Prices :
       WriteQuote(c, Idle, [quote[quoteReq[c].row] EXCEPT !.price = sellingPrice])

SendQuote(c) ==
  /\ quoteReq[c].op = "send"
  /\ WriteQuote(c, Idle, [quote[quoteReq[c].row] EXCEPT !.status = "sent"])

LoseQuote(c) ==
  /\ quoteReq[c].op = "lose"
  /\ WriteQuote(c, Idle, [quote[quoteReq[c].row] EXCEPT !.status = "lost"])

WinQuote(c) ==
  /\ quoteReq[c].op = "win"
  /\ quoteReq[c].counted
  /\ WriteQuote(c, [quoteReq[c] EXCEPT !.op = "won"], [quote[quoteReq[c].row] EXCEPT !.status = "won"])

\* quotation.won carries the price that was read at the start.
AnnounceWon(c) ==
  /\ quoteReq[c].op = "won"
  /\ wonEvents' = wonEvents \cup {<<quoteReq[c].row, quoteReq[c].price>>}
  /\ quoteReq' = [quoteReq EXCEPT ![c] = Idle]
  /\ UNCHANGED <<orderOpen, quote, quoteOvertaken>>

\* The count refuses the request, or its process dies.
DropQuoteRequest(c) ==
  /\ quoteReq[c] # Idle
  /\ quoteReq' = [quoteReq EXCEPT ![c] = Idle]
  /\ UNCHANGED <<orderOpen, quote, wonEvents, quoteOvertaken>>

QuotationsNext ==
  \/ \E o \in SalesOrders : CloseOrder(o)
  \/ \E c \in Clients :
       \/ ReadQuote(c)
       \/ CountWinners(c)
       \/ CreateQuote(c)
       \/ UpdateQuote(c)
       \/ PopulateQuote(c)
       \/ SendQuote(c)
       \/ LoseQuote(c)
       \/ WinQuote(c)
       \/ AnnounceWon(c)
       \/ DropQuoteRequest(c)

QuotationsSpec == QuotationsInit /\ [][QuotationsNext]_quotationVars

QuoteRequests ==
  {Idle} \cup [op : QuoteOps \cup {"won"}, row : Quotes, price : Prices,
               counted : BOOLEAN, stale : BOOLEAN]

\* Types, and: a request past the count is closing a quotation as won.
QuotationsTypeOK ==
  /\ orderOpen \subseteq SalesOrders
  /\ quote \in [Quotes -> [status : QuoteStatus, price : Prices]]
  /\ quoteReq \in [Clients -> QuoteRequests]
  /\ wonEvents \subseteq Quotes \X Prices
  /\ quoteOvertaken \subseteq Quotes

\* An order has at most one won quotation, unless one of the winners was written
\* by a close whose count another request had overtaken: nothing but the count
\* before the write keeps a second winner out (quotations.service.ts, close).
OneWinner ==
  \A q, w \in Quotes :
    /\ q # w
    /\ QuoteOrder[q] = QuoteOrder[w]
    /\ quote[q].status = "won"
    /\ quote[w].status = "won"
    => {q, w} \cap quoteOvertaken # {}

\* A quotation announced as won is won, at the price announced, unless a request
\* wrote over a change it had not seen: an edit that overlaps a send changes the
\* price of a quotation that is no longer a draft (update and close).
WonAsAnnounced ==
  \A e \in wonEvents :
    quote[e[1]] = [status |-> "won", price |-> e[2]] \/ e[1] \in quoteOvertaken
====
