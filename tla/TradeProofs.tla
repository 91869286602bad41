---------------------------- MODULE TradeProofs -----------------------------
(***************************************************************************)
(* What is proved of the documents of sales and purchasing, each in its own *)
(* module of the model.  A part has an inductive invariant: its tables, and *)
(* what each request has read, which is still so unless the request is stale. *)
(* What an operation writes follows from what it has read; what it does to *)
(* the other requests is that those that had read the row become stale.    *)
(***************************************************************************)
EXTENDS
  Quotations, Complaints, MasterData, Receivables, Payables, Sums, FiniteSetTheorems, TLAPS

\* The requests after a step of client c: it goes on as next, and the requests of the
\* clients in marks have seen something old.
Marked(reqs, c, next, marks) ==
  [d \in Clients |->
     IF d = c THEN next
     ELSE IF reqs[d] # Idle /\ d \in marks THEN [reqs[d] EXCEPT !.stale = TRUE]
     ELSE reqs[d]]

(*************************************************************************)
(* Quotations.                                                           *)
(* A request that nothing has overtaken holds the price and a status of its *)
(* quotation, and a request that has counted has found no other winner.  *)
(*************************************************************************)

\* What a request on a quotation has read, if nothing was written since.
QuoteRead(r, quotes, over) ==
  /\ r # Idle /\ r.op # "won" /\ ~ r.stale =>
       /\ quotes[r.row].status \in QuoteAllows(r.op)
       /\ quotes[r.row].price = r.price
       /\ r.op = "win" /\ r.counted =>
            \A w \in Quotes \ {r.row} :
              quotes[w].status = "won" => QuoteOrder[w] # QuoteOrder[r.row]
  /\ r.op = "won" =>
       quotes[r.row] = [status |-> "won", price |-> r.price] \/ r.row \in over

QuotationsInv ==
  /\ QuotationsTypeOK
  /\ \A c \in Clients : QuoteRead(quoteReq[c], quote, quoteOvertaken)
  /\ OneWinner
  /\ WonAsAnnounced

\* The operations, and what they allow.
LEMMA QuoteOpsAllow ==
  /\ Idle.op = "idle" /\ "won" \notin QuoteOps
  /\ \A op \in QuoteOps : "won" \notin QuoteAllows(op)
  /\ \A r \in QuoteRequests : r # Idle => r.op \in QuoteOps \cup {"won"}
  /\ \A r \in QuoteRequests : r.op # "idle" => r # Idle
BY DEF Idle, QuoteOps, QuoteAllows, QuoteRequests

\* A request without a row is as good as none.
LEMMA QuoteIdle ==
  ASSUME NEW quotes, NEW over PROVE QuoteRead(Idle, quotes, over)
BY DEF QuoteRead, Idle

\* Requests begin, count and end.
LEMMA QuoteRequestStep ==
  ASSUME QuotationsInv, NEW c \in Clients, NEW r \in QuoteRequests,
         quoteReq' = [quoteReq EXCEPT ![c] = r], UNCHANGED <<quote, quoteOvertaken>>,
         QuoteRead(r, quote, quoteOvertaken), orderOpen' \subseteq SalesOrders,
         \A e \in wonEvents' : e \in wonEvents \/
            (e \in Quotes \X Prices /\ quoteReq[c].op = "won" /\ e = <<quoteReq[c].row, quoteReq[c].price>>)
  PROVE  QuotationsInv'
<1>1. QuotationsTypeOK'
  BY DEF QuotationsInv, QuotationsTypeOK
<1>2. \A d \in Clients : QuoteRead(quoteReq'[d], quote, quoteOvertaken)
  BY DEF QuotationsInv, QuotationsTypeOK
<1>3. OneWinner'
  BY DEF QuotationsInv, OneWinner
<1>4. WonAsAnnounced'
  <2>1. ASSUME NEW e \in wonEvents'
        PROVE  quote[e[1]] = [status |-> "won", price |-> e[2]] \/ e[1] \in quoteOvertaken
    <3>1. CASE e \in wonEvents
      BY <3>1 DEF QuotationsInv, WonAsAnnounced
    <3>2. CASE quoteReq[c].op = "won" /\ e = <<quoteReq[c].row, quoteReq[c].price>>
      <4>1. QuoteRead(quoteReq[c], quote, quoteOvertaken)
        BY DEF QuotationsInv
      <4>2. e[1] = quoteReq[c].row /\ e[2] = quoteReq[c].price
        BY <3>2
      <4>3. QED
        BY <3>2, <4>1, <4>2 DEF QuoteRead
    <3>3. QED
      BY <3>1, <3>2
  <2>2. QED
    BY <2>1 DEF WonAsAnnounced
<1>5. QED
  BY <1>1, <1>2, <1>3, <1>4 DEF QuotationsInv

\* quotation.update by a request: it may be won only after the count.
LEMMA WriteQuoteStep ==
  ASSUME QuotationsInv, NEW c \in Clients, NEW next \in QuoteRequests, NEW new,
         new \in [status : QuoteStatus, price : Prices],
         quoteReq[c].op \in QuoteOps, WriteQuote(c, next, new),
         new.status = "won" =>
            \/ quote[quoteReq[c].row].status = "won"
            \/ quoteReq[c].op = "win" /\ quoteReq[c].counted,
         \/ next = Idle
         \/ /\ next = [quoteReq[c] EXCEPT !.op = "won"]
            /\ new = [quote[quoteReq[c].row] EXCEPT !.status = "won"]
  PROVE  QuotationsInv'
<1>1. PICK r, q : r = quoteReq[c] /\ q = r.row
  OBVIOUS
<1>2. r \in QuoteRequests /\ r # Idle /\ q \in Quotes
  BY <1>1, QuoteOpsAllow DEF QuotationsInv, QuotationsTypeOK, QuoteRequests, QuoteOps, Idle
<1>3. /\ quote' = [quote EXCEPT ![q] = new]
      /\ quoteOvertaken' = IF r.stale THEN quoteOvertaken \cup {q} ELSE quoteOvertaken
      /\ UNCHANGED <<orderOpen, wonEvents>>
      /\ quoteReq' = [d \in Clients |->
            IF d = c THEN next
            ELSE IF quoteReq[d] # Idle /\ (\/ quoteReq[d].row = q
                                           \/ /\ quoteReq[d].op = "win" /\ quoteReq[d].counted
                                              /\ QuoteOrder[quoteReq[d].row] = QuoteOrder[q])
                 THEN [quoteReq[d] EXCEPT !.stale = TRUE] ELSE quoteReq[d]]
  BY <1>1 DEF WriteQuote, Overtake
<1>4. /\ quote'[q] = new /\ \A w \in Quotes : w # q => quote'[w] = quote[w]
      /\ quote' \in [Quotes -> [status : QuoteStatus, price : Prices]]
  BY <1>2, <1>3 DEF QuotationsInv, QuotationsTypeOK
<1>5. QuoteRead(r, quote, quoteOvertaken)
  BY <1>1 DEF QuotationsInv
<1>6. ASSUME NEW d \in Clients, d # c
      PROVE  \E x : /\ x = quoteReq'[d] /\ x \in QuoteRequests
                    /\ QuoteRead(x, quote', quoteOvertaken')
  <2>1. PICK y : y = quoteReq[d]
    OBVIOUS
  <2>2. y \in QuoteRequests /\ QuoteRead(y, quote, quoteOvertaken)
    BY <2>1 DEF QuotationsInv, QuotationsTypeOK
  <2>3. CASE y = Idle
    <3>1. quoteReq'[d] = Idle
      BY <1>3, <1>6, <2>1, <2>3
    <3>2. QED
      BY <3>1, QuoteIdle DEF QuoteRequests
  <2>4. CASE y # Idle
    <3>1. PICK x, sees :
            /\ x = quoteReq'[d]
            /\ sees = (\/ y.row = q
                       \/ y.op = "win" /\ y.counted /\ QuoteOrder[y.row] = QuoteOrder[q])
      OBVIOUS
    <3>2. x = IF sees THEN [y EXCEPT !.stale = TRUE] ELSE y
      BY <1>3, <1>6, <2>1, <2>4, <3>1
    <3>3. /\ x \in QuoteRequests /\ x # Idle /\ x.op = y.op /\ x.row = y.row /\ x.price = y.price
          /\ x.counted = y.counted /\ (sees => x.stale) /\ (~ sees => x = y) /\ y.row \in Quotes
      BY <2>2, <2>4, <3>2 DEF QuoteRequests, Idle
    <3>4. CASE y.op = "won"
      <4>1. quote[y.row] = [status |-> "won", price |-> y.price] \/ y.row \in quoteOvertaken
        BY <2>2, <3>4 DEF QuoteRead
      <4>2. y.row = q /\ y.row \notin quoteOvertaken => r.stale
        <5>1. SUFFICES ASSUME y.row = q, y.row \notin quoteOvertaken, ~ r.stale PROVE FALSE
          BY <1>2 DEF QuoteRequests
        <5>2. quote[q].status = "won"
          BY <4>1, <5>1
        <5>3. r.op \in QuoteOps /\ quote[q].status \in QuoteAllows(r.op)
          BY <1>1, <1>2, <1>5, <5>1, QuoteOpsAllow DEF QuoteRead
        <5>4. QED
          BY <5>2, <5>3, QuoteOpsAllow
      <4>3. y.row \in quoteOvertaken' \/ quote'[y.row] = [status |-> "won", price |-> y.price]
        BY <1>3, <1>4, <3>3, <4>1, <4>2
      <4>4. QED
        BY <3>1, <3>3, <3>4, <4>3 DEF QuoteRead
    <3>5. CASE y.op # "won"
      <4>1. CASE sees
        BY <3>1, <3>3, <3>5, <4>1 DEF QuoteRead
      <4>2. CASE ~ sees
        <5>1. y.row # q /\ quote'[y.row] = quote[y.row]
          BY <1>4, <3>1, <3>3, <4>2
        <5>2. y.op = "win" /\ y.counted => QuoteOrder[q] # QuoteOrder[y.row]
          BY <3>1, <4>2
        <5>3. QuoteRead(y, quote', quoteOvertaken')
          BY <1>4, <2>2, <3>5, <5>1, <5>2 DEF QuoteRead
        <5>4. QED
          BY <3>1, <3>3, <4>2, <5>3
      <4>3. QED
        BY <4>1, <4>2
    <3>6. QED
      BY <3>4, <3>5
  <2>5. QED
    BY <2>3, <2>4
<1>7. quoteReq'[c] = next
  BY <1>3
<1>8. QuoteRead(next, quote', quoteOvertaken')
  <2>1. CASE next = Idle
    BY <2>1, QuoteIdle
  <2>2. CASE next = [r EXCEPT !.op = "won"] /\ new = [quote[q] EXCEPT !.status = "won"]
    <3>1. next.op = "won" /\ next.row = q /\ next.price = r.price
      BY <1>1, <1>2, <2>2 DEF QuoteRequests
    <3>2. ~ r.stale => quote[q].price = r.price
      BY <1>1, <1>2, <1>5, QuoteOpsAllow DEF QuoteRead
    <3>3. quote[q] \in [status : QuoteStatus, price : Prices]
      BY <1>2 DEF QuotationsInv, QuotationsTypeOK
    <3>4. new = [status |-> "won", price |-> quote[q].price]
      BY <2>2, <3>3
    <3>5. QED
      BY <1>3, <1>4, <3>1, <3>2, <3>4 DEF QuoteRead
  <2>3. QED
    BY <1>1, <2>1, <2>2
<1>9. QuotationsTypeOK'
  <2>1. \A d \in Clients : quoteReq'[d] \in QuoteRequests
    BY <1>6, <1>7
  <2>2. quoteReq' \in [Clients -> QuoteRequests]
    BY <1>3, <2>1
  <2>3. QED
    BY <1>2, <1>3, <1>4, <2>2 DEF QuotationsInv, QuotationsTypeOK
<1>10. \A d \in Clients : QuoteRead(quoteReq'[d], quote', quoteOvertaken')
  BY <1>6, <1>7, <1>8
<1>11. OneWinner'
  <2>1. ASSUME NEW w \in Quotes, w # q, QuoteOrder[w] = QuoteOrder[q],
               quote[w].status = "won", new.status = "won"
        PROVE  {w, q} \cap quoteOvertaken' # {}
    <3>1. CASE quote[q].status = "won"
      BY <1>2, <1>3, <2>1, <3>1 DEF QuotationsInv, OneWinner
    <3>2. CASE r.op = "win" /\ r.counted
      <4>1. r.stale
        BY <1>1, <1>2, <1>5, <2>1, <3>2, QuoteOpsAllow DEF QuoteRead, QuoteRequests
      <4>2. QED
        BY <1>3, <4>1
    <3>3. QED
      BY <1>1, <2>1, <3>1, <3>2
  <2>2. ASSUME NEW w \in Quotes, NEW v \in Quotes, w # v, QuoteOrder[w] = QuoteOrder[v],
               quote'[w].status = "won", quote'[v].status = "won"
        PROVE  {w, v} \cap quoteOvertaken' # {}
    <3>1. CASE w = q
      BY <1>4, <2>1, <2>2, <3>1
    <3>2. CASE v = q
      BY <1>4, <2>1, <2>2, <3>2
    <3>3. CASE w # q /\ v # q
      BY <1>3, <1>4, <2>2, <3>3 DEF QuotationsInv, OneWinner
    <3>4. QED
      BY <3>1, <3>2, <3>3
  <2>3. QED
    BY <2>2 DEF OneWinner
<1>12. WonAsAnnounced'
  <2>1. ASSUME NEW e \in wonEvents
        PROVE  quote'[e[1]] = [status |-> "won", price |-> e[2]] \/ e[1] \in quoteOvertaken'
    <3>1. quote[e[1]] = [status |-> "won", price |-> e[2]] \/ e[1] \in quoteOvertaken
      BY DEF QuotationsInv, WonAsAnnounced
    <3>2. e[1] \in Quotes
      BY DEF QuotationsInv, QuotationsTypeOK
    <3>3. e[1] = q /\ q \notin quoteOvertaken => r.stale
      <4>1. SUFFICES ASSUME e[1] = q, q \notin quoteOvertaken, ~ r.stale PROVE FALSE
        BY <1>2 DEF QuoteRequests
      <4>2. quote[q].status = "won"
        BY <3>1, <4>1
      <4>3. r.op \in QuoteOps /\ quote[q].status \in QuoteAllows(r.op)
        BY <1>1, <1>2, <1>5, <4>1, QuoteOpsAllow DEF QuoteRead
      <4>4. QED
        BY <4>2, <4>3, QuoteOpsAllow
    <3>4. QED
      BY <1>3, <1>4, <3>1, <3>2, <3>3
  <2>2. QED
    BY <1>3, <2>1 DEF WonAsAnnounced
<1>13. QED
  BY <1>9, <1>10, <1>11, <1>12 DEF QuotationsInv

\* Each of the writes.
LEMMA QuoteWrites ==
  ASSUME QuotationsInv, NEW c \in Clients,
         CreateQuote(c) \/ UpdateQuote(c) \/ PopulateQuote(c) \/ SendQuote(c) \/ LoseQuote(c) \/ WinQuote(c)
  PROVE  QuotationsInv'
<1>1. PICK r, q, row : r = quoteReq[c] /\ q = r.row /\ row = quote[q]
  OBVIOUS
<1>2. r.op \in QuoteOps /\ r # Idle
  BY <1>1, QuoteOpsAllow
     DEF CreateQuote, UpdateQuote, PopulateQuote, SendQuote, LoseQuote, WinQuote, QuoteOps, Idle
<1>3. r \in QuoteRequests /\ q \in Quotes /\ row \in [status : QuoteStatus, price : Prices]
  BY <1>1, <1>2 DEF QuotationsInv, QuotationsTypeOK, QuoteRequests
<1>4. Idle \in QuoteRequests
  BY DEF QuoteRequests
<1>5. CASE CreateQuote(c)
  <2>1. PICK p \in Prices : WriteQuote(c, Idle, [status |-> "draft", price |-> p])
    BY <1>5 DEF CreateQuote
  <2>2. [status |-> "draft", price |-> p] \in [status : QuoteStatus, price : Prices]
    BY DEF QuoteStatus
  <2>3. QED
    BY <1>1, <1>2, <1>4, <2>1, <2>2, WriteQuoteStep
<1>6. ASSUME NEW p \in Prices, WriteQuote(c, Idle, [row EXCEPT !.price = p]) PROVE QuotationsInv'
  <2>1. /\ [row EXCEPT !.price = p] \in [status : QuoteStatus, price : Prices]
        /\ [row EXCEPT !.price = p].status = row.status
    BY <1>3
  <2>2. QED
    BY <1>1, <1>2, <1>4, <1>6, <2>1, WriteQuoteStep
<1>7. ASSUME NEW s \in {"sent", "lost"}, WriteQuote(c, Idle, [row EXCEPT !.status = s])
      PROVE  QuotationsInv'
  <2>1. /\ [row EXCEPT !.status = s] \in [status : QuoteStatus, price : Prices]
        /\ [row EXCEPT !.status = s].status # "won"
    BY <1>3 DEF QuoteStatus
  <2>2. QED
    BY <1>1, <1>2, <1>4, <1>7, <2>1, WriteQuoteStep
<1>8. CASE WinQuote(c)
  <2>1. PICK next, new : next = [r EXCEPT !.op = "won"] /\ new = [row EXCEPT !.status = "won"]
    OBVIOUS
  <2>2. WriteQuote(c, next, new) /\ r.op = "win" /\ r.counted
    BY <1>1, <1>8, <2>1 DEF WinQuote
  <2>3. next \in QuoteRequests /\ new \in [status : QuoteStatus, price : Prices]
    BY <1>2, <1>3, <2>1 DEF QuoteRequests, QuoteStatus
  <2>4. QED
    BY <1>1, <1>2, <2>1, <2>2, <2>3, WriteQuoteStep
<1>9. QED
  BY <1>1, <1>5, <1>6, <1>7, <1>8 DEF UpdateQuote, PopulateQuote, SendQuote, LoseQuote

\* Every step of the quotations keeps the invariant.
LEMMA QuotationsStep ==
  ASSUME QuotationsInv, [QuotationsNext]_quotationVars PROVE QuotationsInv'
<1>1. ASSUME NEW o \in SalesOrders, CloseOrder(o) PROVE QuotationsInv'
  <2>1. orderOpen' \subseteq SalesOrders /\ UNCHANGED <<quote, quoteReq, wonEvents, quoteOvertaken>>
    BY <1>1 DEF CloseOrder, QuotationsInv, QuotationsTypeOK
  <2>2. QED
    BY <2>1 DEF QuotationsInv, QuotationsTypeOK, OneWinner, WonAsAnnounced
<1>2. ASSUME NEW c \in Clients, ReadQuote(c) PROVE QuotationsInv'
  <2>1. PICK op \in QuoteOps, q \in Quotes :
          /\ quote[q].status \in QuoteAllows(op)
          /\ quoteReq' = [quoteReq EXCEPT ![c] = [op |-> op, row |-> q, price |-> quote[q].price,
                                                 counted |-> FALSE, stale |-> FALSE]]
    BY <1>2 DEF ReadQuote
  <2>2. PICK r : r = [op |-> op, row |-> q, price |-> quote[q].price, counted |-> FALSE, stale |-> FALSE]
    OBVIOUS
  <2>3. r \in QuoteRequests
    BY <2>2 DEF QuoteRequests, QuotationsInv, QuotationsTypeOK
  <2>4. QuoteRead(r, quote, quoteOvertaken)
    BY <2>1, <2>2, QuoteOpsAllow DEF QuoteRead
  <2>5. UNCHANGED <<orderOpen, quote, wonEvents, quoteOvertaken>> /\ orderOpen \subseteq SalesOrders
    BY <1>2 DEF ReadQuote, QuotationsInv, QuotationsTypeOK
  <2>6. QED
    BY <2>1, <2>2, <2>3, <2>4, <2>5, QuoteRequestStep
<1>3. ASSUME NEW c \in Clients, CountWinners(c) PROVE QuotationsInv'
  <2>1. PICK q : q = quoteReq[c]
    OBVIOUS
  <2>2. PICK r : r = [q EXCEPT !.counted = TRUE]
    OBVIOUS
  <2>3. /\ q.op = "win" /\ OtherWinners(q.row) = {} /\ quoteReq' = [quoteReq EXCEPT ![c] = r]
        /\ UNCHANGED <<orderOpen, quote, wonEvents, quoteOvertaken>>
    BY <1>3, <2>1, <2>2 DEF CountWinners
  <2>4. q \in QuoteRequests /\ q # Idle /\ QuoteRead(q, quote, quoteOvertaken)
    BY <2>1, <2>3, QuoteOpsAllow DEF QuotationsInv, QuotationsTypeOK
  <2>5. /\ r \in QuoteRequests /\ r # Idle /\ r.op = "win" /\ r.row = q.row
        /\ r.price = q.price /\ r.stale = q.stale
    BY <2>2, <2>3, <2>4 DEF QuoteRequests, Idle
  <2>6. QuoteRead(r, quote, quoteOvertaken)
    BY <2>3, <2>4, <2>5 DEF QuoteRead, OtherWinners
  <2>7. orderOpen \subseteq SalesOrders
    BY DEF QuotationsInv, QuotationsTypeOK
  <2>8. QED
    BY <2>3, <2>5, <2>6, <2>7, QuoteRequestStep
<1>4. ASSUME NEW c \in Clients, AnnounceWon(c) \/ DropQuoteRequest(c) PROVE QuotationsInv'
  <2>1. PICK r : r = quoteReq[c]
    OBVIOUS
  <2>2. /\ quoteReq' = [quoteReq EXCEPT ![c] = Idle]
        /\ UNCHANGED <<orderOpen, quote, quoteOvertaken>>
        /\ \/ wonEvents' = wonEvents
           \/ r.op = "won" /\ wonEvents' = wonEvents \cup {<<r.row, r.price>>}
    BY <1>4, <2>1 DEF AnnounceWon, DropQuoteRequest
  <2>3. r.op = "won" => <<r.row, r.price>> \in Quotes \X Prices
    BY <2>1, QuoteOpsAllow DEF QuotationsInv, QuotationsTypeOK, QuoteRequests
  <2>4. \A e \in wonEvents' : e \in wonEvents \/
            (e \in Quotes \X Prices /\ quoteReq[c].op = "won" /\ e = <<quoteReq[c].row, quoteReq[c].price>>)
    BY <2>1, <2>2, <2>3
  <2>5. Idle \in QuoteRequests /\ orderOpen' \subseteq SalesOrders
    BY <2>2 DEF QuoteRequests, QuotationsInv, QuotationsTypeOK
  <2>6. QED
    BY <2>2, <2>4, <2>5, QuoteIdle, QuoteRequestStep
<1>5. ASSUME NEW c \in Clients, CreateQuote(c) \/ UpdateQuote(c) \/ PopulateQuote(c) \/ SendQuote(c)
                                 \/ LoseQuote(c) \/ WinQuote(c)
      PROVE  QuotationsInv'
  BY <1>5, QuoteWrites
<1>6. CASE UNCHANGED quotationVars
  BY <1>6 DEF quotationVars, QuotationsInv, QuotationsTypeOK, OneWinner, WonAsAnnounced
<1>7. QED
  BY <1>1, <1>2, <1>3, <1>4, <1>5, <1>6 DEF QuotationsNext

\* No quotation exists at the start.
LEMMA QuotationsStart == QuotationsInit => QuotationsInv
<1> SUFFICES ASSUME QuotationsInit PROVE QuotationsInv
  OBVIOUS
<1>1. (CHOOSE p \in Prices : TRUE) \in Prices
  BY QuotationsAssumption
<1>2. QuotationsTypeOK
  BY <1>1 DEF QuotationsInit, QuotationsTypeOK, QuoteStatus, QuoteRequests
<1>3. \A c \in Clients : QuoteRead(quoteReq[c], quote, quoteOvertaken)
  BY QuoteIdle DEF QuotationsInit
<1>4. OneWinner /\ WonAsAnnounced
  BY DEF QuotationsInit, OneWinner, WonAsAnnounced
<1>5. QED
  BY <1>2, <1>3, <1>4 DEF QuotationsInv

(*************************************************************************)
(* Complaints and their corrective actions.                              *)
(* A request that nothing has overtaken holds the complaint, and the count of *)
(* the actions that are not done, as they are.                           *)
(*************************************************************************)

ComplaintRecords ==
  [status : ComplaintStatus \cup {"none"}, severe : BOOLEAN, rootCause : BOOLEAN]

CapaRequests ==
  [op : {"raise", "rootCause", "status", "resolved"}, row : ComplaintRows,
   to : ComplaintStatus \cup {"none", "mild", "severe"}, all : BOOLEAN, stale : BOOLEAN]
  \cup
  [op : {"add", "count"}, row : CapaRows, to : CapaStatus, all : BOOLEAN, stale : BOOLEAN]

\* All actions of the complaint of action a are done once a has status `to`.
AllDoneWith(actions, a, to) ==
  \A b \in CapaRows :
    CapaComplaint[b] = CapaComplaint[a] /\ actions[b] # "none"
      => (IF b = a THEN to ELSE actions[b]) = "done"

\* What a request has read of complaints and actions, if nothing was written since.
CapaRead(r, complaints, actions, over, told) ==
  /\ r.op = "raise" => /\ complaints[r.row] = NoComplaint
                       /\ r.to = "severe" => r.row \in told
  /\ r.op \in {"rootCause", "status"} => complaints[r.row].status # "none"
  /\ r.op = "status" => /\ r.to \in ComplaintStatus
                        /\ ~ r.stale => complaints[r.row].status # "resolved"
  /\ r.op = "resolved" => complaints[r.row].status = "resolved" \/ r.row \in over
  /\ r.op = "add" => actions[r.row] = "none" /\ complaints[CapaComplaint[r.row]].status # "none"
  /\ r.op = "count" => /\ actions[r.row] # "none"
                       /\ ~ r.stale => (r.all <=> AllDoneWith(actions, r.row, r.to))

\* No two requests insert the same row.
InsertsApart(reqs) ==
  \A c, d \in Clients :
    c # d /\ reqs[c].op \in {"raise", "add"} /\ reqs[d].op = reqs[c].op => reqs[c].row # reqs[d].row

ComplaintsInv ==
  /\ ComplaintsTypeOK
  /\ DOMAIN capaReq = Clients
  /\ \A k \in ComplaintRows : complaint[k].status = "none" => complaint[k] = NoComplaint
  /\ \A a \in CapaRows : capa[a] # "none" => complaint[CapaComplaint[a]].status # "none"
  /\ \A c \in Clients : CapaRead(capaReq[c], complaint, capa, capaOvertaken, escalated)
  /\ InsertsApart(capaReq)
  /\ AllDoneResolves
  /\ ResolvedAsAnnounced

\* Facts about the requests.
LEMMA CapaRequestKinds ==
  /\ Idle.op = "idle"
  /\ \A r \in CapaRequests : r # Idle /\ r.op # "idle" /\ r.stale \in BOOLEAN /\ r.all \in BOOLEAN
  /\ \A r \in CapaRequests :
       /\ r.op \in {"raise", "rootCause", "status", "resolved"} => r.row \in ComplaintRows
       /\ r.op \in {"add", "count"} =>
            r.row \in CapaRows /\ r.to \in CapaStatus /\ CapaComplaint[r.row] \in ComplaintRows
  /\ ComplaintStatus = {"open", "under_investigation", "resolved"}
  /\ NoComplaint \in ComplaintRecords /\ NoComplaint.status = "none" /\ ~ NoComplaint.severe
BY ComplaintsAssumption
   DEF Idle, CapaRequests, ComplaintStatus, ALLOWED_COMPLAINT_TRANSITIONS, NoComplaint, ComplaintRecords

\* A request that is not running has read nothing.
LEMMA CapaIdle ==
  ASSUME NEW k, NEW a, NEW o, NEW t PROVE CapaRead(Idle, k, a, o, t)
BY DEF CapaRead, Idle

\* The type of the requests, in a word.
LEMMA CapaTyped ==
  ASSUME DOMAIN capaReq = Clients
  PROVE  ComplaintsTypeOK <=>
           /\ complaint \in [ComplaintRows -> ComplaintRecords]
           /\ capa \in [CapaRows -> CapaStatus \cup {"none"}]
           /\ \A c \in Clients : capaReq[c] \in {Idle} \cup CapaRequests
           /\ resolvedEvents \subseteq ComplaintRows
           /\ capaOvertaken \subseteq ComplaintRows
           /\ \A k \in ComplaintRows : complaint[k].severe => k \in escalated
BY DEF ComplaintsTypeOK, ComplaintRecords, CapaRequests

\* A request begins or ends.
LEMMA CapaRequestStep ==
  ASSUME ComplaintsInv, NEW c \in Clients, NEW r \in {Idle} \cup CapaRequests,
         capaReq' = [capaReq EXCEPT ![c] = r], UNCHANGED <<complaint, capa, capaOvertaken>>,
         escalated \subseteq escalated', CapaRead(r, complaint, capa, capaOvertaken, escalated'),
         \A d \in Clients \ {c} :
            r.op \in {"raise", "add"} /\ capaReq[d].op = r.op => capaReq[d].row # r.row,
         \A k \in resolvedEvents' : k \in resolvedEvents \/
            (k \in ComplaintRows /\ capaReq[c].op = "resolved" /\ k = capaReq[c].row)
  PROVE  ComplaintsInv'
<1>1. /\ DOMAIN capaReq' = Clients /\ capaReq'[c] = r
      /\ \A d \in Clients : d # c => capaReq'[d] = capaReq[d]
  BY DEF ComplaintsInv
<1>2. /\ complaint \in [ComplaintRows -> ComplaintRecords]
      /\ capa \in [CapaRows -> CapaStatus \cup {"none"}]
      /\ \A d \in Clients : capaReq[d] \in {Idle} \cup CapaRequests
      /\ resolvedEvents \subseteq ComplaintRows
      /\ capaOvertaken \subseteq ComplaintRows
      /\ \A k \in ComplaintRows : complaint[k].severe => k \in escalated
  BY CapaTyped DEF ComplaintsInv
<1>3. ComplaintsTypeOK'
  <2>1. \A d \in Clients : capaReq'[d] \in {Idle} \cup CapaRequests
    BY <1>1, <1>2
  <2>2. QED
    BY <1>2, <2>1 DEF ComplaintsTypeOK, ComplaintRecords, CapaRequests
<1>4. ASSUME NEW d \in Clients PROVE CapaRead(capaReq'[d], complaint, capa, capaOvertaken, escalated')
  BY <1>1 DEF ComplaintsInv, CapaRead
<1>5. InsertsApart(capaReq')
  BY <1>1 DEF ComplaintsInv, InsertsApart
<1>6. AllDoneResolves'
  BY DEF ComplaintsInv, AllDoneResolves, CapasOf
<1>7. ResolvedAsAnnounced'
  BY DEF ComplaintsInv, ResolvedAsAnnounced, CapaRead
<1>8. QED
  BY <1>1, <1>3, <1>4, <1>5, <1>6, <1>7 DEF ComplaintsInv

\* Inserting a complaint, reading and counting write no row another request has read.
LEMMA CapaBegins ==
  ASSUME ComplaintsInv, NEW c \in Clients,
         InsertComplaint(c) \/ ReadComplaint(c) \/ ReadComplaintOfCapa(c) \/ CountCapas(c)
  PROVE  ComplaintsInv'
<1>1. UNCHANGED <<complaint, capa, resolvedEvents, capaOvertaken>> /\ escalated \subseteq escalated'
  BY DEF InsertComplaint, ReadComplaint, ReadComplaintOfCapa, CountCapas
<1>2. CASE InsertComplaint(c)
  <2>1. PICK k \in ComplaintRows, s \in {"mild", "severe"} :
          /\ complaint[k] = NoComplaint /\ \A d \in Clients : capaReq[d].row # k
          /\ capaReq' = [capaReq EXCEPT ![c] =
               [op |-> "raise", row |-> k, to |-> s, all |-> FALSE, stale |-> FALSE]]
          /\ s = "severe" => k \in escalated'
    BY <1>2 DEF InsertComplaint, StartCapaRequest
  <2>2. PICK r : r = [op |-> "raise", row |-> k, to |-> s, all |-> FALSE, stale |-> FALSE]
    OBVIOUS
  <2>3. r \in CapaRequests /\ CapaRead(r, complaint, capa, capaOvertaken, escalated')
    BY <2>1, <2>2 DEF CapaRequests, CapaRead
  <2>4. capaReq' = [capaReq EXCEPT ![c] = r] /\ \A d \in Clients : capaReq[d].row # r.row
    BY <2>1, <2>2
  <2>5. QED
    BY <1>1, <2>3, <2>4, CapaRequestStep
<1>3. CASE ReadComplaint(c)
  <2>1. PICK k \in ComplaintRows, op \in {"rootCause", "status"}, to \in ComplaintStatus \cup {"none"} :
          /\ complaint[k] # NoComplaint
          /\ complaint[k].status # "none" => complaint[k].status # "resolved"
          /\ complaint[k].status # "none" /\ op = "status" => to \in ComplaintStatus
          /\ capaReq' = [capaReq EXCEPT ![c] =
               [op |-> op, row |-> k, to |-> to, all |-> FALSE, stale |-> FALSE]]
    <3>1. PICK k \in ComplaintRows :
            /\ complaint[k] # NoComplaint
            /\ \/ complaint[k].status # "resolved" /\ StartCapaRequest(c, "rootCause", k, "none")
               \/ \E to \in ALLOWED_COMPLAINT_TRANSITIONS[complaint[k].status] :
                    StartCapaRequest(c, "status", k, to)
      BY <1>3 DEF ReadComplaint
    <3>2. complaint[k].status \in ComplaintStatus
      BY <3>1, CapaTyped DEF ComplaintsInv, ComplaintRecords
    <3>3. /\ ALLOWED_COMPLAINT_TRANSITIONS[complaint[k].status] \subseteq ComplaintStatus
          /\ complaint[k].status = "resolved" => ALLOWED_COMPLAINT_TRANSITIONS[complaint[k].status] = {}
      BY <3>2, CapaRequestKinds DEF ALLOWED_COMPLAINT_TRANSITIONS
    <3>4. QED
      BY <3>1, <3>2, <3>3 DEF StartCapaRequest
  <2>2. PICK r : r = [op |-> op, row |-> k, to |-> to, all |-> FALSE, stale |-> FALSE]
    OBVIOUS
  <2>3. complaint[k].status # "none"
    BY <2>1 DEF ComplaintsInv
  <2>4. r \in CapaRequests /\ CapaRead(r, complaint, capa, capaOvertaken, escalated')
    BY <2>1, <2>2, <2>3 DEF CapaRequests, CapaRead
  <2>5. capaReq' = [capaReq EXCEPT ![c] = r] /\ r.op \notin {"raise", "add"}
    BY <2>1, <2>2
  <2>6. QED
    BY <1>1, <2>4, <2>5, CapaRequestStep
<1>4. CASE ReadComplaintOfCapa(c)
  <2>1. PICK a \in CapaRows :
          /\ capa[a] = "none" /\ \A d \in Clients : capaReq[d].row # a
          /\ complaint[CapaComplaint[a]].status \in {"open", "under_investigation"}
          /\ capaReq' = [capaReq EXCEPT ![c] =
               [op |-> "add", row |-> a, to |-> "open", all |-> FALSE, stale |-> FALSE]]
    BY <1>4 DEF ReadComplaintOfCapa, StartCapaRequest
  <2>2. PICK r : r = [op |-> "add", row |-> a, to |-> "open", all |-> FALSE, stale |-> FALSE]
    OBVIOUS
  <2>3. r \in CapaRequests /\ CapaRead(r, complaint, capa, capaOvertaken, escalated')
    BY <2>1, <2>2 DEF CapaRequests, CapaRead, CapaStatus
  <2>4. capaReq' = [capaReq EXCEPT ![c] = r] /\ \A d \in Clients : capaReq[d].row # r.row
    BY <2>1, <2>2
  <2>5. QED
    BY <1>1, <2>3, <2>4, CapaRequestStep
<1>5. CASE CountCapas(c)
  <2>1. PICK a \in CapaRows, to \in CapaStatus :
          /\ capa[a] # "none"
          /\ capaReq' = [capaReq EXCEPT ![c] =
               [op |-> "count", row |-> a, to |-> to, all |-> AllDone(a, to), stale |-> FALSE]]
    BY <1>5 DEF CountCapas
  <2>2. PICK all \in BOOLEAN : all = AllDone(a, to)
    BY DEF AllDone
  <2>3. PICK r : r = [op |-> "count", row |-> a, to |-> to, all |-> all, stale |-> FALSE]
    OBVIOUS
  <2>4. AllDone(a, to) <=> AllDoneWith(capa, a, to)
    BY DEF AllDone, AllDoneWith, CapasOf
  <2>5. r \in CapaRequests /\ r.op = "count" /\ r.row = a /\ r.to = to /\ r.all = all
    BY <2>3 DEF CapaRequests
  <2>6. CapaRead(r, complaint, capa, capaOvertaken, escalated')
    BY <2>1, <2>2, <2>4, <2>5 DEF CapaRead
  <2>7. QED
    BY <1>1, <2>1, <2>2, <2>3, <2>5, <2>6, CapaRequestStep
<1>6. QED
  BY <1>2, <1>3, <1>4, <1>5

\* An announcement names what its request has stored; a dropped request leaves nothing.
LEMMA CapaEnds ==
  ASSUME ComplaintsInv, NEW c \in Clients, EmitResolved(c) \/ DropCapaRequest(c)
  PROVE  ComplaintsInv'
<1>1. PICK r : r = capaReq[c]
  OBVIOUS
<1>2. /\ capaReq' = [capaReq EXCEPT ![c] = Idle]
      /\ UNCHANGED <<complaint, capa, escalated, capaOvertaken>>
      /\ resolvedEvents' = resolvedEvents \/ (r.op = "resolved" /\ resolvedEvents' = resolvedEvents \cup {r.row})
  BY <1>1 DEF EmitResolved, DropCapaRequest, EndCapaRequest
<1>3. r.op = "resolved" => r.row \in ComplaintRows
  BY <1>1, CapaTyped, CapaRequestKinds DEF ComplaintsInv
<1>4. \A k \in resolvedEvents' : k \in resolvedEvents \/
         (k \in ComplaintRows /\ capaReq[c].op = "resolved" /\ k = capaReq[c].row)
  BY <1>1, <1>2, <1>3
<1>5. Idle.op \notin {"raise", "add"}
  BY CapaRequestKinds
<1>6. QED
  BY <1>2, <1>4, <1>5, CapaIdle, CapaRequestStep

\* The complaint of a new row is committed.
LEMMA CommitComplaintStep ==
  ASSUME ComplaintsInv, NEW c \in Clients, CommitComplaint(c) PROVE ComplaintsInv'
<1>0. PICK r, k : r = capaReq[c] /\ k = r.row
  OBVIOUS
<1>1. PICK sev \in BOOLEAN : r = capaReq[c] /\ k = r.row /\ sev = (r.to = "severe")
  BY <1>0
<1>2. PICK new : new = [NoComplaint EXCEPT !.status = "open", !.severe = sev]
  OBVIOUS
<1>3. /\ r.op = "raise" /\ complaint' = [complaint EXCEPT ![k] = new]
      /\ capaReq' = [capaReq EXCEPT ![c] = Idle]
      /\ UNCHANGED <<capa, escalated, resolvedEvents, capaOvertaken>>
  BY <1>1, <1>2 DEF CommitComplaint, EndCapaRequest
<1>4. /\ complaint \in [ComplaintRows -> ComplaintRecords]
      /\ capa \in [CapaRows -> CapaStatus \cup {"none"}]
      /\ \A d \in Clients : capaReq[d] \in {Idle} \cup CapaRequests
      /\ resolvedEvents \subseteq ComplaintRows /\ capaOvertaken \subseteq ComplaintRows
      /\ \A x \in ComplaintRows : complaint[x].severe => x \in escalated
  BY CapaTyped DEF ComplaintsInv
<1>5. r \in CapaRequests /\ k \in ComplaintRows /\ CapaRead(r, complaint, capa, capaOvertaken, escalated)
  BY <1>1, <1>3, <1>4, CapaRequestKinds DEF ComplaintsInv
<1>6. complaint[k] = NoComplaint /\ (sev => k \in escalated)
  BY <1>1, <1>3, <1>5 DEF CapaRead
<1>7. /\ new \in ComplaintRecords /\ new.status = "open" /\ new.severe = sev
  BY <1>2, CapaRequestKinds DEF ComplaintRecords, NoComplaint
<1>8. complaint'[k] = new /\ \A x \in ComplaintRows : x # k => complaint'[x] = complaint[x]
  BY <1>3, <1>4, <1>5
<1>9. /\ DOMAIN capaReq' = Clients /\ capaReq'[c] = Idle
      /\ \A d \in Clients : d # c => capaReq'[d] = capaReq[d]
  BY <1>3 DEF ComplaintsInv
<1>10. ComplaintsTypeOK'
  <2>1. complaint' \in [ComplaintRows -> ComplaintRecords]
    BY <1>3, <1>4, <1>5, <1>7
  <2>2. \A d \in Clients : capaReq'[d] \in {Idle} \cup CapaRequests
    BY <1>4, <1>9
  <2>3. \A x \in ComplaintRows : complaint'[x].severe => x \in escalated
    BY <1>4, <1>6, <1>7, <1>8
  <2>4. QED
    BY <1>3, <1>4, <2>1, <2>2, <2>3 DEF ComplaintsTypeOK, ComplaintRecords, CapaRequests
<1>11. \A x \in ComplaintRows : complaint'[x].status = "none" => complaint'[x] = NoComplaint
  BY <1>7, <1>8 DEF ComplaintsInv
<1>12. \A a \in CapaRows : capa[a] # "none" => complaint'[CapaComplaint[a]].status # "none"
  BY <1>7, <1>8, ComplaintsAssumption DEF ComplaintsInv
<1>13. ASSUME NEW d \in Clients PROVE CapaRead(capaReq'[d], complaint', capa, capaOvertaken, escalated)
  <2>1. CASE d = c
    BY <1>9, <2>1, CapaIdle
  <2>2. CASE d # c
    <3>1. PICK q : q = capaReq[d] /\ q = capaReq'[d]
      BY <1>9, <2>2
    <3>2. CapaRead(q, complaint, capa, capaOvertaken, escalated) /\ q \in {Idle} \cup CapaRequests
      BY <1>4, <3>1 DEF ComplaintsInv
    <3>3. q.op = "raise" => q.row # k
      BY <1>1, <1>3, <2>2, <3>1 DEF ComplaintsInv, InsertsApart
    <3>4. q.op \in {"raise", "rootCause", "status", "resolved"} => q.row \in ComplaintRows
      BY <3>2, CapaRequestKinds
    <3>5. q.op = "add" => CapaComplaint[q.row] \in ComplaintRows
      BY <3>2, CapaRequestKinds
    <3>6. CapaRead(q, complaint', capa, capaOvertaken, escalated)
      BY <1>6, <1>7, <1>8, <3>2, <3>3, <3>4, <3>5 DEF CapaRead, NoComplaint
    <3>7. QED
      BY <3>1, <3>6
  <2>3. QED
    BY <2>1, <2>2
<1>14. InsertsApart(capaReq')
  BY <1>9, CapaRequestKinds DEF ComplaintsInv, InsertsApart
<1>15. AllDoneResolves'
  <2>1. CapasOf(k) = {}
    BY <1>6, CapaRequestKinds DEF CapasOf, ComplaintsInv
  <2>2. \A x : CapasOf(x)' = CapasOf(x)
    BY <1>3 DEF CapasOf
  <2>3. QED
    BY <1>3, <1>8, <2>1, <2>2 DEF ComplaintsInv, AllDoneResolves
<1>16. ResolvedAsAnnounced'
  BY <1>3, <1>4, <1>6, <1>8, CapaRequestKinds DEF ComplaintsInv, ResolvedAsAnnounced
<1>17. QED
  BY <1>3, <1>9, <1>10, <1>11, <1>12, <1>13, <1>14, <1>15, <1>16 DEF ComplaintsInv

\* Requests that have seen something old are the ones they were, but stale.
LEMMA CapaOvertakes ==
  ASSUME ComplaintsInv, NEW c \in Clients, NEW next, NEW marks,
         capaReq' = Marked(capaReq, c, next, marks),
         next = Idle \/ (next \in CapaRequests /\ next.op \notin {"raise", "add"})
  PROVE  /\ DOMAIN capaReq' = Clients /\ capaReq'[c] = next
         /\ \A d \in Clients : capaReq'[d] \in {Idle} \cup CapaRequests
         /\ \A d \in Clients \ {c} : \E x, q :
               /\ x = capaReq'[d] /\ q = capaReq[d] /\ q \in {Idle} \cup CapaRequests
               /\ CapaRead(q, complaint, capa, capaOvertaken, escalated)
               /\ x.op = q.op /\ (q # Idle => x.row = q.row /\ x.to = q.to /\ x.all = q.all)
               /\ (d \in marks /\ q # Idle => x.stale) /\ (d \notin marks => x = q)
         /\ InsertsApart(capaReq')
<1> USE DEF Marked
<1>1. \A d \in Clients : capaReq[d] \in {Idle} \cup CapaRequests
  BY CapaTyped DEF ComplaintsInv
<1>2. ASSUME NEW d \in Clients, d # c
      PROVE  \E x, q :
               /\ x = capaReq'[d] /\ q = capaReq[d] /\ q \in {Idle} \cup CapaRequests
               /\ CapaRead(q, complaint, capa, capaOvertaken, escalated)
               /\ x \in {Idle} \cup CapaRequests
               /\ x.op = q.op /\ (q # Idle => x.row = q.row /\ x.to = q.to /\ x.all = q.all)
               /\ (d \in marks /\ q # Idle => x.stale) /\ (d \notin marks => x = q)
  <2>1. PICK x, q : x = capaReq'[d] /\ q = capaReq[d]
    OBVIOUS
  <2>2. /\ q \in {Idle} \cup CapaRequests /\ CapaRead(q, complaint, capa, capaOvertaken, escalated)
        /\ x = IF q # Idle /\ d \in marks THEN [q EXCEPT !.stale = TRUE] ELSE q
    BY <1>1, <1>2, <2>1 DEF ComplaintsInv
  <2>3. CASE q # Idle /\ d \in marks
    <3>1. /\ x \in CapaRequests /\ x.op = q.op /\ x.row = q.row /\ x.to = q.to /\ x.all = q.all
          /\ x.stale
      BY <2>2, <2>3 DEF CapaRequests
    <3>2. QED
      BY <2>1, <2>2, <2>3, <3>1
  <2>4. CASE ~ (q # Idle /\ d \in marks)
    BY <2>1, <2>2, <2>4
  <2>5. QED
    BY <2>3, <2>4
<1>3. DOMAIN capaReq' = Clients /\ capaReq'[c] = next
  OBVIOUS
<1>4. \A d \in Clients : capaReq'[d] \in {Idle} \cup CapaRequests
  BY <1>2, <1>3
<1>5. InsertsApart(capaReq')
  <2>1. next.op \notin {"raise", "add"}
    BY CapaRequestKinds
  <2>2. \A d \in Clients \ {c} : capaReq'[d].op \in {"raise", "add"} =>
           capaReq[d].op = capaReq'[d].op /\ capaReq'[d].row = capaReq[d].row
    BY <1>2, CapaRequestKinds
  <2>3. QED
    BY <1>3, <2>1, <2>2 DEF ComplaintsInv, InsertsApart
<1>6. QED
  BY <1>2, <1>3, <1>4, <1>5

\* A complaint changes.
LEMMA WriteComplaintStep ==
  ASSUME ComplaintsInv, NEW c \in Clients, NEW k \in ComplaintRows, NEW next, NEW new,
         WriteComplaint(c, k, next, new), k = capaReq[c].row,
         new \in ComplaintRecords, new.status # "none", new.severe = complaint[k].severe,
         complaint[k].status # "none",
         complaint[k].status = "resolved" => new.status = "resolved" \/ capaReq[c].stale,
         \/ next = Idle
         \/ next = Resolving(k) /\ new.status = "resolved"
  PROVE  ComplaintsInv'
<1>1. PICK marks : marks = {d \in Clients : capaReq[d].row = k}
  OBVIOUS
<1>2. /\ complaint' = [complaint EXCEPT ![k] = new]
      /\ capaOvertaken' = IF capaReq[c].stale THEN capaOvertaken \cup {k} ELSE capaOvertaken
      /\ UNCHANGED <<capa, escalated, resolvedEvents>>
      /\ capaReq' = Marked(capaReq, c, next, marks)
  BY <1>1 DEF WriteComplaint, Overtake, Marked
<1>3. /\ Resolving(k) \in CapaRequests /\ Resolving(k).op = "resolved" /\ Resolving(k).row = k
  BY CapaRequestKinds DEF Resolving, CapaRequests
<1>4. next = Idle \/ (next \in CapaRequests /\ next.op \notin {"raise", "add"})
  BY <1>3
<1>5. /\ DOMAIN capaReq' = Clients /\ capaReq'[c] = next
      /\ \A d \in Clients : capaReq'[d] \in {Idle} \cup CapaRequests
      /\ \A d \in Clients \ {c} : \E x, q :
               /\ x = capaReq'[d] /\ q = capaReq[d] /\ q \in {Idle} \cup CapaRequests
               /\ CapaRead(q, complaint, capa, capaOvertaken, escalated)
               /\ x.op = q.op /\ (q # Idle => x.row = q.row /\ x.to = q.to /\ x.all = q.all)
               /\ (d \in marks /\ q # Idle => x.stale) /\ (d \notin marks => x = q)
      /\ InsertsApart(capaReq')
  BY <1>2, <1>4, CapaOvertakes
<1>6. /\ complaint \in [ComplaintRows -> ComplaintRecords]
      /\ capa \in [CapaRows -> CapaStatus \cup {"none"}]
      /\ resolvedEvents \subseteq ComplaintRows /\ capaOvertaken \subseteq ComplaintRows
      /\ \A x \in ComplaintRows : complaint[x].severe => x \in escalated
  BY CapaTyped DEF ComplaintsInv
<1>7. complaint'[k] = new /\ \A x \in ComplaintRows : x # k => complaint'[x] = complaint[x]
  BY <1>2, <1>6
<1>8. ComplaintsTypeOK'
  <2>1. complaint' \in [ComplaintRows -> ComplaintRecords]
    BY <1>2, <1>6
  <2>2. \A x \in ComplaintRows : complaint'[x].severe => x \in escalated
    BY <1>6, <1>7
  <2>3. QED
    BY <1>2, <1>5, <1>6, <2>1, <2>2 DEF ComplaintsTypeOK, ComplaintRecords, CapaRequests
<1>9. \A x \in ComplaintRows : complaint'[x].status = "none" => complaint'[x] = NoComplaint
  BY <1>7 DEF ComplaintsInv
<1>10. \A a \in CapaRows : capa[a] # "none" => complaint'[CapaComplaint[a]].status # "none"
  BY <1>7, ComplaintsAssumption DEF ComplaintsInv
<1>11. ASSUME NEW d \in Clients PROVE CapaRead(capaReq'[d], complaint', capa, capaOvertaken', escalated)
  <2>1. CASE d = c
    <3>1. CASE next = Idle
      BY <1>5, <2>1, <3>1, CapaIdle
    <3>2. CASE next = Resolving(k) /\ new.status = "resolved"
      <4>1. next.op = "resolved" /\ next.row = k /\ complaint'[next.row].status = "resolved"
        BY <1>3, <1>7, <3>2
      <4>2. CapaRead(next, complaint', capa, capaOvertaken', escalated)
        BY <4>1 DEF CapaRead
      <4>3. QED
        BY <1>5, <2>1, <4>2
    <3>3. QED
      BY <3>1, <3>2
  <2>2. CASE d # c
    <3>1. PICK x, q :
               /\ x = capaReq'[d] /\ q = capaReq[d] /\ q \in {Idle} \cup CapaRequests
               /\ CapaRead(q, complaint, capa, capaOvertaken, escalated)
               /\ x.op = q.op /\ (q # Idle => x.row = q.row /\ x.to = q.to /\ x.all = q.all)
               /\ (d \in marks /\ q # Idle => x.stale) /\ (d \notin marks => x = q)
      BY <1>5, <2>2
    <3>2. CASE q = Idle
      <4>1. x = Idle
        BY <1>2, <2>2, <3>1, <3>2 DEF Marked
      <4>2. QED
        BY <3>1, <4>1, CapaIdle
    <3>3. CASE q # Idle
      <4>1. q \in CapaRequests /\ x.row = q.row /\ x.to = q.to /\ x.all = q.all
        BY <3>1, <3>3
      <4>2. q.op \in {"raise", "rootCause", "status", "resolved"} => q.row \in ComplaintRows
        BY <4>1, CapaRequestKinds
      <4>3. q.op \in {"add", "count"} => CapaComplaint[q.row] \in ComplaintRows
        BY <4>1, CapaRequestKinds
      <4>4. q.op = "raise" => q.row # k
        BY <3>1, CapaRequestKinds DEF CapaRead
      <4>5. ~ x.stale => x = q /\ q.row # k
        BY <1>1, <3>1, <3>3
      <4>6. q.op = "resolved" => complaint'[q.row].status = "resolved" \/ q.row \in capaOvertaken'
        BY <1>2, <1>7, <3>1, <4>2 DEF CapaRead
      <4>7. q.op \in {"rootCause", "status"} => complaint'[q.row].status # "none"
        BY <1>7, <3>1, <4>2 DEF CapaRead
      <4>8. q.op = "status" /\ ~ x.stale => complaint'[q.row].status # "resolved"
        BY <1>7, <3>1, <4>2, <4>5 DEF CapaRead
      <4>9. q.op = "raise" => complaint'[q.row] = NoComplaint
        BY <1>7, <3>1, <4>2, <4>4 DEF CapaRead
      <4>10. q.op = "add" => complaint'[CapaComplaint[q.row]].status # "none"
        BY <1>7, <3>1, <4>3 DEF CapaRead
      <4>11. q.op = "count" /\ ~ x.stale => (x.all <=> AllDoneWith(capa, q.row, q.to))
        BY <3>1, <4>5 DEF CapaRead
      <4>12. CapaRead(x, complaint', capa, capaOvertaken', escalated)
        BY <3>1, <4>1, <4>6, <4>7, <4>8, <4>9, <4>10, <4>11 DEF CapaRead
      <4>13. QED
        BY <3>1, <4>12
    <3>4. QED
      BY <3>2, <3>3
  <2>3. QED
    BY <2>1, <2>2
<1>12. AllDoneResolves'
  <2>1. \A x : CapasOf(x)' = CapasOf(x)
    BY <1>2 DEF CapasOf
  <2>2. QED
    BY <1>2, <1>7, <2>1 DEF ComplaintsInv, AllDoneResolves
<1>13. ResolvedAsAnnounced'
  BY <1>2, <1>6, <1>7 DEF ComplaintsInv, ResolvedAsAnnounced
<1>14. QED
  BY <1>2, <1>5, <1>8, <1>9, <1>10, <1>11, <1>12, <1>13 DEF ComplaintsInv

\* The root cause and the status are written to the complaint that was read.
LEMMA ComplaintWrites ==
  ASSUME ComplaintsInv, NEW c \in Clients, SetRootCause(c) \/ SetComplaintStatus(c)
  PROVE  ComplaintsInv'
<1>1. PICK r, k, row : r = capaReq[c] /\ k = r.row /\ row = complaint[k]
  OBVIOUS
<1>2. r.op \in {"rootCause", "status"}
  BY <1>1 DEF SetRootCause, SetComplaintStatus
<1>3. /\ r \in CapaRequests /\ k \in ComplaintRows /\ CapaRead(r, complaint, capa, capaOvertaken, escalated)
      /\ row \in ComplaintRecords /\ row.status # "none" /\ r.stale \in BOOLEAN
  BY <1>1, <1>2, CapaTyped, CapaRequestKinds DEF ComplaintsInv, CapaRead
<1>4. CASE SetRootCause(c)
  <2>1. PICK new : new = [row EXCEPT !.rootCause = TRUE]
    OBVIOUS
  <2>2. WriteComplaint(c, k, Idle, new)
    BY <1>1, <1>4, <2>1 DEF SetRootCause
  <2>3. new \in ComplaintRecords /\ new.status = row.status /\ new.severe = row.severe
    BY <1>3, <2>1 DEF ComplaintRecords
  <2>4. QED
    BY <1>1, <1>3, <2>2, <2>3, WriteComplaintStep
<1>5. CASE SetComplaintStatus(c)
  <2>1. PICK new, next : /\ new = [row EXCEPT !.status = r.to]
                         /\ next = IF r.to = "resolved" THEN Resolving(k) ELSE Idle
    OBVIOUS
  <2>2. WriteComplaint(c, k, next, new) /\ r.op = "status"
    BY <1>1, <1>5, <2>1 DEF SetComplaintStatus
  <2>3. r.to \in ComplaintStatus /\ (~ r.stale => row.status # "resolved")
    BY <1>1, <1>3, <2>2 DEF CapaRead
  <2>4. /\ new \in ComplaintRecords /\ new.status = r.to /\ new.severe = row.severe
        /\ new.status # "none"
    BY <1>3, <2>1, <2>3, CapaRequestKinds DEF ComplaintRecords
  <2>5. next = Idle \/ (next = Resolving(k) /\ new.status = "resolved")
    BY <2>1, <2>4
  <2>6. row.status = "resolved" => r.stale
    BY <1>3, <2>3
  <2>7. QED
    BY <1>1, <1>3, <2>2, <2>4, <2>5, <2>6, WriteComplaintStep
<1>6. QED
  BY <1>4, <1>5

\* An action of complaint k changes, and with it the complaint if all are done.
CapaChange(c, a, k, to, all, next, marks) ==
  /\ k = CapaComplaint[a] /\ to \in CapaStatus /\ all \in BOOLEAN
  /\ complaint[k].status # "none"
  /\ capa' = [capa EXCEPT ![a] = to]
  /\ complaint' = IF all THEN [complaint EXCEPT ![k].status = "resolved"] ELSE complaint
  /\ capaReq' = Marked(capaReq, c, next, marks)
  /\ next = IF all THEN Resolving(k) ELSE Idle
  /\ \A d \in Clients \ marks : capaReq[d].op = "count" => CapaComplaint[capaReq[d].row] # k
  /\ all => \A d \in Clients \ marks : capaReq[d].op = "status" => capaReq[d].row # k
  /\ \A d \in Clients \ {c} : capaReq[d].op = "add" => capaReq[d].row # a
  /\ capaOvertaken \subseteq capaOvertaken' /\ capaOvertaken' \subseteq ComplaintRows
  /\ k \notin capaOvertaken' => (all <=> AllDoneWith(capa, a, to)) \/ to = "open"
  /\ UNCHANGED <<escalated, resolvedEvents>>

\* A change of one action keeps the invariant, whichever operation makes it.
LEMMA CapaChanges ==
  ASSUME ComplaintsInv, NEW c \in Clients, NEW a \in CapaRows, NEW k, NEW to, NEW all, NEW next,
         NEW marks, CapaChange(c, a, k, to, all, next, marks)
  PROVE  ComplaintsInv'
<1> USE DEF CapaChange
<1>1. /\ complaint \in [ComplaintRows -> ComplaintRecords]
      /\ capa \in [CapaRows -> CapaStatus \cup {"none"}]
      /\ resolvedEvents \subseteq ComplaintRows
      /\ \A x \in ComplaintRows : complaint[x].severe => x \in escalated
      /\ k \in ComplaintRows
  BY CapaTyped, ComplaintsAssumption DEF ComplaintsInv
<1>2. PICK row, new : row = complaint[k] /\ new = IF all THEN [row EXCEPT !.status = "resolved"] ELSE row
  OBVIOUS
<1>3. /\ complaint' \in [ComplaintRows -> ComplaintRecords]
      /\ complaint'[k] = new /\ \A x \in ComplaintRows : x # k => complaint'[x] = complaint[x]
      /\ new.status # "none" /\ new.severe = row.severe
      /\ (all => new.status = "resolved") /\ (~ all => new = row)
  <2>1. row \in ComplaintRecords
    BY <1>1, <1>2
  <2>2. /\ [row EXCEPT !.status = "resolved"] \in ComplaintRecords
        /\ [row EXCEPT !.status = "resolved"].status = "resolved"
        /\ [row EXCEPT !.status = "resolved"].severe = row.severe
    BY <2>1, CapaRequestKinds DEF ComplaintRecords
  <2>3. complaint' = [complaint EXCEPT ![k] = new]
    BY <1>1, <1>2
  <2>4. new \in ComplaintRecords
    BY <1>2, <2>1, <2>2
  <2>5. QED
    BY <1>1, <1>2, <2>1, <2>2, <2>3, <2>4
<1>4. /\ capa'[a] = to /\ \A b \in CapaRows : b # a => capa'[b] = capa[b]
      /\ capa' \in [CapaRows -> CapaStatus \cup {"none"}] /\ to # "none"
  BY <1>1 DEF CapaStatus
<1>5. /\ Resolving(k) \in CapaRequests /\ Resolving(k).op = "resolved" /\ Resolving(k).row = k
  BY <1>1, CapaRequestKinds DEF Resolving, CapaRequests
<1>6. next = Idle \/ (next \in CapaRequests /\ next.op \notin {"raise", "add"})
  BY <1>5
<1>7. /\ DOMAIN capaReq' = Clients /\ capaReq'[c] = next
      /\ \A d \in Clients : capaReq'[d] \in {Idle} \cup CapaRequests
      /\ \A d \in Clients \ {c} : \E x, q :
               /\ x = capaReq'[d] /\ q = capaReq[d] /\ q \in {Idle} \cup CapaRequests
               /\ CapaRead(q, complaint, capa, capaOvertaken, escalated)
               /\ x.op = q.op /\ (q # Idle => x.row = q.row /\ x.to = q.to /\ x.all = q.all)
               /\ (d \in marks /\ q # Idle => x.stale) /\ (d \notin marks => x = q)
      /\ InsertsApart(capaReq')
  <2>1. capaReq' = Marked(capaReq, c, next, marks)
    OBVIOUS
  <2>2. QED
    BY ONLY ComplaintsInv, c \in Clients, <1>6, <2>1, CapaOvertakes
<1>8. ComplaintsTypeOK'
  <2>1. \A x \in ComplaintRows : complaint'[x].severe => x \in escalated
    BY <1>1, <1>2, <1>3
  <2>2. QED
    BY <1>1, <1>3, <1>4, <1>7, <2>1 DEF ComplaintsTypeOK, ComplaintRecords, CapaRequests
<1>9. \A x \in ComplaintRows : complaint'[x].status = "none" => complaint'[x] = NoComplaint
  BY <1>3 DEF ComplaintsInv
<1>10. \A b \in CapaRows : capa'[b] # "none" => complaint'[CapaComplaint[b]].status # "none"
  BY <1>3, <1>4, ComplaintsAssumption DEF ComplaintsInv
<1>11. ASSUME NEW d \in Clients PROVE CapaRead(capaReq'[d], complaint', capa', capaOvertaken', escalated)
  <2>1. CASE d = c
    <3>1. CASE ~ all
      BY <1>7, <2>1, <3>1, CapaIdle
    <3>2. CASE all
      <4>1. next.op = "resolved" /\ next.row = k /\ complaint'[next.row].status = "resolved"
        BY <1>3, <1>5, <3>2
      <4>2. CapaRead(next, complaint', capa', capaOvertaken', escalated)
        BY <4>1 DEF CapaRead
      <4>3. QED
        BY <1>7, <2>1, <4>2
    <3>3. QED
      BY <3>1, <3>2
  <2>2. CASE d # c
    <3>1. PICK x, q :
               /\ x = capaReq'[d] /\ q = capaReq[d] /\ q \in {Idle} \cup CapaRequests
               /\ CapaRead(q, complaint, capa, capaOvertaken, escalated)
               /\ x.op = q.op /\ (q # Idle => x.row = q.row /\ x.to = q.to /\ x.all = q.all)
               /\ (d \in marks /\ q # Idle => x.stale) /\ (d \notin marks => x = q)
      BY <1>7, <2>2
    <3>2. CASE q = Idle
      <4>1. x.op \notin {"raise", "rootCause", "status", "resolved", "add", "count"}
        BY <3>1, <3>2, CapaRequestKinds
      <4>2. QED
        BY <3>1, <4>1 DEF CapaRead
    <3>3. CASE q # Idle
      <4>1. q \in CapaRequests /\ x.row = q.row /\ x.to = q.to /\ x.all = q.all
        BY <3>1, <3>3
      <4>2. q.op \in {"raise", "rootCause", "status", "resolved"} => q.row \in ComplaintRows
        BY <4>1, CapaRequestKinds
      <4>3. q.op \in {"add", "count"} => CapaComplaint[q.row] \in ComplaintRows /\ q.row \in CapaRows
        BY <4>1, CapaRequestKinds
      <4>4. q.op = "raise" => q.row # k
        BY <3>1, CapaRequestKinds DEF CapaRead
      <4>5. ~ x.stale => x = q /\ d \notin marks
        BY <3>1, <3>3
      <4>6. q.op = "resolved" => complaint'[q.row].status = "resolved" \/ q.row \in capaOvertaken'
        BY <1>2, <1>3, <3>1, <4>2 DEF CapaRead
      <4>7. q.op \in {"rootCause", "status"} => complaint'[q.row].status # "none"
        BY <1>3, <3>1, <4>2 DEF CapaRead
      <4>8. q.op = "status" /\ ~ x.stale => complaint'[q.row].status # "resolved"
        BY <1>2, <1>3, <3>1, <4>2, <4>5 DEF CapaRead
      <4>9. q.op = "raise" => complaint'[q.row] = NoComplaint
        BY <1>3, <3>1, <4>2, <4>4 DEF CapaRead
      <4>10. q.op = "add" => capa'[q.row] = "none" /\ complaint'[CapaComplaint[q.row]].status # "none"
        BY <1>3, <1>4, <2>2, <3>1, <4>3 DEF CapaRead
      <4>11. q.op = "count" => capa'[q.row] # "none"
        BY <1>4, <3>1, <4>3 DEF CapaRead
      <4>12. q.op = "count" /\ ~ x.stale => (x.all <=> AllDoneWith(capa', q.row, q.to))
        <5>1. SUFFICES ASSUME q.op = "count", ~ x.stale PROVE x.all <=> AllDoneWith(capa', q.row, q.to)
          OBVIOUS
        <5>2. x.all <=> AllDoneWith(capa, q.row, q.to)
          BY <3>1, <4>5, <5>1 DEF CapaRead
        <5>3. CapaComplaint[q.row] # k
          BY <3>1, <4>5, <5>1
        <5>4. \A b \in CapaRows : CapaComplaint[b] = CapaComplaint[q.row] => capa'[b] = capa[b]
          BY <1>4, <5>3
        <5>5. QED
          BY <5>2, <5>4 DEF AllDoneWith
      <4>13. CapaRead(x, complaint', capa', capaOvertaken', escalated)
        <5>1. x.op = q.op /\ x.row = q.row /\ x.to = q.to /\ x.all = q.all
          BY <3>1, <4>1
        <5>2. /\ q.op = "raise" /\ q.to = "severe" => q.row \in escalated
              /\ q.op = "status" => q.to \in ComplaintStatus
          BY <3>1 DEF CapaRead
        <5>3. QED
          BY ONLY <4>6, <4>7, <4>8, <4>9, <4>10, <4>11, <4>12, <5>1, <5>2 DEF CapaRead
      <4>14. QED
        BY <3>1, <4>13
    <3>4. QED
      BY <3>2, <3>3
  <2>3. QED
    BY <2>1, <2>2
<1>12. AllDoneResolves'
  <2>1. ASSUME NEW x \in ComplaintRows, CapasOf(x)' # {}, \A b \in CapasOf(x)' : capa'[b] = "done"
        PROVE  complaint'[x].status = "resolved" \/ x \in capaOvertaken'
    <3>1. CASE x # k
      <4>1. CapasOf(x)' = CapasOf(x) /\ \A b \in CapasOf(x) : capa'[b] = capa[b]
        BY <1>4, <3>1 DEF CapasOf
      <4>2. QED
        BY <1>3, <2>1, <3>1, <4>1 DEF ComplaintsInv, AllDoneResolves
    <3>2. CASE x = k
      <4>1. a \in CapasOf(k)' /\ \A b \in CapaRows : CapaComplaint[b] = k /\ capa[b] # "none" => b \in CapasOf(k)'
        BY <1>4 DEF CapasOf
      <4>2. to = "done" /\ AllDoneWith(capa, a, to)
        BY <1>4, <2>1, <3>2, <4>1 DEF AllDoneWith
      <4>3. QED
        BY <1>3, <3>2, <4>2
    <3>3. QED
      BY <3>1, <3>2
  <2>2. QED
    BY <2>1 DEF AllDoneResolves
<1>13. ResolvedAsAnnounced'
  BY <1>1, <1>2, <1>3 DEF ComplaintsInv, ResolvedAsAnnounced
<1>14. QED
  BY <1>7, <1>8, <1>9, <1>10, <1>11, <1>12, <1>13 DEF ComplaintsInv

\* Adding an action and committing one are such changes.
LEMMA CapaWrites ==
  ASSUME ComplaintsInv, NEW c \in Clients, InsertCapa(c) \/ CommitCapa(c) PROVE ComplaintsInv'
<1>1. PICK r, a, k : r = capaReq[c] /\ a = r.row /\ k = CapaComplaint[a]
  OBVIOUS
<1>2. r.op \in {"add", "count"}
  BY <1>1 DEF InsertCapa, CommitCapa
<1>3. /\ r \in CapaRequests /\ a \in CapaRows /\ r.to \in CapaStatus /\ k \in ComplaintRows
      /\ CapaRead(r, complaint, capa, capaOvertaken, escalated)
      /\ r.stale \in BOOLEAN /\ r.all \in BOOLEAN /\ capaOvertaken \subseteq ComplaintRows
  BY <1>1, <1>2, CapaTyped, CapaRequestKinds DEF ComplaintsInv
<1>4. complaint[k].status # "none"
  BY <1>1, <1>2, <1>3 DEF CapaRead, ComplaintsInv
<1>5. CASE InsertCapa(c)
  <2>1. PICK marks : marks = {d \in Clients : Counting(d, k)}
    OBVIOUS
  <2>2. /\ r.op = "add" /\ capa' = [capa EXCEPT ![a] = "open"]
        /\ capaReq' = Marked(capaReq, c, Idle, marks)
        /\ UNCHANGED <<complaint, escalated, resolvedEvents, capaOvertaken>>
    BY <1>1, <1>5, <2>1 DEF InsertCapa, Overtake, Marked
  <2>3. \A d \in Clients \ marks : capaReq[d].op = "count" => CapaComplaint[capaReq[d].row] # k
    BY <2>1 DEF Counting
  <2>4. \A d \in Clients \ {c} : capaReq[d].op = "add" => capaReq[d].row # a
    BY <1>1, <2>2 DEF ComplaintsInv, InsertsApart
  <2>5. "open" \in CapaStatus
    BY DEF CapaStatus
  <2>6. /\ complaint' = IF FALSE THEN [complaint EXCEPT ![k].status = "resolved"] ELSE complaint
        /\ Idle = IF FALSE THEN Resolving(k) ELSE Idle
        /\ capaOvertaken \subseteq capaOvertaken' /\ capaOvertaken' \subseteq ComplaintRows
        /\ UNCHANGED <<escalated, resolvedEvents>>
    BY <1>3, <2>2
  <2>7. k \notin capaOvertaken' => (FALSE <=> AllDoneWith(capa, a, "open")) \/ "open" = "open"
    OBVIOUS
  <2>8. FALSE => \A d \in Clients \ marks : capaReq[d].op = "status" => capaReq[d].row # k
    OBVIOUS
  <2>9. k = CapaComplaint[a] /\ FALSE \in BOOLEAN /\ a \in CapaRows
    BY <1>1, <1>3
  <2>10. CapaChange(c, a, k, "open", FALSE, Idle, marks)
    BY <1>4, <2>2, <2>3, <2>4, <2>5, <2>6, <2>7, <2>8, <2>9 DEF CapaChange
  <2>11. QED
    BY <1>3, <2>10, CapaChanges
<1>6. CASE CommitCapa(c)
  <2>1. PICK all : all = r.all
    OBVIOUS
  <2>2. PICK marks, next, to :
          /\ marks = {d \in Clients : Counting(d, k) \/ (all /\ capaReq[d].row = k)}
          /\ next = IF all THEN Resolving(k) ELSE Idle
          /\ to = r.to
    OBVIOUS
  <2>3. /\ r.op = "count" /\ capa' = [capa EXCEPT ![a] = to]
        /\ complaint' = IF all THEN [complaint EXCEPT ![k].status = "resolved"] ELSE complaint
        /\ capaReq' = Marked(capaReq, c, next, marks)
        /\ capaOvertaken' = IF r.stale THEN capaOvertaken \cup {k} ELSE capaOvertaken
        /\ UNCHANGED <<escalated, resolvedEvents>>
    BY <1>1, <1>6, <2>1, <2>2 DEF CommitCapa, Overtake, Marked
  <2>4. \A d \in Clients \ marks : capaReq[d].op = "count" => CapaComplaint[capaReq[d].row] # k
    BY <2>2 DEF Counting
  <2>5. all => \A d \in Clients \ marks : capaReq[d].op = "status" => capaReq[d].row # k
    BY <2>2
  <2>6. \A d \in Clients \ {c} : capaReq[d].op = "add" => capaReq[d].row # a
    <3>1. capa[a] # "none"
      BY <1>1, <1>3, <2>3 DEF CapaRead
    <3>2. \A d \in Clients : CapaRead(capaReq[d], complaint, capa, capaOvertaken, escalated)
      BY DEF ComplaintsInv
    <3>3. QED
      BY <3>1, <3>2 DEF CapaRead
  <2>7. capaOvertaken \subseteq capaOvertaken' /\ capaOvertaken' \subseteq ComplaintRows
    BY <1>3, <2>3
  <2>8. k \notin capaOvertaken' => (all <=> AllDoneWith(capa, a, to)) \/ to = "open"
    BY <1>1, <1>3, <2>1, <2>2, <2>3 DEF CapaRead
  <2>9. k = CapaComplaint[a] /\ all \in BOOLEAN /\ a \in CapaRows /\ to \in CapaStatus
        /\ next = IF all THEN Resolving(k) ELSE Idle
    BY <1>1, <1>3, <2>1, <2>2
  <2>10. CapaChange(c, a, k, to, all, next, marks)
    BY <1>4, <2>3, <2>4, <2>5, <2>6, <2>7, <2>8, <2>9 DEF CapaChange
  <2>11. QED
    BY <1>3, <2>10, CapaChanges
<1>7. QED
  BY <1>5, <1>6

\* Every step of the complaints keeps the invariant.
LEMMA ComplaintsStep ==
  ASSUME ComplaintsInv, [ComplaintsNext]_complaintVars PROVE ComplaintsInv'
<1>1. CASE UNCHANGED complaintVars
  BY <1>1 DEF complaintVars, ComplaintsInv, ComplaintsTypeOK, InsertsApart, AllDoneResolves, CapasOf,
     ResolvedAsAnnounced
<1>2. ASSUME NEW c \in Clients,
             InsertComplaint(c) \/ ReadComplaint(c) \/ ReadComplaintOfCapa(c) \/ CountCapas(c)
      PROVE  ComplaintsInv'
  BY <1>2, CapaBegins
<1>3. ASSUME NEW c \in Clients, EmitResolved(c) \/ DropCapaRequest(c) PROVE ComplaintsInv'
  BY <1>3, CapaEnds
<1>4. ASSUME NEW c \in Clients, CommitComplaint(c) PROVE ComplaintsInv'
  BY <1>4, CommitComplaintStep
<1>5. ASSUME NEW c \in Clients, SetRootCause(c) \/ SetComplaintStatus(c) PROVE ComplaintsInv'
  BY <1>5, ComplaintWrites
<1>6. ASSUME NEW c \in Clients, InsertCapa(c) \/ CommitCapa(c) PROVE ComplaintsInv'
  BY <1>6, CapaWrites
<1>7. QED
  BY <1>1, <1>2, <1>3, <1>4, <1>5, <1>6 DEF ComplaintsNext

\* No complaint exists at the start.
LEMMA ComplaintsStart == ComplaintsInit => ComplaintsInv
<1> SUFFICES ASSUME ComplaintsInit PROVE ComplaintsInv
  OBVIOUS
<1>1. ComplaintsTypeOK
  BY CapaRequestKinds DEF ComplaintsInit, ComplaintsTypeOK, ComplaintRecords
<1>2. \A c \in Clients : CapaRead(capaReq[c], complaint, capa, capaOvertaken, escalated)
  BY CapaIdle DEF ComplaintsInit
<1>3. InsertsApart(capaReq)
  BY CapaRequestKinds DEF ComplaintsInit, InsertsApart
<1>4. AllDoneResolves /\ ResolvedAsAnnounced
  BY DEF ComplaintsInit, AllDoneResolves, CapasOf, ResolvedAsAnnounced
<1>5. QED
  BY <1>1, <1>2, <1>3, <1>4 DEF ComplaintsInit, ComplaintsInv

(*************************************************************************)
(* Master data.                                                          *)
(* A request that nothing has overtaken holds a row that is alive, and a count *)
(* of the documents that refer to it.                                    *)
(*************************************************************************)

MasterRecords == [state : MasterStates, code : Codes]

MasterRequests ==
  [op : {"create", "update", "delete", "use"}, row : MasterRows \cup Uses,
   state : MasterStates, code : Codes, stale : BOOLEAN]

\* What a request has read of the rows and documents, if nothing was written since.
MasterRead(r, rows, uses) ==
  /\ r.op \in {"create", "update", "delete"} => r.row \in MasterRows
  /\ r.op = "use" => r.row \in Uses
  /\ r.op \in {"update", "delete"} /\ ~ r.stale => rows[r.row].state \in Found
  /\ r.op = "delete" /\ ~ r.stale => \A u \in Uses : UsedRow[u] = r.row => uses[u] # "linked"

MasterDataInv ==
  /\ MasterDataTypeOK
  /\ \A c \in Clients : MasterRead(masterReq[c], master, used)
  /\ RemovedStaysRemoved
  /\ ReferencesKept

\* The types, with the sets they are about named.
LEMMA MasterTyped ==
  MasterDataTypeOK <=>
    /\ master \in [MasterRows -> MasterRecords]
    /\ used \in [Uses -> {"none", "linked", "unlinked"}]
    /\ masterReq \in [Clients -> {Idle} \cup MasterRequests]
    /\ removedMaster \subseteq MasterRows
    /\ masterOvertaken \subseteq MasterRows
BY DEF MasterDataTypeOK, MasterRecords, MasterRequests

\* A running request is not idle; a row that does not exist is free.
LEMMA MasterKinds ==
  /\ Idle.op = "idle" /\ \A r \in MasterRequests : r # Idle /\ r.op # "idle" /\ r.stale \in BOOLEAN
  /\ NoMaster \in MasterRecords /\ NoMaster.state = "none" /\ NoMaster.code \in Codes
BY MasterDataAssumption DEF Idle, MasterRequests, NoMaster, MasterRecords, MasterStates

\* A request that is not running has read nothing.
LEMMA MasterIdle == ASSUME NEW rows, NEW uses PROVE MasterRead(Idle, rows, uses)
BY DEF MasterRead, Idle

\* A request begins or ends.
LEMMA MasterRequestStep ==
  ASSUME MasterDataInv, NEW c \in Clients, NEW r \in {Idle} \cup MasterRequests,
         masterReq' = [masterReq EXCEPT ![c] = r], MasterRead(r, master, used),
         UNCHANGED <<master, used, removedMaster, masterOvertaken>>
  PROVE  MasterDataInv'
<1>1. /\ masterReq' \in [Clients -> {Idle} \cup MasterRequests]
      /\ masterReq'[c] = r /\ \A d \in Clients : d # c => masterReq'[d] = masterReq[d]
  BY MasterTyped DEF MasterDataInv
<1>2. MasterDataTypeOK'
  BY <1>1 DEF MasterDataInv, MasterDataTypeOK, MasterRequests
<1>3. \A d \in Clients : MasterRead(masterReq'[d], master', used')
  BY <1>1 DEF MasterDataInv
<1>4. RemovedStaysRemoved' /\ ReferencesKept'
  BY DEF MasterDataInv, RemovedStaysRemoved, ReferencesKept
<1>5. QED
  BY <1>2, <1>3, <1>4 DEF MasterDataInv

\* The checks before a write, and the end of a request, write no row.
LEMMA MasterBegins ==
  ASSUME MasterDataInv, NEW c \in Clients,
         CheckNewMaster(c) \/ ReadMaster(c) \/ CountUses(c) \/ CheckUsed(c) \/ DropMasterRequest(c)
  PROVE  MasterDataInv'
<1>1. UNCHANGED <<master, used, removedMaster, masterOvertaken>>
  BY DEF CheckNewMaster, ReadMaster, CountUses, CheckUsed, DropMasterRequest
<1>2. master \in [MasterRows -> MasterRecords]
  BY MasterTyped DEF MasterDataInv
<1>3. CASE DropMasterRequest(c)
  BY <1>1, <1>3, MasterIdle, MasterRequestStep DEF DropMasterRequest
<1>4. CASE CheckNewMaster(c)
  <2>1. PICK m \in MasterRows, code \in Codes, state \in {"active", "inactive"} :
          masterReq' = [masterReq EXCEPT ![c] =
            [op |-> "create", row |-> m, state |-> state, code |-> code, stale |-> FALSE]]
    BY <1>4 DEF CheckNewMaster, StartMasterRequest
  <2>2. PICK r : r = [op |-> "create", row |-> m, state |-> state, code |-> code, stale |-> FALSE]
    OBVIOUS
  <2>3. r \in MasterRequests /\ MasterRead(r, master, used)
    BY <2>2 DEF MasterRequests, MasterStates, MasterRead
  <2>4. QED
    BY <1>1, <2>1, <2>2, <2>3, MasterRequestStep
<1>5. CASE ReadMaster(c)
  <2>1. PICK m \in MasterRows, state \in MasterStates, code \in Codes :
          /\ master[m].state \in Found
          /\ masterReq' = [masterReq EXCEPT ![c] =
               [op |-> "update", row |-> m, state |-> state, code |-> code, stale |-> FALSE]]
    BY <1>5 DEF ReadMaster, StartMasterRequest
  <2>2. PICK r : r = [op |-> "update", row |-> m, state |-> state, code |-> code, stale |-> FALSE]
    OBVIOUS
  <2>3. r \in MasterRequests /\ MasterRead(r, master, used)
    BY <2>1, <2>2 DEF MasterRequests, MasterRead
  <2>4. QED
    BY <1>1, <2>1, <2>2, <2>3, MasterRequestStep
<1>6. CASE CountUses(c)
  <2>1. PICK m \in MasterRows :
          /\ master[m].state \in Found /\ LinkedTo(m) = {}
          /\ masterReq' = [masterReq EXCEPT ![c] =
               [op |-> "delete", row |-> m, state |-> "none", code |-> master[m].code, stale |-> FALSE]]
    BY <1>6 DEF CountUses, StartMasterRequest, MayDelete
  <2>2. PICK r : r = [op |-> "delete", row |-> m, state |-> "none", code |-> master[m].code, stale |-> FALSE]
    OBVIOUS
  <2>3. master[m].code \in Codes
    BY <1>2 DEF MasterRecords
  <2>4. r \in MasterRequests /\ MasterRead(r, master, used)
    BY <2>1, <2>2, <2>3 DEF MasterRequests, MasterStates, MasterRead, LinkedTo
  <2>5. QED
    BY <1>1, <2>1, <2>2, <2>4, MasterRequestStep
<1>7. CASE CheckUsed(c)
  <2>1. PICK u \in Uses :
          masterReq' = [masterReq EXCEPT ![c] =
               [op |-> "use", row |-> u, state |-> "none", code |-> NoMaster.code, stale |-> FALSE]]
    BY <1>7 DEF CheckUsed, StartMasterRequest
  <2>2. PICK r : r = [op |-> "use", row |-> u, state |-> "none", code |-> NoMaster.code, stale |-> FALSE]
    OBVIOUS
  <2>3. r \in MasterRequests /\ MasterRead(r, master, used)
    BY <2>1, <2>2, MasterKinds DEF MasterRequests, MasterStates, MasterRead
  <2>4. QED
    BY <1>1, <2>1, <2>2, <2>3, MasterRequestStep
<1>8. QED
  BY <1>3, <1>4, <1>5, <1>6, <1>7

\* The requests after a write: client c is done and those in marks are stale.
LEMMA MasterOvertakes ==
  ASSUME MasterDataInv, NEW c \in Clients, NEW marks,
         masterReq' = Marked(masterReq, c, Idle, marks)
  PROVE  /\ masterReq' \in [Clients -> {Idle} \cup MasterRequests] /\ masterReq'[c] = Idle
         /\ \A d \in Clients \ {c} : \E x, q :
               /\ x = masterReq'[d] /\ q = masterReq[d] /\ MasterRead(q, master, used)
               /\ x.op = q.op /\ x.row = q.row
               /\ (x = Idle \/ (d \in marks /\ x.stale) \/ (d \notin marks /\ x = q))
<1> USE DEF Marked
<1>1. \A d \in Clients : masterReq[d] \in {Idle} \cup MasterRequests
  BY MasterTyped DEF MasterDataInv
<1>2. ASSUME NEW d \in Clients, d # c
      PROVE  \E x, q :
               /\ x = masterReq'[d] /\ q = masterReq[d] /\ MasterRead(q, master, used)
               /\ x \in {Idle} \cup MasterRequests
               /\ x.op = q.op /\ x.row = q.row
               /\ (x = Idle \/ (d \in marks /\ x.stale) \/ (d \notin marks /\ x = q))
  <2>1. PICK x, q : x = masterReq'[d] /\ q = masterReq[d]
    OBVIOUS
  <2>2. /\ q \in {Idle} \cup MasterRequests /\ MasterRead(q, master, used)
        /\ x = IF q # Idle /\ d \in marks THEN [q EXCEPT !.stale = TRUE] ELSE q
    BY <1>1, <1>2, <2>1 DEF MasterDataInv
  <2>3. CASE q # Idle /\ d \in marks
    <3>1. x \in MasterRequests /\ x.op = q.op /\ x.row = q.row /\ x.stale
      BY <2>2, <2>3 DEF MasterRequests
    <3>2. QED
      BY <2>1, <2>2, <2>3, <3>1
  <2>4. CASE ~ (q # Idle /\ d \in marks)
    BY <2>1, <2>2, <2>4
  <2>5. QED
    BY <2>3, <2>4
<1>3. \A d \in Clients : masterReq'[d] \in {Idle} \cup MasterRequests
  BY <1>2
<1>4. masterReq' \in [Clients -> {Idle} \cup MasterRequests]
  BY <1>3
<1>5. QED
  BY <1>2, <1>4

\* A row is created under a code that no living row has, as far as the check saw.
LEMMA CreateMasterStep ==
  ASSUME MasterDataInv, NEW c \in Clients, CreateMaster(c) PROVE MasterDataInv'
<1>1. PICK r : r = masterReq[c]
  OBVIOUS
<1>2. PICK m : m = r.row
  OBVIOUS
<1>3. PICK new : new = [state |-> r.state, code |-> r.code]
  OBVIOUS
<1>4. /\ r.op = "create" /\ master[m].state = "none" /\ master' = [master EXCEPT ![m] = new]
      /\ masterReq' = [masterReq EXCEPT ![c] = Idle]
      /\ UNCHANGED <<used, removedMaster, masterOvertaken>>
  BY <1>1, <1>2, <1>3 DEF CreateMaster
<1>5. /\ master \in [MasterRows -> MasterRecords] /\ masterReq \in [Clients -> {Idle} \cup MasterRequests]
      /\ r \in {Idle} \cup MasterRequests /\ MasterRead(r, master, used)
  BY <1>1, MasterTyped DEF MasterDataInv
<1>6. m \in MasterRows /\ new \in MasterRecords
  BY <1>2, <1>3, <1>4, <1>5, MasterKinds DEF MasterRead, MasterRequests, MasterRecords
<1>7. /\ master' \in [MasterRows -> MasterRecords] /\ \A n \in MasterRows : n # m => master'[n] = master[n]
      /\ masterReq' \in [Clients -> {Idle} \cup MasterRequests]
      /\ masterReq'[c] = Idle /\ \A d \in Clients : d # c => masterReq'[d] = masterReq[d]
  BY <1>4, <1>5, <1>6
<1>8. MasterDataTypeOK'
  BY <1>4, <1>7 DEF MasterDataInv, MasterDataTypeOK, MasterRequests, MasterRecords
<1>9. ASSUME NEW d \in Clients, d # c PROVE MasterRead(masterReq[d], master', used)
  <2>1. MasterRead(masterReq[d], master, used)
    BY DEF MasterDataInv
  <2>2. QED
    BY <1>4, <1>7, <2>1 DEF MasterRead, Found
<1>10. \A d \in Clients : MasterRead(masterReq'[d], master', used')
  BY <1>4, <1>7, <1>9, MasterIdle
<1>11. RemovedStaysRemoved'
  BY <1>4, <1>7 DEF MasterDataInv, MasterDataTypeOK, RemovedStaysRemoved
<1>12. ReferencesKept'
  BY <1>4 DEF MasterDataInv, ReferencesKept
<1>13. QED
  BY <1>8, <1>10, <1>11, <1>12 DEF MasterDataInv

\* A row is updated or deleted.
LEMMA MasterWriteStep ==
  ASSUME MasterDataInv, NEW c \in Clients, NEW m \in MasterRows, NEW new \in MasterRecords,
         masterReq[c].op \in {"update", "delete"}, masterReq[c].row = m, OvertakeMaster(c, m),
         master' = [master EXCEPT ![m] = new],
         removedMaster' = removedMaster \/
           (new.state = "removed" /\ removedMaster' = removedMaster \cup {m}),
         used' \in [Uses -> {"none", "linked", "unlinked"}],
         \A u \in Uses : used'[u] = used[u] \/
           (used[u] = "linked" /\ used'[u] = "unlinked" /\ UsedRow[u] = m /\ masterReq[c].op = "delete")
  PROVE  MasterDataInv'
<1>1. PICK q : q = masterReq[c]
  OBVIOUS
<1>2. PICK marks : marks = {d \in Clients : masterReq[d].row = m}
  OBVIOUS
<1>3. /\ masterReq' = Marked(masterReq, c, Idle, marks)
      /\ masterOvertaken' = IF q.stale THEN masterOvertaken \cup {m} ELSE masterOvertaken
  BY <1>1, <1>2 DEF OvertakeMaster, Overtake, Marked
<1>4. /\ masterReq' \in [Clients -> {Idle} \cup MasterRequests] /\ masterReq'[c] = Idle
      /\ \A d \in Clients \ {c} : \E x, y :
               /\ x = masterReq'[d] /\ y = masterReq[d] /\ MasterRead(y, master, used)
               /\ x.op = y.op /\ x.row = y.row
               /\ (x = Idle \/ (d \in marks /\ x.stale) \/ (d \notin marks /\ x = y))
  BY <1>3, MasterOvertakes
<1>5. /\ master \in [MasterRows -> MasterRecords] /\ removedMaster \subseteq MasterRows
      /\ masterOvertaken \subseteq MasterRows /\ MasterRead(q, master, used)
  BY <1>1, MasterTyped DEF MasterDataInv
<1>6. /\ master' \in [MasterRows -> MasterRecords] /\ master'[m] = new
      /\ \A n \in MasterRows : n # m => master'[n] = master[n]
      /\ masterOvertaken' \subseteq MasterRows /\ masterOvertaken \subseteq masterOvertaken'
      /\ removedMaster' \subseteq MasterRows
  BY <1>3, <1>5
<1>7. MasterDataTypeOK'
  BY <1>4, <1>6 DEF MasterDataTypeOK, MasterRecords, MasterRequests
<1>8. ASSUME NEW d \in Clients, d # c PROVE MasterRead(masterReq'[d], master', used')
  <2>1. PICK x, y :
               /\ x = masterReq'[d] /\ y = masterReq[d] /\ MasterRead(y, master, used)
               /\ x.op = y.op /\ x.row = y.row
               /\ (x = Idle \/ (d \in marks /\ x.stale) \/ (d \notin marks /\ x = y))
    BY <1>4, <1>8
  <2>2. CASE x = Idle
    BY <2>1, <2>2, MasterIdle
  <2>3. CASE x.stale
    BY <2>1, <2>3 DEF MasterRead
  <2>4. CASE d \notin marks /\ x = y
    <3>1. x.row # m
      BY <1>2, <2>1, <2>4
    <3>2. \A u \in Uses : used[u] # "linked" => used'[u] # "linked"
      OBVIOUS
    <3>3. MasterRead(x, master', used')
      BY <1>6, <2>1, <2>4, <3>1, <3>2 DEF MasterRead
    <3>4. QED
      BY <2>1, <3>3
  <2>5. QED
    BY <2>1, <2>2, <2>3, <2>4
<1>9. \A d \in Clients : MasterRead(masterReq'[d], master', used')
  BY <1>4, <1>8, MasterIdle
<1>10. RemovedStaysRemoved'
  <2>1. ASSUME NEW n \in removedMaster', n \notin masterOvertaken' PROVE master'[n].state = "removed"
    <3>1. CASE n # m
      BY <1>5, <1>6, <2>1, <3>1 DEF MasterDataInv, RemovedStaysRemoved
    <3>2. CASE n = m
      <4>1. ~ q.stale /\ m \notin masterOvertaken
        BY <1>3, <2>1, <3>2
      <4>2. master[m].state \in Found
        BY <1>1, <1>5, <4>1 DEF MasterRead
      <4>3. m \notin removedMaster
        BY <4>1, <4>2 DEF MasterDataInv, RemovedStaysRemoved, Found
      <4>4. QED
        BY <1>6, <2>1, <3>2, <4>3
    <3>3. QED
      BY <3>1, <3>2
  <2>2. QED
    BY <2>1 DEF RemovedStaysRemoved
<1>11. ReferencesKept'
  <2>1. ASSUME NEW u \in Uses, used'[u] = "unlinked" PROVE UsedRow[u] \in masterOvertaken'
    <3>1. CASE used[u] = "unlinked"
      BY <1>6, <3>1 DEF MasterDataInv, ReferencesKept
    <3>2. CASE used[u] # "unlinked"
      <4>1. used[u] = "linked" /\ UsedRow[u] = m /\ q.op = "delete" /\ q.row = m
        BY <1>1, <2>1, <3>2
      <4>2. q.stale
        BY <1>5, <4>1 DEF MasterRead
      <4>3. QED
        BY <1>3, <4>1, <4>2
    <3>3. QED
      BY <3>1, <3>2
  <2>2. QED
    BY <2>1 DEF ReferencesKept
<1>12. QED
  BY <1>7, <1>9, <1>10, <1>11 DEF MasterDataInv

\* An update and a delete write the row that was read.
LEMMA MasterWrites ==
  ASSUME MasterDataInv, NEW c \in Clients, UpdateMaster(c) \/ DeleteMaster(c) PROVE MasterDataInv'
<1>1. PICK r : r = masterReq[c]
  OBVIOUS
<1>2. PICK m : m = r.row
  OBVIOUS
<1>3. r.op \in {"update", "delete"}
  BY <1>1 DEF UpdateMaster, DeleteMaster
<1>4. /\ master \in [MasterRows -> MasterRecords] /\ used \in [Uses -> {"none", "linked", "unlinked"}]
      /\ r \in {Idle} \cup MasterRequests /\ MasterRead(r, master, used)
  BY <1>1, MasterTyped DEF MasterDataInv
<1>5. r \in MasterRequests /\ m \in MasterRows
  BY <1>2, <1>3, <1>4, MasterKinds DEF MasterRead
<1>6. CASE UpdateMaster(c)
  <2>1. PICK state : state = IF r.state = "none" THEN master[m].state ELSE r.state
    OBVIOUS
  <2>2. PICK new : new = [state |-> state, code |-> r.code]
    OBVIOUS
  <2>3. /\ master' = [master EXCEPT ![m] = new] /\ used' = used /\ OvertakeMaster(c, m)
        /\ removedMaster' = IF state = "removed" THEN removedMaster \cup {m} ELSE removedMaster
    BY <1>1, <1>2, <1>6, <2>1, <2>2 DEF UpdateMaster
  <2>4. state \in MasterStates /\ r.code \in Codes
    BY <1>4, <1>5, <2>1 DEF MasterRecords, MasterRequests
  <2>5. new \in MasterRecords /\ new.state = state
    BY <2>2, <2>4 DEF MasterRecords
  <2>6. QED
    BY <1>1, <1>2, <1>3, <1>4, <1>5, <2>3, <2>5, MasterWriteStep
<1>7. CASE DeleteMaster(c)
  <2>1. /\ master' = [master EXCEPT ![m] = NoMaster] /\ OvertakeMaster(c, m) /\ removedMaster' = removedMaster
        /\ used' = [u \in Uses |-> IF u \in LinkedTo(m) THEN "unlinked" ELSE used[u]]
        /\ r.op = "delete"
    BY <1>1, <1>2, <1>7 DEF DeleteMaster
  <2>2. used' \in [Uses -> {"none", "linked", "unlinked"}]
    BY <1>4, <2>1
  <2>3. \A u \in Uses : used'[u] = used[u] \/
           (used[u] = "linked" /\ used'[u] = "unlinked" /\ UsedRow[u] = m /\ masterReq[c].op = "delete")
    BY <1>1, <2>1 DEF LinkedTo
  <2>4. QED
    BY <1>1, <1>2, <1>3, <1>5, <2>1, <2>2, <2>3, MasterKinds, MasterWriteStep
<1>8. QED
  BY <1>6, <1>7

\* A document takes a row that the check found alive.
LEMMA LinkUseStep ==
  ASSUME MasterDataInv, NEW c \in Clients, LinkUse(c) PROVE MasterDataInv'
<1>1. PICK q : q = masterReq[c]
  OBVIOUS
<1>2. PICK u : u = q.row
  OBVIOUS
<1>3. PICK marks : marks = {d \in Clients : masterReq[d].op = "delete" /\ masterReq[d].row = UsedRow[u]}
  OBVIOUS
<1>4. /\ q.op = "use" /\ used[u] = "none" /\ used' = [used EXCEPT ![u] = "linked"]
      /\ UNCHANGED <<master, removedMaster, masterOvertaken>>
      /\ masterReq' = Marked(masterReq, c, Idle, marks)
  BY <1>1, <1>2, <1>3 DEF LinkUse, Overtake, Marked
<1>5. /\ masterReq' \in [Clients -> {Idle} \cup MasterRequests] /\ masterReq'[c] = Idle
      /\ \A d \in Clients \ {c} : \E x, y :
               /\ x = masterReq'[d] /\ y = masterReq[d] /\ MasterRead(y, master, used)
               /\ x.op = y.op /\ x.row = y.row
               /\ (x = Idle \/ (d \in marks /\ x.stale) \/ (d \notin marks /\ x = y))
  BY <1>4, MasterOvertakes
<1>6. /\ used \in [Uses -> {"none", "linked", "unlinked"}] /\ MasterRead(q, master, used)
  BY <1>1, MasterTyped DEF MasterDataInv
<1>7. u \in Uses
  BY <1>2, <1>4, <1>6 DEF MasterRead
<1>8. /\ used' \in [Uses -> {"none", "linked", "unlinked"}]
      /\ \A v \in Uses : used'[v] = used[v] \/ (v = u /\ used'[v] = "linked")
  BY <1>4, <1>6, <1>7
<1>9. MasterDataTypeOK'
  BY <1>4, <1>5, <1>8 DEF MasterDataInv, MasterDataTypeOK, MasterRequests
<1>10. ASSUME NEW d \in Clients, d # c PROVE MasterRead(masterReq'[d], master', used')
  <2>1. PICK x, y :
               /\ x = masterReq'[d] /\ y = masterReq[d] /\ MasterRead(y, master, used)
               /\ x.op = y.op /\ x.row = y.row
               /\ (x = Idle \/ (d \in marks /\ x.stale) \/ (d \notin marks /\ x = y))
    BY <1>5, <1>10
  <2>2. CASE x = Idle
    BY <2>1, <2>2, MasterIdle
  <2>3. CASE x.stale
    BY <2>1, <2>3 DEF MasterRead
  <2>4. CASE d \notin marks /\ x = y
    <3>1. x.op = "delete" => x.row # UsedRow[u]
      BY <1>3, <2>1, <2>4
    <3>2. MasterRead(x, master', used')
      BY <1>4, <1>8, <2>1, <2>4, <3>1 DEF MasterRead
    <3>3. QED
      BY <2>1, <3>2
  <2>5. QED
    BY <2>1, <2>2, <2>3, <2>4
<1>11. \A d \in Clients : MasterRead(masterReq'[d], master', used')
  BY <1>5, <1>10, MasterIdle
<1>12. RemovedStaysRemoved'
  BY <1>4 DEF MasterDataInv, RemovedStaysRemoved
<1>13. ReferencesKept'
  BY <1>4, <1>8 DEF MasterDataInv, ReferencesKept
<1>14. QED
  BY <1>9, <1>11, <1>12, <1>13 DEF MasterDataInv

\* No master row exists at the start.
LEMMA MasterDataStart == MasterDataInit => MasterDataInv
<1> SUFFICES ASSUME MasterDataInit PROVE MasterDataInv
  OBVIOUS
<1>1. MasterDataTypeOK
  BY MasterKinds DEF MasterDataInit, MasterDataTypeOK, MasterRecords
<1>2. \A c \in Clients : MasterRead(masterReq[c], master, used)
  BY MasterIdle DEF MasterDataInit
<1>3. RemovedStaysRemoved /\ ReferencesKept
  BY DEF MasterDataInit, RemovedStaysRemoved, ReferencesKept
<1>4. QED
  BY <1>1, <1>2, <1>3 DEF MasterDataInv

\* Every step of the master data keeps the invariant.
LEMMA MasterDataStep == ASSUME MasterDataInv, [MasterDataNext]_masterVars PROVE MasterDataInv'
<1>1. ASSUME NEW c \in Clients,
             \/ CheckNewMaster(c) \/ CreateMaster(c) \/ ReadMaster(c) \/ UpdateMaster(c) \/ CountUses(c)
             \/ DeleteMaster(c) \/ CheckUsed(c) \/ LinkUse(c) \/ DropMasterRequest(c)
      PROVE  MasterDataInv'
  BY <1>1, MasterBegins, CreateMasterStep, MasterWrites, LinkUseStep
<1>2. CASE UNCHANGED masterVars
  BY <1>2 DEF masterVars, MasterDataInv, MasterDataTypeOK, RemovedStaysRemoved, ReferencesKept
<1>3. QED
  BY <1>1, <1>2 DEF MasterDataNext

(*************************************************************************)
(* Delivery challans and buyer invoices.                                 *)
(* Amounts collected, disputes and the revenue of a challan are followed *)
(* through confirmation, invoice and journal.                            *)
(*************************************************************************)

ChallanStates == [status : {"none", "draft", "dispatched", "delivered"}, pod : BOOLEAN]

InvoiceRows ==
  [dc : Challans \cup {NoChallan}, gross : Nat, collected : Nat, status : InvoiceStatus]

\* A delivery on its way to an invoice, and the operations on invoices.
Invoicing == {"delivered", "checked", "posted"}
InvoiceOps == {"collect", "dispute", "clear"}

ArRequests ==
  [op : {"dispatch", "pod", "confirm"} \cup Invoicing \cup InvoiceOps,
   row : Challans \cup BuyerInvoices, amount : Nat, collected : Nat, stale : BOOLEAN]

\* What a request has read of the invoices, if nothing was written since.
ArRead(r, invoices) ==
  /\ r.op \in {"dispatch", "pod", "confirm"} \cup Invoicing => r.row \in Challans
  /\ r.op \in {"checked", "posted"} /\ ~ r.stale => \A i \in BuyerInvoices : invoices[i].dc # r.row
  /\ r.op \in InvoiceOps =>
       /\ r.row \in BuyerInvoices /\ invoices[r.row] # NoBuyerInvoice
       /\ ~ r.stale => /\ invoices[r.row].collected = r.collected
                       /\ r.op = "collect" => invoices[r.row].status \in {"unpaid", "partial"}
                       /\ r.op = "clear" => invoices[r.row].status = "disputed"

\* The requests that have posted the revenue of challan k and not inserted its invoice.
PostedFor(k) == {c \in Clients : arReq[c].op = "posted" /\ arReq[c].row = k}

\* A challan no confirmation of which failed or was overtaken.
ChallanOK(k) ==
  \/ k \in interrupted \cup arOvertaken
  \/ /\ InvoicesOf(k) # {}
     /\ \E i : InvoicesOf(k) = {i}
     /\ PostedFor(k) = {} => revenue[k] = ChallanGross[k]
  \/ /\ InvoicesOf(k) = {}
     /\ PostedFor(k) = {} => revenue[k] = 0
     /\ (\E c : PostedFor(k) = {c}) => revenue[k] = ChallanGross[k]
     /\ challan[k].status = "delivered" =>
          \E c \in Clients : arReq[c].op \in Invoicing /\ arReq[c].row = k

ReceivablesInv ==
  /\ ReceivablesTypeOK
  /\ \A c \in Clients : ArRead(arReq[c], buyerInvoice)
  /\ \A k \in Challans : ChallanOK(k)
  /\ \A i \in BuyerInvoices :
       buyerInvoice[i] = NoBuyerInvoice => collectedSum[i] = 0 /\ i \notin inDispute
  /\ CollectedIsSum

\* The types, with the sets they are about named.
LEMMA ArTyped ==
  ReceivablesTypeOK <=>
    /\ challan \in [Challans -> ChallanStates]
    /\ buyerInvoice \in [BuyerInvoices -> InvoiceRows]
    /\ arReq \in [Clients -> {Idle} \cup ArRequests]
    /\ collectedSum \in [BuyerInvoices -> Nat]
    /\ inDispute \subseteq BuyerInvoices
    /\ revenue \in [Challans -> Nat]
    /\ interrupted \subseteq Challans
    /\ arOvertaken \subseteq Challans \cup BuyerInvoices
<1>1. {"dispatch", "pod", "confirm"} \cup Invoicing \cup InvoiceOps =
        {"dispatch", "pod", "confirm", "delivered", "checked", "posted", "collect", "dispute", "clear"}
  BY DEF Invoicing, InvoiceOps
<1>2. QED
  BY <1>1 DEF ReceivablesTypeOK, ChallanStates, InvoiceRows, ArRequests

\* The operations are distinct; an invoice that does not exist belongs to no challan.
LEMMA ArKinds ==
  /\ Idle.op = "idle" /\ \A r \in ArRequests : r # Idle /\ r.op # "idle" /\ r.stale \in BOOLEAN
  /\ "idle" \notin {"dispatch", "pod", "confirm"} \cup Invoicing \cup InvoiceOps
  /\ Invoicing \cap InvoiceOps = {}
  /\ NoBuyerInvoice \in InvoiceRows /\ NoBuyerInvoice.status = "none"
  /\ NoBuyerInvoice.dc \notin Challans
BY ReceivablesAssumption
   DEF Idle, ArRequests, Invoicing, InvoiceOps, NoBuyerInvoice, InvoiceRows, InvoiceStatus

\* A request that is not running has read nothing.
LEMMA ArIdle == ASSUME NEW invoices PROVE ArRead(Idle, invoices)
BY ArKinds DEF ArRead, Invoicing, InvoiceOps

\* The rest of the property follows.
LEMMA ChallansInvoiced == ReceivablesInv => DeliveredIsInvoiced
<1> SUFFICES ASSUME ReceivablesInv, NEW k \in Challans, challan[k].status = "delivered",
                    k \notin interrupted \cup arOvertaken, \A c \in Clients : arReq[c].row # k
             PROVE  Cardinality(InvoicesOf(k)) = 1 /\ revenue[k] = ChallanGross[k]
  BY DEF DeliveredIsInvoiced
<1>1. PostedFor(k) = {}
  BY DEF PostedFor
<1>2. PICK i : InvoicesOf(k) = {i} /\ revenue[k] = ChallanGross[k]
  BY <1>1 DEF ReceivablesInv, ChallanOK
<1>3. QED
  BY <1>2, FS_Singleton

\* What Overtake leaves of another request d.
ArKept(x, q, d, marks) ==
  /\ q \in {Idle} \cup ArRequests /\ x \in {Idle} \cup ArRequests
  /\ ArRead(q, buyerInvoice)
  /\ x.op = q.op /\ x.row = q.row /\ (q # Idle => x.collected = q.collected)
  /\ (d \in marks /\ q # Idle => x.stale) /\ (d \notin marks => x = q)

\* The requests after a write: the client that wrote goes on as next, and those that
\* have seen something old are the ones they were, but stale.
LEMMA ArOvertakes ==
  ASSUME ReceivablesInv, NEW c \in Clients, NEW next \in {Idle} \cup ArRequests, NEW marks,
         arReq' = Marked(arReq, c, next, marks)
  PROVE  /\ arReq' \in [Clients -> {Idle} \cup ArRequests] /\ arReq'[c] = next
         /\ \A d \in Clients \ {c} : ArKept(arReq'[d], arReq[d], d, marks)
<1> USE DEF Marked
<1>1. \A d \in Clients : arReq[d] \in {Idle} \cup ArRequests
  BY ArTyped DEF ReceivablesInv
<1>2. ASSUME NEW d \in Clients, d # c PROVE ArKept(arReq'[d], arReq[d], d, marks)
  <2>1. PICK x, q : x = arReq'[d] /\ q = arReq[d]
    OBVIOUS
  <2>2. /\ q \in {Idle} \cup ArRequests /\ ArRead(q, buyerInvoice)
        /\ x = IF q # Idle /\ d \in marks THEN [q EXCEPT !.stale = TRUE] ELSE q
    BY <1>1, <1>2, <2>1 DEF ReceivablesInv
  <2>3. CASE q # Idle /\ d \in marks
    <3>1. x \in ArRequests /\ x.op = q.op /\ x.row = q.row /\ x.collected = q.collected /\ x.stale
      BY <2>2, <2>3 DEF ArRequests
    <3>2. QED
      BY <2>1, <2>2, <2>3, <3>1 DEF ArKept
  <2>4. CASE ~ (q # Idle /\ d \in marks)
    BY <2>1, <2>2, <2>4 DEF ArKept
  <2>5. QED
    BY <2>3, <2>4
<1>3. \A d \in Clients : arReq'[d] \in {Idle} \cup ArRequests
  BY <1>2 DEF ArKept
<1>4. arReq' \in [Clients -> {Idle} \cup ArRequests]
  BY <1>3
<1>5. QED
  BY <1>2, <1>4

\* A challan whose invoices, revenue and postings stay.
LEMMA ChallanKept ==
  ASSUME ReceivablesInv, NEW k \in Challans,
         InvoicesOf(k)' = InvoicesOf(k), revenue'[k] = revenue[k],
         interrupted \subseteq interrupted', arOvertaken \subseteq arOvertaken',
         \A d \in Clients : (arReq'[d].op = "posted" /\ arReq'[d].row = k)
                          <=> (arReq[d].op = "posted" /\ arReq[d].row = k),
         k \notin interrupted' \cup arOvertaken' /\ InvoicesOf(k) = {} /\ challan'[k].status = "delivered" =>
           \/ \E d \in Clients : arReq'[d].op \in Invoicing /\ arReq'[d].row = k
           \/ /\ challan[k].status = "delivered"
              /\ \A d \in Clients : arReq[d].op \in Invoicing /\ arReq[d].row = k
                   => arReq'[d].op \in Invoicing /\ arReq'[d].row = k
  PROVE  ChallanOK(k)'
<1>1. PostedFor(k)' = PostedFor(k)
  BY DEF PostedFor
<1>2. ChallanOK(k)
  BY DEF ReceivablesInv
<1>3. QED
  BY <1>1, <1>2 DEF ChallanOK

\* One request changes and no invoice does.
LEMMA ArRequestStep ==
  ASSUME ReceivablesInv, NEW c \in Clients, NEW r \in {Idle} \cup ArRequests,
         arReq' = [arReq EXCEPT ![c] = r], ArRead(r, buyerInvoice),
         UNCHANGED <<buyerInvoice, collectedSum, inDispute, arOvertaken>>,
         challan' \in [Challans -> ChallanStates], revenue' \in [Challans -> Nat],
         interrupted' \subseteq Challans,
         \A k \in Challans : ChallanOK(k)'
  PROVE  ReceivablesInv'
<1>1. /\ buyerInvoice \in [BuyerInvoices -> InvoiceRows]
      /\ arReq \in [Clients -> {Idle} \cup ArRequests]
      /\ collectedSum \in [BuyerInvoices -> Nat]
      /\ inDispute \subseteq BuyerInvoices
      /\ arOvertaken \subseteq Challans \cup BuyerInvoices
  BY ArTyped DEF ReceivablesInv
<1>2. arReq' \in [Clients -> {Idle} \cup ArRequests]
  BY <1>1
<1>3. ReceivablesTypeOK'
  <2>1. {"dispatch", "pod", "confirm"} \cup Invoicing \cup InvoiceOps =
          {"dispatch", "pod", "confirm", "delivered", "checked", "posted", "collect", "dispute", "clear"}
    BY DEF Invoicing, InvoiceOps
  <2>2. QED
    BY <1>1, <1>2, <2>1 DEF ReceivablesTypeOK, ChallanStates, InvoiceRows, ArRequests
<1>4. \A d \in Clients : ArRead(arReq'[d], buyerInvoice')
  <2>1. arReq'[c] = r /\ \A d \in Clients : d # c => arReq'[d] = arReq[d]
    BY <1>1
  <2>2. QED
    BY <2>1 DEF ReceivablesInv
<1>5. CollectedIsSum'
  BY DEF ReceivablesInv, CollectedIsSum
<1>6. QED
  BY <1>3, <1>4, <1>5 DEF ReceivablesInv

\* The same, when the deliveries and their invoices go on as they were.
LEMMA ArPlainStep ==
  ASSUME ReceivablesInv, NEW c \in Clients, NEW r \in {Idle} \cup ArRequests,
         arReq' = [arReq EXCEPT ![c] = r], ArRead(r, buyerInvoice),
         UNCHANGED <<challan, buyerInvoice, collectedSum, inDispute, revenue, arOvertaken>>,
         interrupted' \subseteq Challans, interrupted \subseteq interrupted',
         r.op # "posted", r.op \in Invoicing => r.row = arReq[c].row,
         arReq[c].op \in Invoicing => r.op \in Invoicing \/ arReq[c].row \in interrupted',
         arReq[c].op = "posted" => arReq[c].row \in interrupted'
  PROVE  ReceivablesInv'
<1>1. arReq'[c] = r /\ \A d \in Clients : d # c => arReq'[d] = arReq[d]
  BY ArTyped DEF ReceivablesInv
<1>2. ASSUME NEW k \in Challans PROVE ChallanOK(k)'
  <2>1. CASE k \in interrupted'
    BY <2>1 DEF ChallanOK
  <2>2. CASE k \notin interrupted'
    <3>1. InvoicesOf(k)' = InvoicesOf(k)
      BY DEF InvoicesOf
    <3>2. \A d \in Clients : (arReq'[d].op = "posted" /\ arReq'[d].row = k)
                          <=> (arReq[d].op = "posted" /\ arReq[d].row = k)
      BY <1>1, <2>2
    <3>3. \A d \in Clients : arReq[d].op \in Invoicing /\ arReq[d].row = k
             => arReq'[d].op \in Invoicing /\ arReq'[d].row = k
      BY <1>1, <2>2
    <3>4. QED
      BY <3>1, <3>2, <3>3, ChallanKept
  <2>3. QED
    BY <2>1, <2>2
<1>3. challan' \in [Challans -> ChallanStates] /\ revenue' \in [Challans -> Nat]
  BY ArTyped DEF ReceivablesInv
<1>4. QED
  BY <1>2, <1>3, ArRequestStep

\* A new challan has no invoice and no revenue.
LEMMA CreateChallanStep ==
  ASSUME ReceivablesInv, NEW k \in Challans, CreateChallan(k) PROVE ReceivablesInv'
<1>1. /\ challan \in [Challans -> ChallanStates]
      /\ UNCHANGED <<buyerInvoice, arReq, collectedSum, inDispute, revenue, interrupted, arOvertaken>>
      /\ challan' = [challan EXCEPT ![k].status = "draft"]
  BY ArTyped DEF ReceivablesInv, CreateChallan
<1>2. challan' \in [Challans -> ChallanStates]
  BY <1>1 DEF ChallanStates
<1>3. \A j \in Challans : challan'[j].status = "delivered" => challan[j].status = "delivered"
  BY <1>1 DEF ChallanStates
<1>4. \A j \in Challans : ChallanOK(j)'
  BY <1>1, <1>3, ChallanKept DEF InvoicesOf
<1>5. ReceivablesTypeOK'
  BY <1>1, <1>2 DEF ReceivablesInv, ReceivablesTypeOK, ChallanStates
<1>6. CollectedIsSum'
  BY <1>1 DEF ReceivablesInv, CollectedIsSum
<1>7. QED
  BY <1>1, <1>4, <1>5, <1>6 DEF ReceivablesInv

\* Reading a challan or an invoice writes nothing.
LEMMA ArBegins ==
  ASSUME ReceivablesInv, NEW c \in Clients, ReadChallan(c) \/ ReadBuyerInvoice(c)
  PROVE  ReceivablesInv'
<1>1. /\ arReq[c] = Idle
      /\ UNCHANGED <<challan, buyerInvoice, collectedSum, inDispute, revenue, interrupted, arOvertaken>>
  BY DEF ReadChallan, ReadBuyerInvoice, StartArRequest
<1>2. /\ interrupted \subseteq Challans /\ buyerInvoice \in [BuyerInvoices -> InvoiceRows]
      /\ Collections \subseteq Nat
  BY ArTyped, ReceivablesAssumption DEF ReceivablesInv
<1>3. \E r \in ArRequests :
        /\ arReq' = [arReq EXCEPT ![c] = r] /\ ArRead(r, buyerInvoice) /\ r.op \notin Invoicing
  <2>1. CASE ReadChallan(c)
    <3>1. PICK k \in Challans, op \in {"dispatch", "pod", "confirm"} :
            arReq' = [arReq EXCEPT ![c] =
              [op |-> op, row |-> k, amount |-> 0, collected |-> 0, stale |-> FALSE]]
      BY <2>1 DEF ReadChallan, StartArRequest
    <3>2. PICK r : r = [op |-> op, row |-> k, amount |-> 0, collected |-> 0, stale |-> FALSE]
      OBVIOUS
    <3>3. r \in ArRequests
      BY <3>2 DEF ArRequests
    <3>4. ArRead(r, buyerInvoice) /\ r.op \notin Invoicing
      BY <3>2 DEF ArRead, Invoicing, InvoiceOps
    <3>5. QED
      BY <3>1, <3>2, <3>3, <3>4
  <2>2. CASE ReadBuyerInvoice(c)
    <3>1. PICK i \in BuyerInvoices, op \in InvoiceOps, a \in Nat :
            /\ arReq' = [arReq EXCEPT ![c] =
                 [op |-> op, row |-> i, amount |-> a, collected |-> buyerInvoice[i].collected,
                  stale |-> FALSE]]
            /\ buyerInvoice[i].status # "none"
            /\ op = "collect" => buyerInvoice[i].status \in {"unpaid", "partial"}
            /\ op = "clear" => buyerInvoice[i].status = "disputed"
      BY <2>2, <1>2 DEF ReadBuyerInvoice, StartArRequest, InvoiceOps
    <3>2. PICK r : r = [op |-> op, row |-> i, amount |-> a, collected |-> buyerInvoice[i].collected,
                        stale |-> FALSE]
      OBVIOUS
    <3>3. buyerInvoice[i].collected \in Nat /\ buyerInvoice[i] # NoBuyerInvoice
      BY <1>2, <3>1, ArKinds DEF InvoiceRows
    <3>4. r \in ArRequests /\ r.op = op /\ r.row = i /\ r.collected = buyerInvoice[i].collected
      BY <3>2, <3>3 DEF ArRequests
    <3>5. op \notin {"dispatch", "pod", "confirm"} \cup Invoicing
      BY DEF InvoiceOps, Invoicing
    <3>6. ArRead(r, buyerInvoice)
      BY <3>1, <3>3, <3>4, <3>5 DEF ArRead, Invoicing
    <3>7. QED
      BY <3>1, <3>2, <3>4, <3>5, <3>6
  <2>3. QED
    BY <2>1, <2>2
<1>4. PICK r \in ArRequests :
        /\ arReq' = [arReq EXCEPT ![c] = r] /\ ArRead(r, buyerInvoice) /\ r.op \notin Invoicing
  BY <1>3
<1>5. arReq[c].op \notin Invoicing /\ arReq[c].op # "posted" /\ r.op # "posted"
  BY <1>1, <1>4, ArKinds DEF Invoicing
<1>6. QED
  BY <1>1, <1>2, <1>4, <1>5, ArPlainStep

\* A request that dies between its steps leaves its challan interrupted.
LEMMA ArDrops ==
  ASSUME ReceivablesInv, NEW c \in Clients, DropArRequest(c) PROVE ReceivablesInv'
<1>1. /\ arReq' = [arReq EXCEPT ![c] = Idle]
      /\ UNCHANGED <<challan, buyerInvoice, collectedSum, inDispute, revenue, arOvertaken>>
      /\ interrupted' = IF arReq[c].op \in Invoicing THEN interrupted \cup {arReq[c].row} ELSE interrupted
  BY DEF DropArRequest, Invoicing
<1>2. ArRead(arReq[c], buyerInvoice) /\ interrupted \subseteq Challans
  BY ArTyped DEF ReceivablesInv
<1>3. arReq[c].op \in Invoicing => arReq[c].row \in Challans
  BY <1>2 DEF ArRead
<1>4. Idle.op # "posted" /\ Idle.op \notin Invoicing /\ "posted" \in Invoicing
  BY ArKinds DEF Invoicing
<1>5. interrupted' \subseteq Challans /\ interrupted \subseteq interrupted'
  BY <1>1, <1>2, <1>3
<1>6. arReq[c].op \in Invoicing => arReq[c].row \in interrupted'
  BY <1>1
<1>7. QED
  BY <1>1, <1>4, <1>5, <1>6, ArIdle, ArPlainStep

\* The check of a challan writes nothing.
LEMMA CheckChallanStep ==
  ASSUME ReceivablesInv, NEW c \in Clients, CheckChallan(c) PROVE ReceivablesInv'
<1>1. PICK q : q = arReq[c]
  OBVIOUS
<1>2. PICK r : r = [q EXCEPT !.op = "checked", !.stale = FALSE]
  OBVIOUS
<1>3. /\ q.op = "delivered" /\ arReq' = [arReq EXCEPT ![c] = r] /\ InvoicesOf(q.row) = {}
      /\ UNCHANGED <<challan, buyerInvoice, collectedSum, inDispute, revenue, interrupted, arOvertaken>>
  <2>1. arReq' = [arReq EXCEPT ![c] = [arReq[c] EXCEPT !.op = "checked", !.stale = FALSE]]
    BY ArTyped DEF CheckChallan, ReceivablesInv
  <2>2. QED
    BY <2>1, <1>1, <1>2 DEF CheckChallan, MayInvoice
<1>4. /\ q \in {Idle} \cup ArRequests /\ ArRead(q, buyerInvoice) /\ interrupted \subseteq Challans
  BY <1>1, ArTyped DEF ReceivablesInv
<1>5. q \in ArRequests
  BY <1>3, <1>4, ArKinds
<1>6. r \in ArRequests /\ r.op = "checked" /\ r.row = q.row
  BY <1>2, <1>5 DEF ArRequests, Invoicing
<1>7. ArRead(r, buyerInvoice)
  BY <1>3, <1>4, <1>6 DEF ArRead, InvoicesOf, Invoicing, InvoiceOps
<1>8. r.op \in Invoicing /\ r.op # "posted" /\ q.op # "posted"
  BY <1>3, <1>6 DEF Invoicing
<1>9. QED
  BY <1>1, <1>3, <1>4, <1>6, <1>7, <1>8, ArPlainStep

\* The handler posts the revenue of its own challan.
LEMMA PostRevenueStep ==
  ASSUME ReceivablesInv, NEW c \in Clients, PostRevenue(c) PROVE ReceivablesInv'
<1>1. PICK q : q = arReq[c]
  OBVIOUS
<1>2. PICK k : k = q.row
  OBVIOUS
<1>3. PICK r : r = [q EXCEPT !.op = "posted"]
  OBVIOUS
<1>4. /\ q.op = "checked" /\ arReq' = [arReq EXCEPT ![c] = r]
      /\ revenue' = [revenue EXCEPT ![k] = revenue[k] + ChallanGross[k]]
      /\ UNCHANGED <<challan, buyerInvoice, collectedSum, inDispute, interrupted, arOvertaken>>
  BY <1>1, <1>2, <1>3, ArTyped DEF PostRevenue, ReceivablesInv
<1>5. /\ q \in {Idle} \cup ArRequests /\ ArRead(q, buyerInvoice) /\ interrupted \subseteq Challans
      /\ challan \in [Challans -> ChallanStates] /\ revenue \in [Challans -> Nat]
  BY <1>1, ArTyped DEF ReceivablesInv
<1>6. q \in ArRequests /\ k \in Challans /\ ChallanGross[k] \in Nat
  BY <1>2, <1>4, <1>5, ArKinds, ReceivablesAssumption DEF ArRead, Invoicing
<1>7. r \in ArRequests /\ r.op = "posted" /\ r.row = k /\ r.stale = q.stale
  BY <1>2, <1>3, <1>6 DEF ArRequests, Invoicing
<1>8. ArRead(r, buyerInvoice)
  BY <1>2, <1>4, <1>5, <1>6, <1>7 DEF ArRead, Invoicing, InvoiceOps
<1>9. revenue' \in [Challans -> Nat] /\ revenue'[k] = revenue[k] + ChallanGross[k]
  BY <1>4, <1>5, <1>6
<1>10. arReq'[c] = r /\ \A d \in Clients : d # c => arReq'[d] = arReq[d]
  BY <1>4, ArTyped DEF ReceivablesInv
<1>11. PostedFor(k)' = PostedFor(k) \cup {c} /\ c \notin PostedFor(k)
  BY <1>1, <1>4, <1>7, <1>10 DEF PostedFor
<1>12. ChallanOK(k)'
  <2>1. InvoicesOf(k)' = InvoicesOf(k)
    BY <1>4 DEF InvoicesOf
  <2>2. ChallanOK(k)
    BY <1>6 DEF ReceivablesInv
  <2>3. (PostedFor(k)' # {}) /\ ((\E d : PostedFor(k)' = {d}) => PostedFor(k) = {})
    BY <1>11
  <2>4. \E d \in Clients : arReq'[d].op \in Invoicing /\ arReq'[d].row = k
    BY <1>7, <1>10 DEF Invoicing
  <2>5. CASE k \in interrupted \cup arOvertaken
    BY <2>5, <1>4 DEF ChallanOK
  <2>6. CASE InvoicesOf(k) # {} /\ \E i : InvoicesOf(k) = {i}
    BY <2>6, <2>1, <2>3 DEF ChallanOK
  <2>7. CASE InvoicesOf(k) = {} /\ (PostedFor(k) = {} => revenue[k] = 0)
    <3>1. PostedFor(k) = {} => revenue'[k] = ChallanGross[k]
      BY <1>6, <1>9, <2>7
    <3>2. (\E d : PostedFor(k)' = {d}) => revenue'[k] = ChallanGross'[k]
      BY <3>1, <2>3
    <3>3. QED
      BY <2>1, <2>3, <2>4, <2>7, <3>2 DEF ChallanOK
  <2>8. QED
    BY <2>2, <2>5, <2>6, <2>7 DEF ChallanOK
<1>13. ASSUME NEW j \in Challans PROVE ChallanOK(j)'
  <2>1. CASE j = k
    BY <1>12, <2>1
  <2>2. CASE j # k
    <3>1. InvoicesOf(j)' = InvoicesOf(j) /\ revenue'[j] = revenue[j]
      BY <1>4, <1>5, <1>6, <2>2 DEF InvoicesOf
    <3>2. \A d \in Clients : d = c => arReq'[d].row # j /\ arReq[d].row # j
      BY <1>1, <1>2, <1>7, <1>10, <2>2
    <3>3. QED
      BY <1>4, <1>10, <3>1, <3>2, ChallanKept
  <2>3. QED
    BY <2>1, <2>2
<1>14. QED
  BY <1>4, <1>5, <1>7, <1>8, <1>9, <1>13, ArRequestStep

\* A request that is stale is bound to less.
LEMMA ArReadKept ==
  ASSUME NEW q, NEW x, NEW invoices, ArRead(q, invoices),
         x.op = q.op, x.row = q.row, q # Idle => x.collected = q.collected, x = q \/ x.stale
  PROVE  ArRead(x, invoices)
<1>1. q.op \in InvoiceOps => q # Idle
  BY ArKinds DEF Idle, InvoiceOps
<1>2. QED
  BY <1>1 DEF ArRead

\* A challan is written.
LEMMA WriteChallanStep ==
  ASSUME ReceivablesInv, NEW c \in Clients, NEW next \in {Idle} \cup ArRequests, NEW new \in ChallanStates,
         NEW k \in Challans, k = arReq[c].row, arReq[c].op \notin Invoicing,
         WriteChallan(c, next, new), ArRead(next, buyerInvoice), next.op # "posted",
         new.status = "delivered" =>
           challan[k].status = "delivered" \/ (next.op \in Invoicing /\ next.row = k)
  PROVE  ReceivablesInv'
<1>1. PICK marks : marks = {d \in Clients : arReq[d].row = k /\ arReq[d].op \in {"dispatch", "pod", "confirm"}}
  OBVIOUS
<1>2. /\ challan' = [challan EXCEPT ![k] = new]
      /\ arReq' = Overtake(arReq, c, next,
           LAMBDA d : arReq[d].row = k /\ arReq[d].op \in {"dispatch", "pod", "confirm"})
      /\ UNCHANGED <<buyerInvoice, collectedSum, inDispute, revenue, interrupted, arOvertaken>>
  BY DEF WriteChallan
<1>3. arReq' = Marked(arReq, c, next, marks)
  BY <1>1, <1>2 DEF Overtake, Marked
<1>4. /\ arReq' \in [Clients -> {Idle} \cup ArRequests] /\ arReq'[c] = next
      /\ \A d \in Clients \ {c} : ArKept(arReq'[d], arReq[d], d, marks)
  BY <1>3, ArOvertakes
<1>5. ASSUME NEW d \in Clients, d # c
      PROVE  ArRead(arReq'[d], buyerInvoice) /\ arReq'[d].op = arReq[d].op /\ arReq'[d].row = arReq[d].row
  <2>1. PICK x, q :
          /\ x = arReq'[d] /\ q = arReq[d] /\ q \in {Idle} \cup ArRequests
          /\ ArRead(q, buyerInvoice)
          /\ x.op = q.op /\ x.row = q.row /\ (q # Idle => x.collected = q.collected)
          /\ (d \in marks /\ q # Idle => x.stale) /\ (d \notin marks => x = q)
    BY <1>4, <1>5 DEF ArKept
  <2>2. x = q \/ x.stale
    <3>1. q = Idle => d \notin marks
      BY <1>1, <2>1, ArKinds DEF Idle
    <3>2. QED
      BY <2>1, <3>1
  <2>3. ArRead(x, buyerInvoice)
    BY <2>1, <2>2, ArReadKept
  <2>4. QED
    BY <2>1, <2>3
<1>6. /\ challan \in [Challans -> ChallanStates] /\ buyerInvoice \in [BuyerInvoices -> InvoiceRows]
      /\ collectedSum \in [BuyerInvoices -> Nat] /\ inDispute \subseteq BuyerInvoices
      /\ revenue \in [Challans -> Nat] /\ interrupted \subseteq Challans
      /\ arOvertaken \subseteq Challans \cup BuyerInvoices
  BY ArTyped DEF ReceivablesInv
<1>7. challan' \in [Challans -> ChallanStates]
  BY <1>2, <1>6
<1>8. ReceivablesTypeOK'
  <2>1. {"dispatch", "pod", "confirm"} \cup Invoicing \cup InvoiceOps =
          {"dispatch", "pod", "confirm", "delivered", "checked", "posted", "collect", "dispute", "clear"}
    BY DEF Invoicing, InvoiceOps
  <2>2. QED
    BY <1>2, <1>4, <1>6, <1>7, <2>1 DEF ReceivablesTypeOK, ChallanStates, InvoiceRows, ArRequests
<1>9. \A d \in Clients : ArRead(arReq'[d], buyerInvoice')
  BY <1>2, <1>4, <1>5
<1>10. ASSUME NEW j \in Challans PROVE ChallanOK(j)'
  <2>1. InvoicesOf(j)' = InvoicesOf(j)
    BY <1>2 DEF InvoicesOf
  <2>2. "posted" \in Invoicing
    BY DEF Invoicing
  <2>3. \A d \in Clients : (arReq'[d].op = "posted" /\ arReq'[d].row = j)
                          <=> (arReq[d].op = "posted" /\ arReq[d].row = j)
    BY <1>4, <1>5, <2>2
  <2>4. ASSUME challan'[j].status = "delivered"
        PROVE  \/ \E d \in Clients : arReq'[d].op \in Invoicing /\ arReq'[d].row = j
               \/ challan[j].status = "delivered"
    BY <1>2, <1>4, <1>6, <2>4
  <2>5. \A d \in Clients : arReq[d].op \in Invoicing /\ arReq[d].row = j
                => arReq'[d].op \in Invoicing /\ arReq'[d].row = j
    BY <1>5
  <2>6. QED
    BY <1>2, <2>1, <2>3, <2>4, <2>5, ChallanKept
<1>11. CollectedIsSum'
  BY <1>2 DEF ReceivablesInv, CollectedIsSum
<1>12. QED
  BY <1>2, <1>8, <1>9, <1>10, <1>11 DEF ReceivablesInv

\* Dispatch, proof of delivery and confirmation write the challan that was read.
LEMMA ChallanWrites ==
  ASSUME ReceivablesInv, NEW c \in Clients, Dispatch(c) \/ RecordPod(c) \/ ConfirmDelivery(c)
  PROVE  ReceivablesInv'
<1>1. PICK q : q = arReq[c]
  OBVIOUS
<1>2. PICK k : k = q.row
  OBVIOUS
<1>3. /\ q \in {Idle} \cup ArRequests /\ ArRead(q, buyerInvoice)
      /\ challan \in [Challans -> ChallanStates]
  BY <1>1, ArTyped DEF ReceivablesInv
<1>4. q.op \in {"dispatch", "pod", "confirm"}
  BY <1>1 DEF Dispatch, RecordPod, ConfirmDelivery
<1>5. /\ q \in ArRequests /\ k \in Challans /\ challan[k] \in ChallanStates
      /\ q.op \notin Invoicing
  BY <1>2, <1>3, <1>4, ArKinds DEF ArRead, Invoicing
<1>6. Idle.op # "posted"
  BY ArKinds DEF Invoicing
<1>7. CASE Dispatch(c)
  <2>1. PICK new : new = [challan[k] EXCEPT !.status = "dispatched"]
    OBVIOUS
  <2>2. new \in ChallanStates /\ new.status = "dispatched"
    BY <1>5, <2>1 DEF ChallanStates
  <2>3. WriteChallan(c, Idle, new)
    BY <1>1, <1>2, <1>7, <2>1 DEF Dispatch
  <2>4. QED
    BY <1>1, <1>2, <1>5, <1>6, <2>2, <2>3, ArIdle, WriteChallanStep
<1>8. CASE RecordPod(c)
  <2>1. PICK new : new = [challan[k] EXCEPT !.pod = TRUE]
    OBVIOUS
  <2>2. new \in ChallanStates /\ new.status = challan[k].status
    BY <1>5, <2>1 DEF ChallanStates
  <2>3. WriteChallan(c, Idle, new)
    BY <1>1, <1>2, <1>8, <2>1 DEF RecordPod
  <2>4. QED
    BY <1>1, <1>2, <1>5, <1>6, <2>2, <2>3, ArIdle, WriteChallanStep
<1>9. CASE ConfirmDelivery(c)
  <2>1. PICK new : new = [challan[k] EXCEPT !.status = "delivered"]
    OBVIOUS
  <2>2. new \in ChallanStates
    BY <1>5, <2>1 DEF ChallanStates
  <2>3. PICK next : next = [q EXCEPT !.op = "delivered"]
    OBVIOUS
  <2>4. next \in ArRequests /\ next.op = "delivered" /\ next.row = k
    BY <1>2, <1>5, <2>3 DEF ArRequests, Invoicing
  <2>5. WriteChallan(c, next, new)
    BY <1>1, <1>2, <1>9, <2>1, <2>3 DEF ConfirmDelivery
  <2>6. ArRead(next, buyerInvoice) /\ next.op \in Invoicing
    BY <1>5, <2>4 DEF ArRead, Invoicing, InvoiceOps
  <2>7. QED
    BY <1>1, <1>2, <1>5, <2>2, <2>4, <2>5, <2>6, WriteChallanStep
<1>10. QED
  BY <1>7, <1>8, <1>9

\* An invoice is inserted for the challan that was confirmed.
LEMMA InsertBuyerInvoiceStep ==
  ASSUME ReceivablesInv, NEW c \in Clients, InsertBuyerInvoice(c) PROVE ReceivablesInv'
<1>1. PICK q : q = arReq[c]
  OBVIOUS
<1>2. PICK k : k = q.row
  OBVIOUS
<1>3. PICK row : row = [dc |-> k, gross |-> ChallanGross[k], collected |-> 0, status |-> "unpaid"]
  OBVIOUS
<1>4. PICK marks : marks = {d \in Clients : arReq[d].row = k /\ arReq[d].op \in {"checked", "posted"}}
  OBVIOUS
<1>5. PICK i \in BuyerInvoices :
        buyerInvoice[i] = NoBuyerInvoice /\ buyerInvoice' = [buyerInvoice EXCEPT ![i] = row]
  BY <1>1, <1>2, <1>3 DEF InsertBuyerInvoice
<1>6. /\ q.op = "posted"
      /\ arReq' = Overtake(arReq, c, Idle, LAMBDA d : arReq[d].row = k /\ arReq[d].op \in {"checked", "posted"})
      /\ arOvertaken' = IF q.stale THEN arOvertaken \cup {k} ELSE arOvertaken
      /\ UNCHANGED <<challan, collectedSum, inDispute, revenue, interrupted>>
  BY <1>1, <1>2 DEF InsertBuyerInvoice
<1>7. /\ challan \in [Challans -> ChallanStates] /\ buyerInvoice \in [BuyerInvoices -> InvoiceRows]
      /\ collectedSum \in [BuyerInvoices -> Nat] /\ inDispute \subseteq BuyerInvoices
      /\ revenue \in [Challans -> Nat] /\ interrupted \subseteq Challans
      /\ arOvertaken \subseteq Challans \cup BuyerInvoices
      /\ q \in {Idle} \cup ArRequests /\ ArRead(q, buyerInvoice)
  BY <1>1, ArTyped DEF ReceivablesInv
<1>8. /\ q \in ArRequests /\ k \in Challans /\ ChallanGross[k] \in Nat
      /\ ~ q.stale => \A j \in BuyerInvoices : buyerInvoice[j].dc # k
  BY <1>2, <1>6, <1>7, ArKinds, ReceivablesAssumption DEF ArRead, Invoicing
<1>9. row \in InvoiceRows /\ row # NoBuyerInvoice /\ row.dc = k /\ row.status = "unpaid" /\ row.collected = 0
  BY <1>3, <1>8, ArKinds DEF InvoiceRows, InvoiceStatus
<1>10. /\ buyerInvoice' \in [BuyerInvoices -> InvoiceRows] /\ buyerInvoice'[i] = row
       /\ \A j \in BuyerInvoices : j # i => buyerInvoice'[j] = buyerInvoice[j]
  BY <1>5, <1>7, <1>9
<1>11. arReq' = Marked(arReq, c, Idle, marks)
  BY <1>4, <1>6 DEF Overtake, Marked
<1>12. /\ arReq' \in [Clients -> {Idle} \cup ArRequests] /\ arReq'[c] = Idle
       /\ \A d \in Clients \ {c} : ArKept(arReq'[d], arReq[d], d, marks)
  BY <1>11, ArOvertakes
<1>13. ASSUME NEW d \in Clients, d # c
       PROVE  ArRead(arReq'[d], buyerInvoice') /\ arReq'[d].op = arReq[d].op /\ arReq'[d].row = arReq[d].row
  <2>1. PICK x, y :
          /\ x = arReq'[d] /\ y = arReq[d] /\ y \in {Idle} \cup ArRequests
          /\ ArRead(y, buyerInvoice)
          /\ x.op = y.op /\ x.row = y.row /\ (y # Idle => x.collected = y.collected)
          /\ (d \in marks /\ y # Idle => x.stale) /\ (d \notin marks => x = y)
    BY <1>12, <1>13 DEF ArKept
  <2>2. x = y \/ x.stale
    <3>1. y = Idle => d \notin marks
      BY <1>4, <2>1, ArKinds DEF Idle
    <3>2. QED
      BY <2>1, <3>1
  <2>3. ArRead(x, buyerInvoice)
    BY <2>1, <2>2, ArReadKept
  <2>4. x.op \in {"checked", "posted"} /\ x.row = k => x.stale
    BY <1>4, <2>1, ArKinds DEF Idle
  <2>5. x.op \in InvoiceOps => x.row \in BuyerInvoices /\ x.row # i
    BY <1>5, <2>3 DEF ArRead
  <2>6. ArRead(x, buyerInvoice')
    <3>1. x.op \in {"checked", "posted"} /\ ~ x.stale => \A j \in BuyerInvoices : buyerInvoice'[j].dc # x.row
      BY <1>9, <1>10, <2>3, <2>4 DEF ArRead
    <3>2. QED
      BY <1>10, <2>3, <2>5, <3>1 DEF ArRead
  <2>7. QED
    BY <2>1, <2>6
<1>14. arOvertaken' \subseteq Challans \cup BuyerInvoices /\ arOvertaken \subseteq arOvertaken'
  BY <1>6, <1>7, <1>8
<1>15. ReceivablesTypeOK'
  <2>1. {"dispatch", "pod", "confirm"} \cup Invoicing \cup InvoiceOps =
          {"dispatch", "pod", "confirm", "delivered", "checked", "posted", "collect", "dispute", "clear"}
    BY DEF Invoicing, InvoiceOps
  <2>2. QED
    BY <1>6, <1>7, <1>10, <1>12, <1>14, <2>1 DEF ReceivablesTypeOK, ChallanStates, InvoiceRows, ArRequests
<1>16. \A d \in Clients : ArRead(arReq'[d], buyerInvoice')
  BY <1>12, <1>13, ArIdle
<1>17. ASSUME NEW j \in Challans PROVE ChallanOK(j)'
  <2>1. CASE j # k
    <3>1. InvoicesOf(j)' = InvoicesOf(j)
      BY <1>5, <1>9, <1>10, <2>1, ArKinds DEF InvoicesOf
    <3>2. \A d \in Clients : (arReq'[d].op = "posted" /\ arReq'[d].row = j)
                          <=> (arReq[d].op = "posted" /\ arReq[d].row = j)
      BY <1>1, <1>2, <1>12, <1>13, <2>1, ArKinds DEF Invoicing
    <3>3. \A d \in Clients : arReq[d].op \in Invoicing /\ arReq[d].row = j
                => arReq'[d].op \in Invoicing /\ arReq'[d].row = j
      BY <1>1, <1>2, <1>13, <2>1
    <3>4. QED
      BY <1>6, <1>14, <3>1, <3>2, <3>3, ChallanKept
  <2>2. CASE j = k /\ q.stale
    BY <1>6, <2>2 DEF ChallanOK
  <2>3. CASE j = k /\ ~ q.stale
    <3>1. InvoicesOf(k) = {} /\ InvoicesOf(k)' = {i}
      BY <1>8, <1>9, <1>10, <2>3 DEF InvoicesOf
    <3>2. c \in PostedFor(k) /\ PostedFor(k)' = PostedFor(k) \ {c}
      BY <1>1, <1>2, <1>6, <1>12, <1>13, ArKinds DEF PostedFor, Invoicing
    <3>3. ChallanOK(k) /\ arOvertaken' = arOvertaken
      BY <1>6, <1>8, <2>3 DEF ReceivablesInv
    <3>4. CASE k \in interrupted \cup arOvertaken
      BY <1>6, <2>3, <3>3, <3>4 DEF ChallanOK
    <3>5. CASE k \notin interrupted \cup arOvertaken
      <4>1. (\E d : PostedFor(k) = {d}) => revenue[k] = ChallanGross[k]
        BY <3>1, <3>3, <3>5 DEF ChallanOK
      <4>2. PostedFor(k)' = {} => PostedFor(k) = {c}
        BY <3>2
      <4>3. PostedFor(k)' = {} => revenue'[k] = ChallanGross'[k]
        BY <1>6, <4>1, <4>2
      <4>4. QED
        BY <2>3, <3>1, <4>3 DEF ChallanOK
    <3>6. QED
      BY <3>4, <3>5
  <2>4. QED
    BY <2>1, <2>2, <2>3
<1>18. \A j \in BuyerInvoices : buyerInvoice[j] = NoBuyerInvoice => collectedSum[j] = 0 /\ j \notin inDispute
  BY DEF ReceivablesInv
<1>19. CollectedIsSum'
  <2>1. ASSUME NEW j \in BuyerInvoices, buyerInvoice'[j] # NoBuyerInvoice, j \notin arOvertaken'
        PROVE  /\ buyerInvoice'[j].collected = collectedSum'[j]
               /\ buyerInvoice'[j].status = IF j \in inDispute' THEN "disputed"
                                     ELSE StatusFor(collectedSum'[j], buyerInvoice'[j].gross)
    <3>1. CASE j = i
      BY <1>5, <1>6, <1>9, <1>10, <1>18, <3>1 DEF StatusFor
    <3>2. CASE j # i
      BY <1>6, <1>10, <1>14, <2>1, <3>2 DEF ReceivablesInv, CollectedIsSum
    <3>3. QED
      BY <3>1, <3>2
  <2>2. QED
    BY <2>1 DEF CollectedIsSum
<1>20. \A j \in BuyerInvoices : buyerInvoice'[j] = NoBuyerInvoice => collectedSum'[j] = 0 /\ j \notin inDispute'
  BY <1>6, <1>9, <1>10, <1>18
<1>21. QED
  BY <1>15, <1>16, <1>17, <1>19, <1>20 DEF ReceivablesInv

\* What the write of an invoice must agree with.
InvoiceWrite(i, new, sums, disputed) ==
  /\ new \in InvoiceRows /\ new.status # "none" /\ new.dc = buyerInvoice[i].dc
  /\ sums \in [BuyerInvoices -> Nat] /\ disputed \subseteq BuyerInvoices
  /\ \A j \in BuyerInvoices \ {i} : sums[j] = collectedSum[j] /\ (j \in disputed <=> j \in inDispute)

\* The write agrees with the collections and the dispute.
InvoiceAgrees(i, new, sums, disputed) ==
  /\ new.collected = sums[i]
  /\ new.status = IF i \in disputed THEN "disputed" ELSE StatusFor(sums[i], new.gross)

\* A write of an invoice keeps the invariant if what it stores agrees with the collections.
LEMMA WriteBuyerInvoiceStep ==
  ASSUME ReceivablesInv, NEW c \in Clients, NEW i \in BuyerInvoices, NEW new,
         arReq[c].op \in InvoiceOps, arReq[c].row = i, WriteBuyerInvoice(c, new),
         InvoiceWrite(i, new, collectedSum', inDispute'),
         ~ arReq[c].stale /\ i \notin arOvertaken => InvoiceAgrees(i, new, collectedSum', inDispute')
  PROVE  ReceivablesInv'
<1>1. PICK q : q = arReq[c]
  OBVIOUS
<1>2. PICK marks : marks = {d \in Clients : arReq[d].row = i}
  OBVIOUS
<1>3. /\ buyerInvoice' = [buyerInvoice EXCEPT ![i] = new]
      /\ arReq' = Overtake(arReq, c, Idle, LAMBDA d : arReq[d].row = i)
      /\ arOvertaken' = IF q.stale THEN arOvertaken \cup {i} ELSE arOvertaken
      /\ UNCHANGED <<challan, revenue, interrupted>>
  BY <1>1 DEF WriteBuyerInvoice
<1>4. arReq' = Marked(arReq, c, Idle, marks)
  BY <1>2, <1>3 DEF Overtake, Marked
<1>5. /\ arReq' \in [Clients -> {Idle} \cup ArRequests] /\ arReq'[c] = Idle
      /\ \A d \in Clients \ {c} : ArKept(arReq'[d], arReq[d], d, marks)
  BY <1>4, ArOvertakes
<1>6. /\ challan \in [Challans -> ChallanStates] /\ buyerInvoice \in [BuyerInvoices -> InvoiceRows]
      /\ revenue \in [Challans -> Nat] /\ interrupted \subseteq Challans
      /\ arOvertaken \subseteq Challans \cup BuyerInvoices
      /\ q \in {Idle} \cup ArRequests /\ ArRead(q, buyerInvoice)
  BY <1>1, ArTyped DEF ReceivablesInv
<1>7. buyerInvoice[i] # NoBuyerInvoice /\ q.op \notin Invoicing
  BY <1>1, <1>6, ArKinds DEF ArRead
<1>8. /\ buyerInvoice' \in [BuyerInvoices -> InvoiceRows] /\ buyerInvoice'[i] = new
      /\ \A j \in BuyerInvoices : j # i => buyerInvoice'[j] = buyerInvoice[j]
      /\ new # NoBuyerInvoice
  BY <1>3, <1>6, ArKinds DEF InvoiceWrite
<1>9. \A j \in BuyerInvoices : buyerInvoice'[j].dc = buyerInvoice[j].dc
  BY <1>8 DEF InvoiceWrite
<1>10. ASSUME NEW d \in Clients, d # c
       PROVE  ArRead(arReq'[d], buyerInvoice') /\ arReq'[d].op = arReq[d].op /\ arReq'[d].row = arReq[d].row
  <2>1. PICK x, y :
          /\ x = arReq'[d] /\ y = arReq[d] /\ y \in {Idle} \cup ArRequests
          /\ ArRead(y, buyerInvoice)
          /\ x.op = y.op /\ x.row = y.row /\ (y # Idle => x.collected = y.collected)
          /\ (d \in marks /\ y # Idle => x.stale) /\ (d \notin marks => x = y)
    BY <1>5, <1>10 DEF ArKept
  <2>2. CASE y = Idle
    <3>1. x.op = "idle"
      BY <2>1, <2>2, ArKinds
    <3>2. ArRead(x, buyerInvoice')
      BY <3>1 DEF ArRead, Invoicing, InvoiceOps
    <3>3. QED
      BY <2>1, <3>2
  <2>3. CASE y # Idle
    <3>1. ArRead(x, buyerInvoice)
      BY <2>1, <2>3, ArReadKept
    <3>2. x.row = i => x.stale
      BY <1>2, <2>1, <2>3
    <3>3. x.op \in InvoiceOps => x.row \in BuyerInvoices
      BY <3>1 DEF ArRead
    <3>4. ArRead(x, buyerInvoice')
      BY <1>8, <1>9, <3>1, <3>2, <3>3 DEF ArRead
    <3>5. QED
      BY <2>1, <3>4
  <2>4. QED
    BY <2>2, <2>3
<1>11. arOvertaken' \subseteq Challans \cup BuyerInvoices /\ arOvertaken \subseteq arOvertaken'
  BY <1>3, <1>6
<1>12. ReceivablesTypeOK'
  <2>1. {"dispatch", "pod", "confirm"} \cup Invoicing \cup InvoiceOps =
          {"dispatch", "pod", "confirm", "delivered", "checked", "posted", "collect", "dispute", "clear"}
    BY DEF Invoicing, InvoiceOps
  <2>2. QED
    BY <1>3, <1>5, <1>6, <1>8, <1>11, <2>1
       DEF ReceivablesTypeOK, ChallanStates, InvoiceRows, ArRequests, InvoiceWrite
<1>13. \A d \in Clients : ArRead(arReq'[d], buyerInvoice')
  BY <1>5, <1>10, ArIdle
<1>14. ASSUME NEW k \in Challans PROVE ChallanOK(k)'
  <2>1. InvoicesOf(k)' = InvoicesOf(k)
    BY <1>9 DEF InvoicesOf
  <2>2. "posted" \in Invoicing /\ Idle.op \notin Invoicing
    BY ArKinds DEF Invoicing
  <2>3. \A d \in Clients : (arReq'[d].op = "posted" /\ arReq'[d].row = k)
                          <=> (arReq[d].op = "posted" /\ arReq[d].row = k)
    BY <1>1, <1>5, <1>7, <1>10, <2>2
  <2>4. \A d \in Clients : arReq[d].op \in Invoicing /\ arReq[d].row = k
                => arReq'[d].op \in Invoicing /\ arReq'[d].row = k
    BY <1>1, <1>7, <1>10
  <2>5. QED
    BY <1>3, <1>11, <2>1, <2>3, <2>4, ChallanKept
<1>15. CollectedIsSum'
  <2>1. ASSUME NEW j \in BuyerInvoices, buyerInvoice'[j] # NoBuyerInvoice, j \notin arOvertaken'
        PROVE  /\ buyerInvoice'[j].collected = collectedSum'[j]
               /\ buyerInvoice'[j].status = IF j \in inDispute' THEN "disputed"
                                     ELSE StatusFor(collectedSum'[j], buyerInvoice'[j].gross)
    <3>1. CASE j = i
      <4>1. ~ q.stale /\ i \notin arOvertaken
        BY <1>3, <2>1, <3>1
      <4>2. InvoiceAgrees(i, new, collectedSum', inDispute')
        BY <1>1, <4>1
      <4>3. QED
        BY <1>8, <3>1, <4>2 DEF InvoiceAgrees
    <3>2. CASE j # i
      BY <1>8, <1>11, <2>1, <3>2 DEF ReceivablesInv, CollectedIsSum, InvoiceWrite
    <3>3. QED
      BY <3>1, <3>2
  <2>2. QED
    BY <2>1 DEF CollectedIsSum
<1>16. \A j \in BuyerInvoices : buyerInvoice'[j] = NoBuyerInvoice => collectedSum'[j] = 0 /\ j \notin inDispute'
  BY <1>8 DEF ReceivablesInv, InvoiceWrite
<1>17. QED
  BY <1>12, <1>13, <1>14, <1>15, <1>16 DEF ReceivablesInv

\* A collection, a dispute and its end store what agrees with the collections.
LEMMA InvoiceWrites ==
  ASSUME ReceivablesInv, NEW c \in Clients, RecordCollection(c) \/ Dispute(c) \/ ClearDispute(c)
  PROVE  ReceivablesInv'
<1>1. PICK q : q = arReq[c]
  OBVIOUS
<1>2. PICK i : i = q.row
  OBVIOUS
<1>3. PICK inv : inv = buyerInvoice[i]
  OBVIOUS
<1>4. q.op \in InvoiceOps
  BY <1>1 DEF RecordCollection, Dispute, ClearDispute, InvoiceOps
<1>5. /\ q \in {Idle} \cup ArRequests /\ ArRead(q, buyerInvoice)
      /\ buyerInvoice \in [BuyerInvoices -> InvoiceRows]
      /\ collectedSum \in [BuyerInvoices -> Nat] /\ inDispute \subseteq BuyerInvoices
  BY <1>1, ArTyped DEF ReceivablesInv
<1>6. /\ q \in ArRequests /\ i \in BuyerInvoices /\ inv \in InvoiceRows /\ inv # NoBuyerInvoice
  BY <1>2, <1>3, <1>4, <1>5, ArKinds DEF ArRead
<1>7. i \notin arOvertaken =>
        /\ inv.collected = collectedSum[i]
        /\ inv.status = IF i \in inDispute THEN "disputed" ELSE StatusFor(collectedSum[i], inv.gross)
  BY <1>3, <1>6 DEF ReceivablesInv, CollectedIsSum
<1>8. ~ q.stale => /\ inv.collected = q.collected
                   /\ q.op = "collect" => inv.status \in {"unpaid", "partial"}
                   /\ q.op = "clear" => inv.status = "disputed"
  BY <1>2, <1>3, <1>4, <1>5 DEF ArRead
<1>9. q.amount \in Nat /\ q.collected \in Nat /\ inv.gross \in Nat /\ inv.collected \in Nat
  BY <1>6 DEF ArRequests, InvoiceRows
<1>10. \A n \in Nat, g \in Nat : StatusFor(n, g) \in InvoiceStatus \ {"none", "disputed"}
  BY DEF StatusFor, InvoiceStatus
<1>11. "disputed" \in InvoiceStatus
  BY DEF InvoiceStatus
<1>12. CASE RecordCollection(c)
  <2>1. PICK n : n = q.collected + q.amount
    OBVIOUS
  <2>2. PICK new : new = [inv EXCEPT !.collected = n, !.status = StatusFor(n, inv.gross)]
    OBVIOUS
  <2>3. /\ q.op = "collect" /\ collectedSum' = [collectedSum EXCEPT ![i] = collectedSum[i] + q.amount]
        /\ WriteBuyerInvoice(c, new) /\ inDispute' = inDispute
    BY <1>1, <1>2, <1>3, <1>5, <1>6, <1>12, <2>1, <2>2 DEF RecordCollection
  <2>4. n \in Nat /\ StatusFor(n, inv.gross) \in InvoiceStatus \ {"none", "disputed"}
    BY <1>9, <1>10, <2>1
  <2>5. /\ new \in InvoiceRows /\ new.dc = inv.dc /\ new.gross = inv.gross /\ new.collected = n
        /\ new.status = StatusFor(n, inv.gross)
    BY <1>6, <2>2, <2>4 DEF InvoiceRows
  <2>6. /\ collectedSum' \in [BuyerInvoices -> Nat] /\ collectedSum'[i] = collectedSum[i] + q.amount
        /\ \A j \in BuyerInvoices \ {i} : collectedSum'[j] = collectedSum[j]
    BY <1>5, <1>6, <1>9, <2>3
  <2>7. InvoiceWrite(i, new, collectedSum', inDispute')
    BY <1>3, <1>5, <2>3, <2>4, <2>5, <2>6 DEF InvoiceWrite
  <2>8. ~ q.stale /\ i \notin arOvertaken => InvoiceAgrees(i, new, collectedSum', inDispute')
    <3>1. SUFFICES ASSUME ~ q.stale, i \notin arOvertaken
                   PROVE  InvoiceAgrees(i, new, collectedSum', inDispute')
      OBVIOUS
    <3>2. n = collectedSum'[i] /\ i \notin inDispute'
      BY <1>7, <1>8, <2>1, <2>3, <2>6, <3>1
    <3>3. QED
      BY <2>5, <3>2 DEF InvoiceAgrees
  <2>9. QED
    BY <1>1, <1>2, <1>4, <1>6, <2>3, <2>7, <2>8, WriteBuyerInvoiceStep
<1>13. CASE Dispute(c)
  <2>1. PICK new : new = [inv EXCEPT !.status = "disputed"]
    OBVIOUS
  <2>2. /\ collectedSum' = collectedSum /\ WriteBuyerInvoice(c, new)
        /\ inDispute' = inDispute \cup {i}
    BY <1>1, <1>2, <1>3, <1>13, <2>1 DEF Dispute
  <2>3. /\ new \in InvoiceRows /\ new.dc = inv.dc /\ new.gross = inv.gross
        /\ new.collected = inv.collected /\ new.status = "disputed"
    BY <1>6, <1>11, <2>1 DEF InvoiceRows
  <2>4. InvoiceWrite(i, new, collectedSum', inDispute')
    BY <1>3, <1>5, <1>6, <2>2, <2>3 DEF InvoiceWrite
  <2>5. ~ q.stale /\ i \notin arOvertaken => InvoiceAgrees(i, new, collectedSum', inDispute')
    BY <1>7, <2>2, <2>3 DEF InvoiceAgrees
  <2>6. QED
    BY <1>1, <1>2, <1>4, <1>6, <2>2, <2>4, <2>5, WriteBuyerInvoiceStep
<1>14. CASE ClearDispute(c)
  <2>1. PICK new : new = [inv EXCEPT !.status = StatusFor(q.collected, inv.gross)]
    OBVIOUS
  <2>2. /\ collectedSum' = collectedSum /\ WriteBuyerInvoice(c, new)
        /\ inDispute' = inDispute \ {i}
    BY <1>1, <1>2, <1>3, <1>14, <2>1 DEF ClearDispute, ClearedStatus
  <2>3. /\ new \in InvoiceRows /\ new.dc = inv.dc /\ new.gross = inv.gross
        /\ new.collected = inv.collected /\ new.status = StatusFor(q.collected, inv.gross)
        /\ new.status # "none"
    BY <1>6, <1>9, <1>10, <2>1 DEF InvoiceRows
  <2>4. InvoiceWrite(i, new, collectedSum', inDispute')
    BY <1>3, <1>5, <1>6, <2>2, <2>3 DEF InvoiceWrite
  <2>5. ~ q.stale /\ i \notin arOvertaken => InvoiceAgrees(i, new, collectedSum', inDispute')
    BY <1>7, <1>8, <2>2, <2>3 DEF InvoiceAgrees
  <2>6. QED
    BY <1>1, <1>2, <1>4, <1>6, <2>2, <2>4, <2>5, WriteBuyerInvoiceStep
<1>15. QED
  BY <1>12, <1>13, <1>14

\* No challan and no invoice exists at the start.
LEMMA ReceivablesStart == ReceivablesInit => ReceivablesInv
<1> SUFFICES ASSUME ReceivablesInit PROVE ReceivablesInv
  OBVIOUS
<1>1. ReceivablesTypeOK
  BY ArKinds DEF ReceivablesInit, ReceivablesTypeOK, InvoiceRows
<1>2. \A c \in Clients : ArRead(arReq[c], buyerInvoice)
  BY ArIdle DEF ReceivablesInit
<1>3. ASSUME NEW k \in Challans PROVE ChallanOK(k)
  <2>1. InvoicesOf(k) = {} /\ PostedFor(k) = {}
    BY ArKinds DEF ReceivablesInit, InvoicesOf, PostedFor
  <2>2. revenue[k] = 0 /\ challan[k].status = "none"
    BY DEF ReceivablesInit
  <2>3. QED
    BY <2>1, <2>2 DEF ChallanOK
<1>4. CollectedIsSum
  BY DEF ReceivablesInit, CollectedIsSum
<1>5. QED
  BY <1>1, <1>2, <1>3, <1>4 DEF ReceivablesInit, ReceivablesInv

\* Every step of the receivables keeps the invariant.
LEMMA ReceivablesStep == ASSUME ReceivablesInv, [ReceivablesNext]_arVars PROVE ReceivablesInv'
<1>1. CASE \E k \in Challans : CreateChallan(k)
  BY <1>1, CreateChallanStep
<1>2. ASSUME NEW c \in Clients,
             \/ ReadChallan(c) \/ Dispatch(c) \/ RecordPod(c) \/ ConfirmDelivery(c) \/ CheckChallan(c)
             \/ PostRevenue(c) \/ InsertBuyerInvoice(c) \/ ReadBuyerInvoice(c) \/ RecordCollection(c)
             \/ Dispute(c) \/ ClearDispute(c) \/ DropArRequest(c)
      PROVE  ReceivablesInv'
  BY <1>2, ChallanWrites, CheckChallanStep, PostRevenueStep, InsertBuyerInvoiceStep, ArBegins,
     InvoiceWrites, ArDrops
<1>3. CASE UNCHANGED arVars
  <2>1. \A k \in Challans : PostedFor(k)' = PostedFor(k) /\ InvoicesOf(k)' = InvoicesOf(k)
    BY <1>3 DEF arVars, PostedFor, InvoicesOf
  <2>2. \A k \in Challans : ChallanOK(k)'
    BY <1>3, <2>1 DEF arVars, ReceivablesInv, ChallanOK
  <2>3. CollectedIsSum' /\ ReceivablesTypeOK'
    BY <1>3 DEF arVars, ReceivablesInv, CollectedIsSum, ReceivablesTypeOK
  <2>4. QED
    BY <1>3, <2>2, <2>3 DEF arVars, ReceivablesInv
<1>4. QED
  BY <1>1, <1>2, <1>3 DEF ReceivablesNext

(*************************************************************************)
(* Vendor invoices and ratings.                                          *)
(* A payment that nothing has overtaken holds what the invoice was paid; an *)
(* approval holds the average over all the approved receipts of its vendor. *)
(*************************************************************************)

\* A sum of percentages of n receipts, averaged on a scale of fifty and rounded.
LEMMA Average ==
  ASSUME NEW n \in Nat, n # 0, NEW t \in Nat, t <= 100 * n
  PROVE  (t * 50 + n * 50) \div (100 * n) \in 0..50
<1>1. PICK m \in Nat : m = 100 * n
  OBVIOUS
<1>2. PICK a \in Nat : a = t * 50 + n * 50
  OBVIOUS
<1>3. m > 0 /\ a < 51 * m
  BY <1>1, <1>2
<1>4. a \div m \in Nat /\ a \div m < 51
  BY <1>3
<1>5. QED
  BY <1>1, <1>2, <1>4

\* A rating is between nothing and five stars.
LEMMA RatingType ==
  ASSUME NEW R \in SUBSET GoodsReceipts, R # {} PROVE RatingOf(R) \in 0..50
<1> DEFINE w == [g \in GoodsReceipts |-> ReceiptFacts[g].ratio]
<1>1. IsFiniteSet(R)
  BY PayablesAssumption, FS_Subset
<1>2. \A x \in R : w[x] \in 0..100
  BY PayablesAssumption
<1>3. SumFunctionOnSet(w, R) \in Nat /\ SumFunctionOnSet(w, R) <= 100 * Cardinality(R)
  <2> HIDE DEF w
  <2>1. QED
    BY <1>1, <1>2, SumAtMost
<1>4. Cardinality(R) \in Nat /\ Cardinality(R) # 0
  BY <1>1, FS_CardinalityType, FS_EmptySet
<1>5. RatingOf(R) = (SumFunctionOnSet(w, R) * 50 + Cardinality(R) * 50) \div (100 * Cardinality(R))
  BY DEF RatingOf
<1> HIDE DEF w
<1>6. QED
  BY <1>3, <1>4, <1>5, Average

\* Tax deducted at source leaves an amount to pay.
LEMMA NetType ==
  ASSUME NEW gross \in Amounts PROVE gross - RoundPct(gross, TdsRatePct) \in Nat
<1>1. gross \in Nat /\ TdsRatePct \in 0..100
  BY PayablesAssumption
<1>2. gross * TdsRatePct \in Nat /\ gross * TdsRatePct <= gross * 100
  BY <1>1
<1>3. PICK a \in Nat : a = gross * TdsRatePct
  BY <1>2
<1>4. (a + 50) \div 100 \in Nat /\ (a + 50) \div 100 <= gross
  BY <1>1, <1>2, <1>3
<1>5. QED
  BY <1>1, <1>3, <1>4 DEF RoundPct

\* The requests, with what each operation is about.
PayRequests ==
  {Idle}
    \cup [op : {"invoice"}, row : VendorInvoices, amount : Nat, paid : Nat, stale : BOOLEAN]
    \cup [op : {"pay"}, row : VendorInvoices, amount : Nat \ {0}, paid : Nat, stale : BOOLEAN]
    \cup [op : {"approve"}, row : GoodsReceipts, amount : 0..50, paid : Nat, stale : BOOLEAN]

\* What a request has read of invoices and receipts, if nothing was written since.
PayRead(r, invoices, receipts) ==
  /\ r.op = "approve" => r.row \notin receipts
  /\ r.op = "pay" /\ ~ r.stale =>
       /\ invoices[r.row].status \in {"pending", "partial"}
       /\ invoices[r.row].paid = r.paid
       /\ r.paid + r.amount <= invoices[r.row].net
  /\ r.op = "approve" /\ ~ r.stale =>
       r.amount = RatingOf(ReceiptsOf(ReceiptFacts[r.row].vendor, receipts \cup {r.row}))

\* An invoice and its payments, unless a payment had seen something old.
InvoicePaid(inv, out) ==
  /\ inv.paid = out
  /\ inv.status \in {"none", "pending"} => out = 0
  /\ inv.status = "partial" => out < inv.net
  /\ inv.status = "paid" => out > 0 /\ out = inv.net

PayablesInv ==
  /\ approvedReceipts \subseteq GoodsReceipts
  /\ rating \in [Vendors -> 0..50]
  /\ vendorInvoice \in [VendorInvoices -> [status : {"none", "pending", "partial", "paid"},
                                           net : Nat, paid : Nat]]
  /\ payableReq \in [Clients -> PayRequests]
  /\ paidOut \in [VendorInvoices -> Nat]
  /\ payableOvertaken \subseteq VendorInvoices \cup Vendors
  /\ \A c \in Clients : PayRead(payableReq[c], vendorInvoice, approvedReceipts)
  /\ \A c, d \in Clients :
       payableReq[c].op = "approve" /\ payableReq[d].op = "approve" /\ c # d
         => payableReq[c].row # payableReq[d].row
  /\ \A i \in VendorInvoices :
       InvoicePaid(vendorInvoice[i], paidOut[i]) \/ i \in payableOvertaken
  /\ RatingIsAverage

\* The requests by operation; one that is idle has read nothing.
LEMMA PayOps ==
  /\ Idle.op = "idle" /\ Idle \in PayRequests
  /\ \A r \in PayRequests : r # Idle =>
       \/ r \in [op : {"invoice"}, row : VendorInvoices, amount : Nat, paid : Nat, stale : BOOLEAN]
       \/ r \in [op : {"pay"}, row : VendorInvoices, amount : Nat \ {0}, paid : Nat, stale : BOOLEAN]
       \/ r \in [op : {"approve"}, row : GoodsReceipts, amount : 0..50, paid : Nat, stale : BOOLEAN]
  /\ \A r \in PayRequests : r.op # "idle" => r # Idle
  /\ PayRequests \subseteq PayableRequests
BY DEF Idle, PayRequests, PayableRequests

\* A request without a row has read nothing.
LEMMA PayIdle ==
  ASSUME NEW invoices, NEW receipts PROVE PayRead(Idle, invoices, receipts)
BY DEF PayRead, Idle

\* The stored sums follow from the invariant.
LEMMA PayablesInvTyped == ASSUME PayablesInv PROVE PayablesTypeOK /\ PaidIsSum /\ RatingIsAverage
<1>1. payableReq \in [Clients -> PayableRequests]
  BY PayOps DEF PayablesInv
<1>2. PayablesTypeOK
  BY <1>1 DEF PayablesInv, PayablesTypeOK
<1>3. ASSUME NEW i \in VendorInvoices
      PROVE  \/ /\ vendorInvoice[i].paid = paidOut[i]
                /\ vendorInvoice[i].status = "paid"
                     <=> paidOut[i] > 0 /\ paidOut[i] = vendorInvoice[i].net
             \/ i \in payableOvertaken
  <2>1. PICK inv, out : inv = vendorInvoice[i] /\ out = paidOut[i]
    OBVIOUS
  <2>2. /\ inv \in [status : {"none", "pending", "partial", "paid"}, net : Nat, paid : Nat]
        /\ out \in Nat /\ (InvoicePaid(inv, out) \/ i \in payableOvertaken)
    BY <2>1 DEF PayablesInv
  <2>3. ASSUME InvoicePaid(inv, out) PROVE inv.paid = out /\ (inv.status = "paid" <=> out > 0 /\ out = inv.net)
    BY <2>2, <2>3 DEF InvoicePaid
  <2>4. QED
    BY <2>1, <2>2, <2>3
<1>4. QED
  BY <1>2, <1>3 DEF PayablesInv, PaidIsSum

\* A request begins or ends, and no row is written.
LEMMA PayRequestStep ==
  ASSUME PayablesInv, NEW c \in Clients, NEW r \in PayRequests,
         payableReq' = [payableReq EXCEPT ![c] = r],
         UNCHANGED <<approvedReceipts, rating, vendorInvoice, paidOut, payableOvertaken>>,
         PayRead(r, vendorInvoice, approvedReceipts),
         r.op = "approve" => \A d \in Clients : payableReq[d].row # r.row
  PROVE  PayablesInv'
<1>1. payableReq' \in [Clients -> PayRequests]
  BY DEF PayablesInv
<1>2. \A d \in Clients : PayRead(payableReq'[d], vendorInvoice, approvedReceipts)
  BY DEF PayablesInv
<1>3. ASSUME NEW a \in Clients, NEW d \in Clients, a # d,
             payableReq'[a].op = "approve", payableReq'[d].op = "approve"
      PROVE  payableReq'[a].row # payableReq'[d].row
  <2>1. payableReq'[c] = r /\ \A e \in Clients : e # c => payableReq'[e] = payableReq[e]
    BY DEF PayablesInv
  <2>2. CASE a = c
    BY <1>3, <2>1, <2>2
  <2>3. CASE d = c
    BY <1>3, <2>1, <2>3
  <2>4. CASE a # c /\ d # c
    BY <1>3, <2>1, <2>4 DEF PayablesInv
  <2>5. QED
    BY <2>2, <2>3, <2>4
<1>4. RatingIsAverage'
  BY DEF PayablesInv, RatingIsAverage
<1>5. QED
  BY <1>1, <1>2, <1>3, <1>4 DEF PayablesInv

\* What Overtake does to another request d.
PayKept(x, q, d, marks) ==
  /\ x \in PayRequests
  /\ q = Idle => x = Idle
  /\ q # Idle =>
       /\ x # Idle /\ x.op = q.op /\ x.row = q.row /\ x.amount = q.amount /\ x.paid = q.paid
       /\ d \in marks => x.stale
       /\ d \notin marks => x = q

\* Overtake keeps everything of the other requests but what they have seen.
LEMMA PayOvertakes ==
  ASSUME PayablesInv, NEW c \in Clients, NEW marks \in SUBSET Clients,
         payableReq' = Marked(payableReq, c, Idle, marks)
  PROVE  /\ payableReq' \in [Clients -> PayRequests] /\ payableReq'[c] = Idle
         /\ \A d \in Clients \ {c} : PayKept(payableReq'[d], payableReq[d], d, marks)
<1> USE DEF Marked
<1>1. ASSUME NEW d \in Clients \ {c} PROVE PayKept(payableReq'[d], payableReq[d], d, marks)
  <2>1. PICK q, x : q = payableReq[d] /\ x = payableReq'[d]
    OBVIOUS
  <2>2. q \in PayRequests
    BY <2>1 DEF PayablesInv
  <2>3. x = IF q # Idle /\ d \in marks THEN [q EXCEPT !.stale = TRUE] ELSE q
    BY <2>1
  <2>4. CASE q = Idle
    BY <2>1, <2>2, <2>3, <2>4 DEF PayKept
  <2>5. CASE q # Idle
    <3>1. \/ q \in [op : {"invoice"}, row : VendorInvoices, amount : Nat, paid : Nat, stale : BOOLEAN]
          \/ q \in [op : {"pay"}, row : VendorInvoices, amount : Nat \ {0}, paid : Nat, stale : BOOLEAN]
          \/ q \in [op : {"approve"}, row : GoodsReceipts, amount : 0..50, paid : Nat, stale : BOOLEAN]
      BY <2>2, <2>5, PayOps
    <3>2. CASE d \notin marks
      BY <2>1, <2>2, <2>3, <2>5, <3>2 DEF PayKept
    <3>3. CASE d \in marks
      <4>1. x = [q EXCEPT !.stale = TRUE]
        BY <2>3, <2>5, <3>3
      <4>2. /\ x \in PayRequests /\ x.stale /\ x.op = q.op /\ x.row = q.row /\ x.amount = q.amount
            /\ x.paid = q.paid
        BY <3>1, <4>1 DEF PayRequests
      <4>3. x # Idle
        BY <3>1, <4>2, PayOps
      <4>4. QED
        BY <2>1, <2>5, <3>3, <4>2, <4>3 DEF PayKept
    <3>4. QED
      BY <3>2, <3>3
  <2>6. QED
    BY <2>4, <2>5
<1>2. payableReq'[c] = Idle
  OBVIOUS
<1>3. \A d \in Clients : payableReq'[d] \in PayRequests
  BY <1>1, <1>2, PayOps DEF PayKept
<1>4. payableReq' \in [Clients -> PayRequests]
  BY <1>3
<1>5. QED
  BY <1>1, <1>2, <1>4

\* Two approvals stay about two receipts.
LEMMA PayApart ==
  ASSUME PayablesInv, NEW c \in Clients, NEW marks,
         payableReq'[c] = Idle,
         \A d \in Clients \ {c} : PayKept(payableReq'[d], payableReq[d], d, marks)
  PROVE  \A a, d \in Clients :
           payableReq'[a].op = "approve" /\ payableReq'[d].op = "approve" /\ a # d
             => payableReq'[a].row # payableReq'[d].row
<1>1. ASSUME NEW d \in Clients, payableReq'[d].op = "approve"
      PROVE  d # c /\ payableReq[d].op = "approve" /\ payableReq'[d].row = payableReq[d].row
  BY <1>1, PayOps DEF PayKept
<1>2. QED
  BY <1>1 DEF PayablesInv

\* A payment that has read the current row adds up.
LEMMA PaymentAddsUp ==
  ASSUME NEW inv \in [status : {"none", "pending", "partial", "paid"}, net : Nat, paid : Nat],
         NEW out \in Nat, NEW amount \in Nat \ {0}, NEW paid \in Nat, NEW new,
         inv.paid = paid, paid + amount <= inv.net, InvoicePaid(inv, out),
         new = [inv EXCEPT !.paid = paid + amount,
                           !.status = IF paid + amount >= inv.net THEN "paid" ELSE "partial"]
  PROVE  InvoicePaid(new, out + amount)
<1>1. /\ new.paid = paid + amount /\ new.net = inv.net
      /\ new.status = IF paid + amount >= inv.net THEN "paid" ELSE "partial"
  OBVIOUS
<1>2. out = paid
  BY DEF InvoicePaid
<1>3. inv.net \in Nat
  OBVIOUS
<1>4. QED
  BY <1>1, <1>2, <1>3 DEF InvoicePaid

\* A payment writes what it has read and the amount.
LEMMA RecordPaymentStep ==
  ASSUME PayablesInv, NEW c \in Clients, RecordVendorPayment(c) PROVE PayablesInv'
<1>1. PICK r : r = payableReq[c]
  OBVIOUS
<1>2. PICK i : i = r.row
  OBVIOUS
<1>3. PICK marks : marks = {d \in Clients : payableReq[d].row = i}
  OBVIOUS
<1>4. r \in [op : {"pay"}, row : VendorInvoices, amount : Nat \ {0}, paid : Nat, stale : BOOLEAN]
  BY <1>1, PayOps DEF RecordVendorPayment, PayablesInv
<1>5. /\ i \in VendorInvoices /\ PayRead(r, vendorInvoice, approvedReceipts)
      /\ vendorInvoice[i] \in [status : {"none", "pending", "partial", "paid"}, net : Nat, paid : Nat]
      /\ paidOut[i] \in Nat /\ r.amount \in Nat \ {0} /\ r.paid \in Nat /\ r.op = "pay"
  BY <1>1, <1>2, <1>4 DEF PayablesInv
<1>6. PICK new : new = [vendorInvoice[i] EXCEPT !.paid = r.paid + r.amount,
                          !.status = IF r.paid + r.amount >= vendorInvoice[i].net THEN "paid" ELSE "partial"]
  OBVIOUS
<1>7. /\ vendorInvoice' = [vendorInvoice EXCEPT ![i] = new]
      /\ paidOut' = [paidOut EXCEPT ![i] = paidOut[i] + r.amount]
      /\ payableOvertaken' = IF r.stale THEN payableOvertaken \cup {i} ELSE payableOvertaken
      /\ UNCHANGED <<approvedReceipts, rating>>
  BY <1>1, <1>2, <1>6 DEF RecordVendorPayment, PaidAfter
<1>8. payableReq' = Marked(payableReq, c, Idle, marks)
  BY <1>1, <1>2, <1>3 DEF RecordVendorPayment, Overtake, Marked
<1>9. marks \in SUBSET Clients
  BY <1>3
<1>10. /\ payableReq' \in [Clients -> PayRequests] /\ payableReq'[c] = Idle
       /\ \A d \in Clients \ {c} : PayKept(payableReq'[d], payableReq[d], d, marks)
  BY <1>8, <1>9, PayOvertakes
<1>11. new \in [status : {"none", "pending", "partial", "paid"}, net : Nat, paid : Nat]
  <2>1. PICK inv, sum : inv = vendorInvoice[i] /\ sum = r.paid + r.amount
    OBVIOUS
  <2>2. /\ inv \in [status : {"none", "pending", "partial", "paid"}, net : Nat, paid : Nat]
        /\ sum \in Nat
    BY <1>5, <2>1
  <2>3. new = [inv EXCEPT !.paid = sum, !.status = IF sum >= inv.net THEN "paid" ELSE "partial"]
    BY <1>6, <2>1
  <2>4. QED
    BY ONLY <2>2, <2>3
<1>12. /\ vendorInvoice' \in [VendorInvoices -> [status : {"none", "pending", "partial", "paid"},
                                                net : Nat, paid : Nat]]
       /\ paidOut' \in [VendorInvoices -> Nat] /\ payableOvertaken' \subseteq VendorInvoices \cup Vendors
       /\ vendorInvoice'[i] = new /\ paidOut'[i] = paidOut[i] + r.amount
       /\ \A k \in VendorInvoices : k # i => vendorInvoice'[k] = vendorInvoice[k] /\ paidOut'[k] = paidOut[k]
       /\ payableOvertaken \subseteq payableOvertaken' /\ payableOvertaken' \subseteq payableOvertaken \cup {i}
  BY <1>5, <1>7, <1>11 DEF PayablesInv
<1>13. ASSUME NEW d \in Clients PROVE PayRead(payableReq'[d], vendorInvoice', approvedReceipts')
  <2>1. PICK q, x : q = payableReq[d] /\ x = payableReq'[d]
    OBVIOUS
  <2>2. CASE x = Idle
    BY <2>1, <2>2, PayIdle
  <2>3. CASE x # Idle
    <3>1. d # c /\ PayKept(x, q, d, marks) /\ PayRead(q, vendorInvoice, approvedReceipts)
      BY <1>10, <2>1, <2>3 DEF PayablesInv
    <3>2. /\ x \in PayRequests /\ x.op = q.op /\ x.row = q.row /\ x.amount = q.amount
          /\ x.paid = q.paid /\ (d \in marks => x.stale) /\ (d \notin marks => x = q)
      BY <2>3, <3>1 DEF PayKept
    <3>3. x.op = "pay" /\ ~ x.stale => x = q /\ x.row \in VendorInvoices /\ x.row # i
      BY <1>3, <2>1, <2>3, <3>2, PayOps
    <3>4. x.op = "pay" /\ ~ x.stale => x = q /\ vendorInvoice'[x.row] = vendorInvoice[x.row]
      BY <1>12, <3>3
    <3>5. approvedReceipts' = approvedReceipts /\ (x.op = "approve" /\ ~ x.stale => x = q)
      BY <1>7, <3>2
    <3>6. QED
      BY <2>1, <3>1, <3>2, <3>4, <3>5 DEF PayRead
  <2>4. QED
    BY <2>2, <2>3
<1>14. ASSUME NEW k \in VendorInvoices
       PROVE  InvoicePaid(vendorInvoice'[k], paidOut'[k]) \/ k \in payableOvertaken'
  <2>1. CASE k # i
    BY <1>12, <2>1 DEF PayablesInv
  <2>2. CASE k = i /\ r.stale
    BY <1>7, <2>2
  <2>3. CASE k = i /\ ~ r.stale
    <3>1. vendorInvoice[i].paid = r.paid /\ r.paid + r.amount <= vendorInvoice[i].net
      BY <1>2, <1>5, <2>3 DEF PayRead
    <3>2. CASE InvoicePaid(vendorInvoice[i], paidOut[i])
      <4>1. PICK inv, out, amount, paid :
              inv = vendorInvoice[i] /\ out = paidOut[i] /\ amount = r.amount /\ paid = r.paid
        OBVIOUS
      <4>2. /\ inv \in [status : {"none", "pending", "partial", "paid"}, net : Nat, paid : Nat]
            /\ out \in Nat /\ amount \in Nat \ {0} /\ paid \in Nat
            /\ inv.paid = paid /\ paid + amount <= inv.net /\ InvoicePaid(inv, out)
            /\ new = [inv EXCEPT !.paid = paid + amount,
                                 !.status = IF paid + amount >= inv.net THEN "paid" ELSE "partial"]
        BY <1>5, <1>6, <3>1, <3>2, <4>1
      <4>3. InvoicePaid(new, out + amount)
        BY ONLY <4>2, PaymentAddsUp
      <4>4. QED
        BY <1>12, <2>3, <4>1, <4>3
    <3>3. CASE i \in payableOvertaken
      BY <1>12, <2>3, <3>3
    <3>4. QED
      BY <1>5, <3>2, <3>3 DEF PayablesInv
  <2>4. QED
    BY <2>1, <2>2, <2>3
<1>15. RatingIsAverage'
  BY <1>7, <1>12, PayablesAssumption DEF PayablesInv, RatingIsAverage
<1>16. \A a, d \in Clients :
           payableReq'[a].op = "approve" /\ payableReq'[d].op = "approve" /\ a # d
             => payableReq'[a].row # payableReq'[d].row
  BY <1>10, PayApart
<1>17. approvedReceipts' \subseteq GoodsReceipts /\ rating' \in [Vendors -> 0..50]
  BY <1>7 DEF PayablesInv
<1>18. QED
  BY <1>10, <1>12, <1>13, <1>14, <1>15, <1>16, <1>17 DEF PayablesInv

\* An approval stores the rating it has computed.
LEMMA CommitRatingStep ==
  ASSUME PayablesInv, NEW c \in Clients, CommitRating(c) PROVE PayablesInv'
<1>1. PICK r : r = payableReq[c]
  OBVIOUS
<1>2. PICK g, v : g = r.row /\ v = ReceiptFacts[g].vendor
  OBVIOUS
<1>3. PICK marks : marks = {d \in Clients : payableReq[d].op = "approve"
                                              /\ ReceiptFacts[payableReq[d].row].vendor = v}
  OBVIOUS
<1>4. r \in [op : {"approve"}, row : GoodsReceipts, amount : 0..50, paid : Nat, stale : BOOLEAN]
  BY <1>1, PayOps DEF CommitRating, PayablesInv
<1>5. /\ g \in GoodsReceipts /\ v \in Vendors /\ PayRead(r, vendorInvoice, approvedReceipts)
      /\ r.amount \in 0..50 /\ r.op = "approve"
  BY <1>1, <1>2, <1>4, PayablesAssumption DEF PayablesInv
<1>6. /\ approvedReceipts' = approvedReceipts \cup {g}
      /\ rating' = [rating EXCEPT ![v] = r.amount]
      /\ payableOvertaken' = IF r.stale THEN payableOvertaken \cup {v} ELSE payableOvertaken \ {v}
      /\ UNCHANGED <<vendorInvoice, paidOut>>
  BY <1>1, <1>2 DEF CommitRating
<1>7. payableReq' = Marked(payableReq, c, Idle, marks)
  BY <1>1, <1>2, <1>3 DEF CommitRating, Overtake, Marked
<1>8. marks \in SUBSET Clients
  BY <1>3
<1>9. /\ payableReq' \in [Clients -> PayRequests] /\ payableReq'[c] = Idle
      /\ \A d \in Clients \ {c} : PayKept(payableReq'[d], payableReq[d], d, marks)
  BY <1>7, <1>8, PayOvertakes
<1>10. /\ approvedReceipts' \subseteq GoodsReceipts
       /\ rating' \in [Vendors -> 0..50] /\ rating'[v] = r.amount
       /\ \A w \in Vendors : w # v => rating'[w] = rating[w]
       /\ payableOvertaken' \subseteq VendorInvoices \cup Vendors
       /\ payableOvertaken \ {v} \subseteq payableOvertaken'
  BY <1>5, <1>6 DEF PayablesInv
<1>11. \A w : w # v => ReceiptsOf(w, approvedReceipts') = ReceiptsOf(w, approvedReceipts)
  BY <1>2, <1>6 DEF ReceiptsOf
<1>12. \A w, h : w # v => ReceiptsOf(w, approvedReceipts' \cup {h}) = ReceiptsOf(w, approvedReceipts \cup {h})
  BY <1>2, <1>6 DEF ReceiptsOf
<1>13. ASSUME NEW d \in Clients PROVE PayRead(payableReq'[d], vendorInvoice', approvedReceipts')
  <2>1. PICK q, x : q = payableReq[d] /\ x = payableReq'[d]
    OBVIOUS
  <2>2. CASE x = Idle
    BY <2>1, <2>2, PayIdle
  <2>3. CASE x # Idle
    <3>1. d # c /\ PayKept(x, q, d, marks) /\ PayRead(q, vendorInvoice, approvedReceipts)
      BY <1>9, <2>1, <2>3 DEF PayablesInv
    <3>2. /\ x \in PayRequests /\ x.op = q.op /\ x.row = q.row /\ x.amount = q.amount
          /\ x.paid = q.paid /\ (d \in marks => x.stale) /\ (d \notin marks => x = q)
      BY <2>3, <3>1 DEF PayKept
    <3>3. x.op = "approve" => x.row # g /\ x.row \notin approvedReceipts
      <4>1. SUFFICES ASSUME q.op = "approve" PROVE q.row # g /\ q.row \notin approvedReceipts
        BY <3>2
      <4>2. q.row \notin approvedReceipts
        BY <3>1, <4>1 DEF PayRead
      <4>3. payableReq[c].op = "approve" /\ payableReq[d].op = "approve"
        BY <1>1, <1>5, <2>1, <4>1
      <4>4. payableReq[d].row # payableReq[c].row
        BY <3>1, <4>3 DEF PayablesInv
      <4>5. QED
        BY <1>1, <1>2, <2>1, <4>2, <4>4
    <3>4. x.op = "approve" => x.row \notin approvedReceipts'
      BY <1>6, <3>3
    <3>5. x.op = "approve" /\ ~ x.stale => x = q /\ ReceiptFacts[x.row].vendor # v
      BY <1>3, <2>1, <3>2
    <3>6. x.op = "approve" /\ ~ x.stale =>
            x.amount = RatingOf(ReceiptsOf(ReceiptFacts[x.row].vendor, approvedReceipts' \cup {x.row}))
      BY <1>12, <3>1, <3>5 DEF PayRead
    <3>7. vendorInvoice' = vendorInvoice /\ (x.op = "pay" /\ ~ x.stale => x = q)
      BY <1>3, <1>6, <2>1, <3>2
    <3>8. QED
      BY <2>1, <3>1, <3>4, <3>6, <3>7 DEF PayRead
  <2>4. QED
    BY <2>2, <2>3
<1>14. ASSUME NEW k \in VendorInvoices
       PROVE  InvoicePaid(vendorInvoice'[k], paidOut'[k]) \/ k \in payableOvertaken'
  <2>1. k # v
    BY <1>5, PayablesAssumption
  <2>2. QED
    BY <1>6, <1>10, <2>1 DEF PayablesInv
<1>15. ASSUME NEW w \in Vendors, ReceiptsOf(w, approvedReceipts') # {}
       PROVE  rating'[w] = RatingOf(ReceiptsOf(w, approvedReceipts')) \/ w \in payableOvertaken'
  <2>1. CASE w # v
    BY <1>10, <1>11, <1>15, <2>1 DEF PayablesInv, RatingIsAverage
  <2>2. CASE w = v /\ r.stale
    BY <1>6, <2>2
  <2>3. CASE w = v /\ ~ r.stale
    BY <1>2, <1>5, <1>6, <1>10, <2>3 DEF PayRead
  <2>4. QED
    BY <2>1, <2>2, <2>3
<1>16. RatingIsAverage'
  BY <1>15 DEF RatingIsAverage
<1>17. \A a, d \in Clients :
           payableReq'[a].op = "approve" /\ payableReq'[d].op = "approve" /\ a # d
             => payableReq'[a].row # payableReq'[d].row
  BY <1>9, PayApart
<1>18. /\ vendorInvoice' \in [VendorInvoices -> [status : {"none", "pending", "partial", "paid"},
                                                net : Nat, paid : Nat]]
       /\ paidOut' \in [VendorInvoices -> Nat]
  BY <1>6 DEF PayablesInv
<1>19. QED
  BY <1>9, <1>10, <1>13, <1>14, <1>16, <1>17, <1>18 DEF PayablesInv

\* Each operation keeps the invariant.
LEMMA PayablesStep == ASSUME PayablesInv, [PayablesNext]_payableVars PROVE PayablesInv'
<1>1. CASE UNCHANGED payableVars
  BY <1>1 DEF payableVars, PayablesInv, RatingIsAverage
<1>2. ASSUME NEW c \in Clients, MatchVendorInvoice(c) PROVE PayablesInv'
  <2>1. PICK i \in VendorInvoices, g \in approvedReceipts, gross \in Amounts :
          payableReq' = [payableReq EXCEPT ![c] =
            [op |-> "invoice", row |-> i, amount |-> gross - RoundPct(gross, TdsRatePct),
             paid |-> 0, stale |-> FALSE]]
    BY <1>2 DEF MatchVendorInvoice
  <2>2. gross - RoundPct(gross, TdsRatePct) \in Nat
    BY NetType
  <2>3. PICK r : r = [op |-> "invoice", row |-> i, amount |-> gross - RoundPct(gross, TdsRatePct),
                      paid |-> 0, stale |-> FALSE]
    OBVIOUS
  <2>4. r \in PayRequests /\ r.op = "invoice" /\ PayRead(r, vendorInvoice, approvedReceipts)
    BY <2>2, <2>3 DEF PayRequests, PayRead
  <2>5. UNCHANGED <<approvedReceipts, rating, vendorInvoice, paidOut, payableOvertaken>>
    BY <1>2 DEF MatchVendorInvoice
  <2>6. QED
    BY <2>1, <2>3, <2>4, <2>5, PayRequestStep
<1>3. ASSUME NEW c \in Clients, ReadVendorInvoice(c) PROVE PayablesInv'
  <2>1. PICK i \in VendorInvoices, amount \in Amounts :
          /\ vendorInvoice[i].status \in {"pending", "partial"}
          /\ vendorInvoice[i].paid + amount <= vendorInvoice[i].net
          /\ payableReq' = [payableReq EXCEPT ![c] =
               [op |-> "pay", row |-> i, amount |-> amount, paid |-> vendorInvoice[i].paid,
                stale |-> FALSE]]
    BY <1>3 DEF ReadVendorInvoice
  <2>2. amount \in Nat \ {0} /\ vendorInvoice[i].paid \in Nat
    BY PayablesAssumption DEF PayablesInv
  <2>3. PICK r : r = [op |-> "pay", row |-> i, amount |-> amount, paid |-> vendorInvoice[i].paid,
                      stale |-> FALSE]
    OBVIOUS
  <2>4. r \in PayRequests /\ r.op = "pay" /\ PayRead(r, vendorInvoice, approvedReceipts)
    BY <2>1, <2>2, <2>3 DEF PayRequests, PayRead
  <2>5. UNCHANGED <<approvedReceipts, rating, vendorInvoice, paidOut, payableOvertaken>>
    BY <1>3 DEF ReadVendorInvoice
  <2>6. QED
    BY <2>1, <2>3, <2>4, <2>5, PayRequestStep
<1>4. ASSUME NEW c \in Clients, ComputeRating(c) PROVE PayablesInv'
  <2>1. PICK g \in GoodsReceipts \ approvedReceipts :
          /\ \A d \in Clients : payableReq[d].row # g
          /\ payableReq' = [payableReq EXCEPT ![c] =
               [op |-> "approve", row |-> g,
                amount |-> RatingOf(ReceiptsOf(ReceiptFacts[g].vendor, approvedReceipts \cup {g})),
                paid |-> 0, stale |-> FALSE]]
    BY <1>4 DEF ComputeRating
  <2>2. PICK R : R = ReceiptsOf(ReceiptFacts[g].vendor, approvedReceipts \cup {g})
    OBVIOUS
  <2>3. R \in SUBSET GoodsReceipts /\ R # {}
    BY <2>2 DEF ReceiptsOf, PayablesInv
  <2>4. RatingOf(R) \in 0..50
    BY <2>3, RatingType
  <2>5. PICK r : r = [op |-> "approve", row |-> g, amount |-> RatingOf(R), paid |-> 0, stale |-> FALSE]
    OBVIOUS
  <2>6. /\ r \in PayRequests /\ r.op = "approve" /\ r.row = g
        /\ PayRead(r, vendorInvoice, approvedReceipts)
    BY <2>2, <2>4, <2>5 DEF PayRequests, PayRead
  <2>7. UNCHANGED <<approvedReceipts, rating, vendorInvoice, paidOut, payableOvertaken>>
    BY <1>4 DEF ComputeRating
  <2>8. payableReq' = [payableReq EXCEPT ![c] = r]
    BY <2>1, <2>2, <2>5
  <2>9. QED
    BY <2>1, <2>6, <2>7, <2>8, PayRequestStep
<1>5. ASSUME NEW c \in Clients, DropPayableRequest(c) PROVE PayablesInv'
  <2>1. /\ payableReq' = [payableReq EXCEPT ![c] = Idle]
        /\ UNCHANGED <<approvedReceipts, rating, vendorInvoice, paidOut, payableOvertaken>>
    BY <1>5 DEF DropPayableRequest
  <2>2. Idle \in PayRequests /\ Idle.op # "approve" /\ PayRead(Idle, vendorInvoice, approvedReceipts)
    BY PayOps, PayIdle
  <2>3. QED
    BY <2>1, <2>2, PayRequestStep
<1>6. ASSUME NEW c \in Clients, CreateVendorInvoice(c) PROVE PayablesInv'
  <2>1. PICK r : r = payableReq[c]
    OBVIOUS
  <2>2. PICK i : i = r.row
    OBVIOUS
  <2>3. r \in [op : {"invoice"}, row : VendorInvoices, amount : Nat, paid : Nat, stale : BOOLEAN]
    BY <1>6, <2>1, PayOps DEF CreateVendorInvoice, PayablesInv
  <2>4. /\ vendorInvoice[i] = NoInvoice
        /\ vendorInvoice' = [vendorInvoice EXCEPT ![i] =
             [status |-> "pending", net |-> r.amount, paid |-> 0]]
        /\ payableReq' = [payableReq EXCEPT ![c] = Idle]
        /\ UNCHANGED <<approvedReceipts, rating, paidOut, payableOvertaken>>
    BY <1>6, <2>1, <2>2 DEF CreateVendorInvoice
  <2>5. i \in VendorInvoices /\ r.amount \in Nat
    BY <2>2, <2>3
  <2>6. /\ vendorInvoice' \in [VendorInvoices -> [status : {"none", "pending", "partial", "paid"},
                                                 net : Nat, paid : Nat]]
        /\ vendorInvoice'[i] = [status |-> "pending", net |-> r.amount, paid |-> 0]
        /\ \A k \in VendorInvoices : k # i => vendorInvoice'[k] = vendorInvoice[k]
    BY <2>4, <2>5 DEF PayablesInv
  <2>7. ASSUME NEW k \in VendorInvoices
        PROVE  InvoicePaid(vendorInvoice'[k], paidOut[k]) \/ k \in payableOvertaken
    <3>1. CASE k # i
      BY <2>6, <3>1 DEF PayablesInv
    <3>2. CASE k = i
      <4>1. CASE InvoicePaid(vendorInvoice[i], paidOut[i])
        <5>1. paidOut[i] = 0
          BY <2>4, <4>1 DEF InvoicePaid, NoInvoice
        <5>2. QED
          BY <2>6, <3>2, <5>1 DEF InvoicePaid
      <4>2. QED
        BY <3>2, <4>1 DEF PayablesInv
    <3>3. QED
      BY <3>1, <3>2
  <2>8. ASSUME NEW d \in Clients PROVE PayRead(payableReq'[d], vendorInvoice', approvedReceipts)
    <3>1. CASE d = c
      BY <2>4, <3>1, PayIdle DEF PayablesInv
    <3>2. CASE d # c
      <4>1. PICK q : q = payableReq[d]
        OBVIOUS
      <4>2. payableReq'[d] = q /\ PayRead(q, vendorInvoice, approvedReceipts) /\ q \in PayRequests
        BY <2>4, <3>2, <4>1 DEF PayablesInv
      <4>3. q.op = "pay" => q.row \in VendorInvoices
        BY <4>2, PayOps
      <4>4. q.op = "pay" /\ ~ q.stale => q.row # i
        BY <2>4, <4>2 DEF PayRead, NoInvoice
      <4>5. q.op = "pay" /\ ~ q.stale => vendorInvoice'[q.row] = vendorInvoice[q.row]
        BY <2>6, <4>3, <4>4
      <4>6. PayRead(q, vendorInvoice', approvedReceipts)
        BY <4>2, <4>5 DEF PayRead
      <4>7. QED
        BY <4>2, <4>6
    <3>3. QED
      BY <3>1, <3>2
  <2>9. payableReq' \in [Clients -> PayRequests]
    BY <2>4, PayOps DEF PayablesInv
  <2>10. \A a, d \in Clients :
           payableReq'[a].op = "approve" /\ payableReq'[d].op = "approve" /\ a # d
             => payableReq'[a].row # payableReq'[d].row
    BY <2>4, PayOps DEF PayablesInv
  <2>11. RatingIsAverage'
    BY <2>4 DEF PayablesInv, RatingIsAverage
  <2>12. QED
    BY <2>4, <2>6, <2>7, <2>8, <2>9, <2>10, <2>11 DEF PayablesInv
<1>7. QED
  BY <1>1, <1>2, <1>3, <1>4, <1>5, <1>6, RecordPaymentStep, CommitRatingStep DEF PayablesNext

\* At the start nothing is invoiced and no receipt is approved.
LEMMA PayablesStart == ASSUME PayablesInit PROVE PayablesInv
<1>1. RatingIsAverage
  BY DEF PayablesInit, RatingIsAverage, ReceiptsOf
<1>2. \A i \in VendorInvoices : InvoicePaid(vendorInvoice[i], paidOut[i])
  BY DEF PayablesInit, InvoicePaid, NoInvoice
<1>3. payableReq \in [Clients -> PayRequests]
  BY PayOps DEF PayablesInit
<1>4. \A c \in Clients : PayRead(payableReq[c], vendorInvoice, approvedReceipts)
  BY PayIdle DEF PayablesInit
<1>5. \A c \in Clients : payableReq[c].op # "approve"
  BY PayOps DEF PayablesInit
<1>6. QED
  BY <1>1, <1>2, <1>3, <1>4, <1>5 DEF PayablesInit, PayablesInv, NoInvoice
=============================================================================
