----------------------------- MODULE DocNumber ------------------------------
(***************************************************************************)
(* sys.next_doc_number(p_prefix) and the transactions that call it.        *)
(*                                                                         *)
(* A service (OrdersService.create, PurchaseOrdersService.create, ...)     *)
(* opens a transaction, asks for the next number of its prefix, inserts    *)
(* the document under that number and commits.  The function takes the row *)
(* lock of the prefix with SELECT ... FOR UPDATE, so a second caller of    *)
(* the same prefix waits until the first one commits or rolls back, and    *)
(* then reads the row as the first one left it (READ COMMITTED).           *)
(***************************************************************************)
EXTENDS Naturals

CONSTANTS
    Clients,     \* concurrent requests, each in its own transaction
    Prefixes,    \* rows of sys.document_sequences
    NoClient,    \* owner of a free row lock
    PadBase,     \* digits are 0 .. PadBase - 1 (10 in the database)
    PadLength,   \* sys.document_sequences.pad_length (6 in the database)
    MaxNumber,   \* bound: no request starts once a counter is here
    Years        \* calendar years the run goes through, 1 .. n

ASSUME ClientAssumption == NoClient \notin Clients
ASSUME PadAssumption == PadBase \in Nat /\ PadBase > 1 /\ PadLength \in Nat
ASSUME BoundAssumption == MaxNumber \in Nat
ASSUME YearAssumption == Years \subseteq Nat /\ 1 \in Years

VARIABLES
    lastNumber,  \* committed last_number of each prefix
    rowLock,     \* the transaction that holds the row of each prefix
    tx,          \* the transaction of each request
    documents,   \* committed documents, as [prefix, year, number]
    year         \* CURRENT_DATE's year

vars == <<lastNumber, rowLock, tx, documents, year>>

(***************************************************************************)
(* LPAD(n::TEXT, pad_length, '0') pads a short number, but PostgreSQL's    *)
(* LPAD also cuts a number longer than pad_length down to its leftmost     *)
(* pad_length digits.                                                      *)
(***************************************************************************)
PadLimit == PadBase ^ PadLength

LeftmostDigits[n \in Nat] ==
    IF n < PadLimit THEN n ELSE LeftmostDigits[n \div PadBase]

LPad(n) == IF n < PadLimit THEN n ELSE LeftmostDigits[n]

\* PREFIX-YEAR-NUMBER of a transaction or a document.
Text(d) == <<d.prefix, d.year, LPad(d.number)>>

NoTx == [state |-> "idle"]

\* CURRENT_DATE is the date on which the transaction started.
Waiting(p) == [state |-> "waiting", prefix |-> p, year |-> year]

Numbered(t, n) ==
    [state |-> "numbered", prefix |-> t.prefix, year |-> t.year, number |-> n]

Holds(c) == tx[c].state = "numbered"

-----------------------------------------------------------------------------
Init ==
    /\ lastNumber = [p \in Prefixes |-> 0]
    /\ rowLock = [p \in Prefixes |-> NoClient]
    /\ tx = [c \in Clients |-> NoTx]
    /\ documents = {}
    /\ year = 1

\* $transaction(async tx => ...) starts and calls docNumber.generate(tx, p).
Begin(c, p) ==
    /\ tx[c] = NoTx
    /\ lastNumber[p] < MaxNumber
    /\ tx' = [tx EXCEPT ![c] = Waiting(p)]
    /\ UNCHANGED <<lastNumber, rowLock, documents, year>>

\* Mutant: SELECT without FOR UPDATE.
NextDocNumberUnlocked(c) ==
    /\ tx[c].state = "waiting"
    /\ rowLock' = [rowLock EXCEPT ![tx[c].prefix] = c]
    /\ tx' = [tx EXCEPT ![c] = Numbered(tx[c], lastNumber[tx[c].prefix] + 1)]
    /\ UNCHANGED <<lastNumber, documents, year>>

\* SELECT ... FOR UPDATE returns, the function increments and formats.  The
\* UPDATE stays private to the transaction: other callers wait for the lock.
NextDocNumber(c) ==
    /\ tx[c].state = "waiting"
    /\ LET p == tx[c].prefix
           n == lastNumber[p] + 1
       IN  /\ rowLock[p] = NoClient
           /\ rowLock' = [rowLock EXCEPT ![p] = c]
           /\ tx' = [tx EXCEPT ![c] = Numbered(tx[c], n)]
    /\ UNCHANGED <<lastNumber, documents, year>>

\* The document's number column is UNIQUE.
UniqueNumber(c) == \A d \in documents : Text(d) # Text(tx[c])

\* Mutant: the UPDATE of last_number is missing.
CommitWithoutCounter(c) ==
    /\ Holds(c)
    /\ UniqueNumber(c)
    /\ documents' = documents \cup
           {[prefix |-> tx[c].prefix, year |-> tx[c].year,
             number |-> tx[c].number]}
    /\ rowLock' = [rowLock EXCEPT ![tx[c].prefix] = NoClient]
    /\ tx' = [tx EXCEPT ![c] = NoTx]
    /\ UNCHANGED <<lastNumber, year>>

\* Mutant: the document is inserted without its number's year.
CommitWithoutYear(c) ==
    /\ Holds(c)
    /\ lastNumber' = [lastNumber EXCEPT ![tx[c].prefix] = tx[c].number]
    /\ documents' = documents \cup
           {[prefix |-> tx[c].prefix, number |-> tx[c].number]}
    /\ rowLock' = [rowLock EXCEPT ![tx[c].prefix] = NoClient]
    /\ tx' = [tx EXCEPT ![c] = NoTx]
    /\ UNCHANGED year

\* The INSERT of the document succeeds and the transaction commits.
Commit(c) ==
    /\ Holds(c)
    /\ UniqueNumber(c)
    /\ lastNumber' = [lastNumber EXCEPT ![tx[c].prefix] = tx[c].number]
    /\ documents' = documents \cup
           {[prefix |-> tx[c].prefix, year |-> tx[c].year,
             number |-> tx[c].number]}
    /\ rowLock' = [rowLock EXCEPT ![tx[c].prefix] = NoClient]
    /\ tx' = [tx EXCEPT ![c] = NoTx]
    /\ UNCHANGED year

\* Mutant: an autonomous counter (nextval), which a rollback does not undo.
RollbackKeepsNumber(c) ==
    /\ Holds(c)
    /\ lastNumber' = [lastNumber EXCEPT ![tx[c].prefix] = tx[c].number]
    /\ rowLock' = [rowLock EXCEPT ![tx[c].prefix] = NoClient]
    /\ tx' = [tx EXCEPT ![c] = NoTx]
    /\ UNCHANGED <<documents, year>>

\* Mutant: a lock outside the transaction, which a failure leaves behind.
RollbackKeepsLock(c) ==
    /\ Holds(c)
    /\ tx' = [tx EXCEPT ![c] = NoTx]
    /\ UNCHANGED <<lastNumber, rowLock, documents, year>>

\* The INSERT fails (the UNIQUE number included), the handler throws, or the
\* process dies: the row goes back to the committed value, the lock is freed.
Rollback(c) ==
    /\ Holds(c)
    /\ rowLock' = [rowLock EXCEPT ![tx[c].prefix] = NoClient]
    /\ tx' = [tx EXCEPT ![c] = NoTx]
    /\ UNCHANGED <<lastNumber, documents, year>>

NewYear ==
    /\ year + 1 \in Years
    /\ year' = year + 1
    /\ UNCHANGED <<lastNumber, rowLock, tx, documents>>

Next ==
    \/ NewYear
    \/ \E c \in Clients :
        \/ \E p \in Prefixes : Begin(c, p)
        \/ NextDocNumber(c)
        \/ Commit(c)
        \/ Rollback(c)

Spec == Init /\ [][Next]_vars

\* PostgreSQL queues the waiters of a row lock, so a waiter is not overtaken
\* for ever; a transaction ends (Prisma cuts it after its timeout).
Fairness ==
    \A c \in Clients :
        /\ SF_vars(NextDocNumber(c))
        /\ WF_vars(Commit(c) \/ Rollback(c))

FairSpec == Spec /\ Fairness

-----------------------------------------------------------------------------
TxState ==
    {NoTx}
    \cup [state : {"waiting"}, prefix : Prefixes, year : Nat]
    \cup [state : {"numbered"}, prefix : Prefixes, year : Nat, number : Nat]

Document == [prefix : Prefixes, year : Nat, number : Nat]

\* Every counter row, lock, transaction and document has the shape the
\* schema and the function give it.
TypeOK ==
    /\ lastNumber \in [Prefixes -> Nat]
    /\ rowLock \in [Prefixes -> Clients \cup {NoClient}]
    /\ tx \in [Clients -> TxState]
    /\ documents \subseteq Document
    /\ year \in Nat

\* A transaction that was handed a number still owns the row lock of its
\* prefix, and the number is the successor of the committed counter: the
\* serialisation SELECT ... FOR UPDATE is there for ("callers for the same
\* prefix must serialise").  Two open transactions never hold one number.
HeldNumberIsNext ==
    \A c \in Clients : Holds(c) =>
        /\ rowLock[tx[c].prefix] = c
        /\ tx[c].number = lastNumber[tx[c].prefix] + 1

\* The committed documents of a prefix carry exactly the numbers
\* 1 .. last_number, whatever rolled back between.  A later migration says so
\* ("No gaps from aborted transactions"); the one that has the function says
\* that a rollback may cause gaps, which the row lock, held to the end of the
\* transaction, rules out.
Gapless ==
    \A p \in Prefixes :
        {d.number : d \in {e \in documents : e.prefix = p}} = 1..lastNumber[p]

\* "No duplicates for the same prefix": the text handed to a transaction is
\* not the text of a committed document, so its INSERT cannot hit the UNIQUE
\* constraint.
NoDuplicateText == \A c \in Clients : Holds(c) => UniqueNumber(c)

\* A request that waits for the row of its prefix gets a number.
EveryCallerServed ==
    \A c \in Clients : tx[c].state = "waiting" ~> Holds(c)

\* The locked, formatted, rolled-back implementation is the atomic counter.
Counter == INSTANCE DocCounter WITH
    documents <- {[prefix |-> d.prefix, number |-> d.number] : d \in documents}

ImplementsCounter == Counter!Spec

=============================================================================
