------------------------------ MODULE Reports ------------------------------
(***************************************************************************)
(* The tools that only read the operational system, and the ports they read *)
(* through (src/operational). A call asks one source, the report of a day   *)
(* four at once, a price one per product and then the engine; the answers   *)
(* come in any order while the system's books go on. Of an answer only this *)
(* matters: how many rows it holds, and whether what the code needs of it   *)
(* is there. The repeats of a GET are those of module Desk.                 *)
(***************************************************************************)
EXTENDS Integers, Sequences, FiniteSets, Functions

CONSTANTS
  MaxRows,    \* bound: rows of a book
  PageSize,   \* rows of a page
  Sku,        \* products
  Listed,     \* the products of RETAIL_CATALOG, all of them in the price list
  MaxLines    \* bound: lines of a cart

ASSUME ReportsAssumption ==
  /\ MaxRows \in Nat /\ PageSize \in Nat \ {0} /\ MaxLines \in Nat \ {0}
  /\ IsFiniteSet(Sku) /\ Listed \subseteq Sku

\* tra_don_hang with a code and without, tra_tien_can_chuyen, video_don_hang,
\* kiem_tra_gia_cod, tra_ho_so_dai_ly, lay_qr_nap_vi, tra_lich_su_vi, bao_cao_ngay,
\* chi_tiet_so_ngay, the three books of the warehouse, tra_gia_le.
Report == {"order", "orders", "payment", "video", "cod", "profile", "qr", "wallet",
           "day", "section", "warehouse", "price"}

Section == {"shipped", "returned", "charges", "refunds"}

Source == {"it"} \cup Section

Verdict == {"OPTIMAL", "VALID_COMBO", "INVALID", "UNREACHABLE", "TOO_COMPLEX"}

\* What a GET comes back with: all there; a row or the object without the field
\* it is known by; no totals; data of another shape; a 404; the code of a wrong
\* date; another AgentApiError, among them an answer without data; the raw error
\* of a body that was cut off.
Outcome == {"full", "nameless", "unsummed", "odd", "absent", "baddate", "fail", "cut"}

VARIABLES
  report,   \* the tool of the call
  stage,    \* where the call is: "gate", "reading", "over"
  due,      \* what it still waits for: sources, or lines of the cart
  got,      \* what the port made of the answer of each source
  cart,     \* a price: the lines the model asks for
  matched,  \* a price: the product taken for each line
  told,     \* what the call told the model
  book,     \* external: the rows of each book
  answered, \* history variable: the answer of each source
  was       \* history variable: the lengths each book had since the call began

reportVars == <<report, stage, due, got, cart, matched, told, book, answered, was>>

Line == [means : Sku, by : {"code", "name"}, pieces : 1..2]
Taken == Sku \cup {"nothing", "missing", "ambiguous"}

\* What a port hands on: a value with its rows and its total, null, an
\* AgentApiError, one about the date, or what is no AgentApiError at all.
Got == [kind : {"none", "value", "null", "raise", "date", "throw"}, rows : 0..MaxRows, total : -1..MaxRows]
Unsaid == -1
Failed == -2
Value(rows, total) == [kind |-> "value", rows |-> rows, total |-> total]
Only(kind) == [kind |-> kind, rows |-> 0, total |-> Unsaid]

Silent == [word |-> "nothing", rows |-> 0, total |-> Unsaid, tally |-> [s \in Section |-> Unsaid],
           balance |-> 0, balanced |-> FALSE, gifts |-> "unsaid", quoted |-> [k \in Sku |-> 0]]

(* ReportsTypeOK: the type invariant; nothing is told before the end, and a *)
(* call that is over waits for nothing.                                    *)
ReportsTypeOK ==
  /\ report \in Report /\ stage \in {"gate", "reading", "over"}
  /\ due \subseteq (IF report = "price" THEN 1..MaxLines ELSE Source)
  /\ got \in [Source -> Got] /\ answered \in [Source -> Outcome \cup {"nothing"}]
  /\ cart \in UNION {[1..n -> Line] : n \in 0..MaxLines} /\ matched \in [1..MaxLines -> Taken]
  /\ told.word \in {"nothing", "refused", "unread", "error", "none", "unclear", "shown",
                    "right", "over", "wrong", "open"}
  /\ told.rows \in 0..MaxRows /\ told.total \in -1..MaxRows
  /\ told.tally \in [Section -> -2..MaxRows] /\ told.gifts \in {"unsaid", "none", "some"}
  /\ book \in [Source -> 0..MaxRows] /\ \A s \in Source : book[s] \in was[s]
  /\ stage = "over" <=> told.word # "nothing"
  /\ stage = "over" => due = {}

ReportsInit ==
  /\ report \in Report /\ stage = "gate" /\ due = {}
  /\ got = [s \in Source |-> Only("none")] /\ answered = [s \in Source |-> "nothing"]
  /\ cart = <<>> /\ matched = [i \in 1..MaxLines |-> "nothing"]
  /\ told = Silent
  /\ book \in [Source -> 0..MaxRows]
  /\ was = [s \in Source |-> {book[s]}]

-----------------------------------------------------------------------------
(* The ports: what becomes of an answer about n rows.                      *)
Shown(n) == IF n > PageSize THEN PageSize ELSE n

\* The rows that are left when some lack the field they are known by.
Nameable(n) == 0..(Shown(n) - 1)

\* AgentApiClient and the readers of the envelope: what no port looks at.
Broken(a) ==
  CASE a = "cut" -> {Only("throw")} [] OTHER -> {Only("raise")}

\* OrderPort.search: without a total, the rows of the page are all there are.
SearchOrders(a, n) ==
  CASE a = "full" -> {Value(Shown(n), n)}
    [] a = "nameless" -> {Value(k, n) : k \in Nameable(n)}
    [] a = "unsummed" -> {Value(Shown(n), Shown(n))}
    [] OTHER -> Broken(a)

\* OrderPort.detail: an order without its code is no order.
OrderDetail(a, n) ==
  CASE a \in {"full", "unsummed"} -> {Value(1, Unsaid)}
    [] a = "absent" -> {Only("null")}
    [] OTHER -> Broken(a)

\* OrderPort.payment: an amount that is missing is an error, not a payment of 0.
OrderPayment(a, n) ==
  CASE a \in {"full", "unsummed"} -> {Value(1, Unsaid)}
    [] a = "absent" -> {Only("null")}
    [] OTHER -> Broken(a)

\* OrderPort.cameraLinks: a 404, and what is no list, are an empty list.
CameraLinks(a, n) ==
  CASE a \in {"full", "unsummed"} -> {Value(n, Unsaid)}
    [] a = "nameless" -> {Value(k, Unsaid) : k \in 0..(n - 1)}
    [] a \in {"absent", "odd"} -> {Value(0, Unsaid)}
    [] OTHER -> Broken(a)

\* OrderPort.codCheck: a POST that reads; no sum or no verdict is an error.
CodCheck(a, n) ==
  CASE a \in {"full", "unsummed"} -> {Value(1, Unsaid)}
    [] a = "absent" -> {Only("null")}
    [] OTHER -> Broken(a)

\* DealerPort.profile: every field may be missing, and what is no object is null.
Profile(a, n) ==
  CASE a \in {"full", "nameless", "unsummed"} -> {Value(1, Unsaid)}
    [] a \in {"absent", "odd"} -> {Only("null")}
    [] OTHER -> Broken(a)

\* DealerPort.depositQr, with the check of its two fields before it is shown.
DepositQr(a, n) ==
  CASE a \in {"full", "unsummed"} -> {Value(1, Unsaid)}
    [] a \in {"absent", "odd", "nameless"} -> {Only("null")}
    [] OTHER -> Broken(a)

\* DealerPort.walletLedger: a row has no field it needs; what is no list is empty.
WalletLedger(a, n) ==
  CASE a \in {"full", "nameless"} -> {Value(Shown(n), n)}
    [] a = "unsummed" -> {Value(Shown(n), Unsaid)}
    [] a = "odd" -> {Value(0, Unsaid), Value(0, n)}
    [] OTHER -> Broken(a)

\* DailyPort and InternalOrdersPort: fetchPage, with the totals of meta_data.
DailyPage(a, n) ==
  CASE a = "full" -> {Value(Shown(n), n)}
    [] a = "nameless" -> {Value(k, n) : k \in Nameable(n)}
    [] a = "unsummed" -> {Value(Shown(n), Unsaid)}
    [] a = "baddate" -> {Only("date")}
    [] OTHER -> Broken(a)

WarehousePage(a, n) == DailyPage(a, n)

Reads(a, n) ==
  CASE report = "order" -> OrderDetail(a, n)    [] report = "orders" -> SearchOrders(a, n)
    [] report = "payment" -> OrderPayment(a, n) [] report = "video" -> CameraLinks(a, n)
    [] report = "cod" -> CodCheck(a, n)         [] report = "profile" -> Profile(a, n)
    [] report = "qr" -> DepositQr(a, n)         [] report = "wallet" -> WalletLedger(a, n)
    [] report = "warehouse" -> WarehousePage(a, n)
    [] report \in {"day", "section"} -> DailyPage(a, n)

\* The answers the system can give about n rows.
Keyed == {"order", "payment", "video", "cod", "profile", "qr"}

Answers(n) ==
  {"odd", "fail", "cut"}
    \cup (IF report \in {"day", "section", "warehouse"} THEN {"baddate"} ELSE {})
    \cup (IF n > 0 THEN {"nameless"} ELSE {})
    \cup (IF n = 0 /\ report \in Keyed THEN {"absent"} ELSE {"full", "unsummed"})

-----------------------------------------------------------------------------
(* The call: its gate, its requests, and what it says.                     *)
Says(what) == stage' = "over" /\ told' = what
Word(w) == [Silent EXCEPT !.word = w]

\* The checks at the head of a run: the port, the dealer of the room or of the
\* speaker (staff for the warehouse, nobody for a price), and the input.
EnterReport ==
  /\ stage = "gate" /\ report # "price"
  /\ \/ Says(Word("refused")) /\ UNCHANGED due
     \/ stage' = "reading" /\ due' = (IF report = "day" THEN Section ELSE {"it"}) /\ UNCHANGED told
  /\ UNCHANGED <<report, got, cart, matched, book, answered>>
  /\ was' = [s \in Source |-> {book[s]}]

AnswerArrives(s) ==
  /\ report # "price" /\ s \in due
  /\ \E a \in Answers(book[s]) :
       /\ \E g \in Reads(a, book[s]) : got' = [got EXCEPT ![s] = g]
       /\ answered' = [answered EXCEPT ![s] = a]
  /\ due' = due \ {s}
  /\ UNCHANGED <<report, stage, cart, matched, told, book, was>>

\* What every tool says of a read that failed.
TellFailure(g) ==
  CASE g.kind = "raise" -> Word("unread") [] g.kind = "throw" -> Word("error")
    [] g.kind = "date" -> Word("refused")

\* A result that is there or is not: an order, a payment, a profile, a QR code.
TellOne(g) ==
  CASE g.kind = "null" -> Word("none") [] g.kind = "value" -> Word("shown") [] OTHER -> TellFailure(g)

\* A page: no row is none, and the total goes with it.
TellPage(g) ==
  CASE g.kind = "value" /\ g.rows = 0 -> [Word("none") EXCEPT !.total = g.total]
    [] g.kind = "value" /\ g.rows > 0 ->
         [Word("shown") EXCEPT !.rows = g.rows, !.total = g.total]
    [] OTHER -> TellFailure(g)

\* verdictLines: a cart that cannot be judged is not wrong.
CodWord(v) ==
  CASE v = "OPTIMAL" -> "right" [] v = "VALID_COMBO" -> "over" [] v = "INVALID" -> "wrong" [] OTHER -> "open"

\* giftLines: of gifts only when the engine took the cart apart; a field that
\* cannot be read is then no gift.
GiftsOf(v, gifts) ==
  IF v \notin {"OPTIMAL", "VALID_COMBO"} THEN "unsaid" ELSE IF gifts = "some" THEN "some" ELSE "none"

TellCod(g) ==
  IF g.kind = "value"
  THEN {[Word(CodWord(v)) EXCEPT !.gifts = GiftsOf(v, gifts)] :
          v \in Verdict \cup {"other"}, gifts \in {"some", "none", "unread"}}
  ELSE {TellOne(g)}

\* The tools: what each makes of what its port hands on.
TellOrder(g) == {TellOne(g)}
TellPayment(g) == {TellOne(g)}
TellProfile(g) == {TellOne(g)}
TellQr(g) == {TellOne(g)}
TellVideo(g) == {TellPage(g)}
TellWallet(g) == {TellPage(g)}
TellSection(g) == {TellPage(g)}
TellWarehouse(g) == {TellPage(g)}

\* A search that finds nothing says nothing of a total.
TellOrders(g) ==
  {IF g.kind = "value" /\ g.rows = 0 THEN Word("none") ELSE TellPage(g)}

TellSingle ==
  /\ stage = "reading" /\ due = {}
  /\ LET g == got["it"] IN \E what \in
       CASE report = "order" -> TellOrder(g)      [] report = "orders" -> TellOrders(g)
         [] report = "payment" -> TellPayment(g)  [] report = "video" -> TellVideo(g)
         [] report = "cod" -> TellCod(g)          [] report = "profile" -> TellProfile(g)
         [] report = "qr" -> TellQr(g)            [] report = "wallet" -> TellWallet(g)
         [] report = "section" -> TellSection(g)  [] report = "warehouse" -> TellWarehouse(g)
         [] OTHER -> {} :
       Says(what)
  /\ UNCHANGED <<report, due, got, cart, matched, book, answered, was>>

-----------------------------------------------------------------------------
(* bao_cao_ngay: four sections at once, all of them settled.               *)
\* firstFatal: what fails the whole report.
Fatal ==
  LET kinds == {got[s].kind : s \in Section}
  IN  IF "throw" \in kinds THEN {Word("error")}
      ELSE IF "date" \in kinds THEN {Word("refused")}
      ELSE IF kinds = {"raise"} THEN {Word("unread")}
      ELSE {}

\* countOf, amountOf: a section that failed, or has no total, is no 0.
TallyOf(s) == IF got[s].kind = "value" THEN got[s].total ELSE Failed

\* renderReport: the balance is left out unless both its sides are there.
DayReport ==
  LET tally == [s \in Section |-> TallyOf(s)]
      both == tally["charges"] >= 0 /\ tally["refunds"] >= 0
  IN  [Word("shown") EXCEPT
        !.tally = tally, !.balanced = both,
        !.balance = IF both THEN tally["charges"] - tally["refunds"] ELSE 0]

TellDay ==
  /\ stage = "reading" /\ report = "day" /\ due = {}
  /\ \E what \in (IF Fatal # {} THEN Fatal ELSE {DayReport}) : Says(what)
  /\ UNCHANGED <<report, due, got, cart, matched, book, answered, was>>

-----------------------------------------------------------------------------
(* tra_gia_le: the products of the lines, then the engine.                 *)
EnterPrice ==
  /\ stage = "gate" /\ report = "price"
  /\ \/ Says(Word("refused")) /\ UNCHANGED <<due, cart, matched>>
     \/ \E n \in 1..MaxLines : \E lines \in [1..n -> Line] :
          LET known(i) == i <= n /\ lines[i].by = "code" /\ lines[i].means \in Listed
          IN  /\ cart' = lines
              /\ matched' = [i \in 1..MaxLines |-> IF known(i) THEN lines[i].means ELSE "nothing"]
              /\ due' = {i \in 1..n : ~known(i)}
              /\ stage' = "reading" /\ UNCHANGED told
  /\ UNCHANGED <<report, got, book, answered, was>>

\* matchLine: the exact name or code, else the only product there is.
Matched(line, products, exact) ==
  IF exact /\ line.means \in products THEN line.means
  ELSE IF Cardinality(products) = 1 THEN CHOOSE k \in products : TRUE
  ELSE IF products = {} THEN "missing" ELSE "ambiguous"

\* searchProducts for one line. The first that fails ends the whole call.
ProductsArrive(i) ==
  /\ report = "price" /\ stage = "reading" /\ i \in due
  /\ \/ /\ \E products \in SUBSET Sku, exact \in BOOLEAN :
             matched' = [matched EXCEPT ![i] = Matched(cart[i], products, exact)]
        /\ due' = due \ {i} /\ UNCHANGED <<stage, told>>
     \/ \E w \in {"unread", "error"} : Says(Word(w)) /\ due' = {} /\ UNCHANGED matched
  /\ UNCHANGED <<report, got, cart, book, answered, was>>

\* toCartLines: two names of one product are one line of the cart.
Bought == [i \in DOMAIN cart |-> cart[i].pieces]
PiecesOf(k) == SumFunctionOnSet(Bought, {i \in DOMAIN cart : matched[i] = k})
CartLines == [k \in Sku |-> PiecesOf(k)]

\* quoteAtRetailPrice: no sum when one product has no price.
AtRetailPrice == \A k \in Sku : CartLines[k] > 0 => k \in Listed

\* RetailPricingPort.recommend: no quote where no programme beats the price list.
Recommended == {"quote", "null", "unread", "error"}

\* renderUnresolved; else what the engine says, or the price list.
TellPrice ==
  /\ report = "price" /\ stage = "reading" /\ due = {}
  /\ LET priced == [Word("shown") EXCEPT !.quoted = CartLines]
     IN  IF \E i \in DOMAIN cart : matched[i] \notin Sku THEN Says(Word("unclear"))
         ELSE \E r \in Recommended :
                Says(CASE r = "quote" -> priced
                       [] r = "null" -> IF AtRetailPrice THEN priced ELSE Word("none")
                       [] OTHER -> Word(r))
  /\ UNCHANGED <<report, due, got, cart, matched, book, answered, was>>

-----------------------------------------------------------------------------
\* Orders are shipped, returned, paid for and charged while a call reads.
BookGoesOn ==
  /\ stage = "reading" /\ report # "price"
  /\ \E s \in due : book[s] < MaxRows /\ book' = [book EXCEPT ![s] = @ + 1]
                    /\ was' = [was EXCEPT ![s] = @ \cup {book'[s]}]
  /\ UNCHANGED <<report, stage, due, got, cart, matched, told, answered>>

ReportsNext ==
  \/ EnterReport \/ (\E s \in Source : AnswerArrives(s)) \/ TellSingle \/ TellDay
  \/ EnterPrice \/ (\E i \in 1..MaxLines : ProductsArrive(i)) \/ TellPrice
  \/ BookGoesOn

ReportsSpec == ReportsInit /\ [][ReportsNext]_reportVars

-----------------------------------------------------------------------------
(* What is known to be told as "none" although it is not: rows that nobody  *)
(* can name, and, in the ports that do not tell a wrong shape from an empty *)
(* answer (profile-api.ts, cameraLinks), data that is no list or no object. *)
ToldAsNone ==
  CASE report \in {"profile", "wallet"} -> {"odd"}
    [] report \in {"video", "qr"} -> {"odd", "nameless"}
    [] report \in {"orders", "section", "warehouse"} -> {"nameless"}
    [] OTHER -> {}

(* ReportsAreTrue: what could not be read is never told as nothing. "None"  *)
(* is told of a book that was empty while the call ran, or with the total   *)
(* that says otherwise, or in the cases above; totals are lengths the book  *)
(* had; a day's report tells no number for a section that failed or has     *)
(* none, and a balance only of two numbers it read; gifts are denied only   *)
(* of a cart the engine took apart; a price is for every line of the cart,  *)
(* in full, and for products that were found.                              *)
ReportsAreTrue ==
  /\ told.word = "none" /\ report # "price" =>
       0 \in was["it"] \/ told.total > 0 \/ answered["it"] \in ToldAsNone
  /\ told.word = "shown" /\ report \notin {"day", "price"} =>
       /\ \E n \in was["it"] : told.rows <= n
       /\ told.total \in was["it"] \cup {Unsaid} \/ answered["it"] = "unsummed"
  /\ report = "day" /\ told.word = "shown" =>
       /\ \A s \in Section : told.tally[s] >= 0 => told.tally[s] \in was[s]
       /\ \E s \in Section : answered[s] \in {"full", "nameless", "unsummed"}
       /\ told.balanced => \A s \in {"charges", "refunds"} : answered[s] \in {"full", "nameless"}
  /\ told.gifts = "none" => told.word \in {"right", "over"}
  /\ report = "price" /\ told.word = "shown" =>
       /\ SumFunction(told.quoted) = SumFunction(Bought)
       /\ \A i \in DOMAIN cart : cart[i].by = "code" /\ cart[i].means \in Listed
                                   => told.quoted[cart[i].means] >= cart[i].pieces
=============================================================================
