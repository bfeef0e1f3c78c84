------------------------------ MODULE Documents ------------------------------
(***************************************************************************)
(* The arithmetic of an invoice and of a VAT return, as operators: the     *)
(* lines and totals of an FA(3) document (lib/ksef-invoice-builder.ts),    *)
(* the rows, control sums and declaration of a JPK_V7M file                *)
(* (lib/jpk-generator.ts) and the entries of an Optima file                *)
(* (lib/optima-mapper.ts).  Amounts are whole grosze and exact: the binary *)
(* fractions of the code are not modelled, its rounding is.  A price is in *)
(* tenths of a grosz.  Names, addresses, dates and GTU codes are left out. *)
(***************************************************************************)
EXTENDS Integers, Sequences, FiniteSets, Functions

CONSTANTS None,    \* NULL in a column
          Rates    \* the rates of a line

VatRateCode == {"23", "8", "5", "0", "0-wdt", "0-export", "zw"}
ASSUME RatesAssumption == "23" \in Rates /\ Rates \subseteq VatRateCode /\ None \notin Int \cup VatRateCode

\* None of the others carries tax.
TaxedRates == {"23", "8", "5"}
Percent == [rate \in VatRateCode |-> CASE rate \notin TaxedRates -> 0
                                     [] rate = "23" -> 23 [] rate = "8" -> 8 [] rate = "5" -> 5]

\* Math.round(n / d): to the nearest, halves up.
Rounded(n, d) == (2 * n + d) \div (2 * d)

-----------------------------------------------------------------------------
(* An FA(3) invoice                                                        *)

NetOf(line) == Rounded(line.price * line.qty, 10)
VatOf(line) == Rounded(NetOf(line) * Percent[line.rate], 100)
GrossOf(line) == NetOf(line) + VatOf(line)

Amounts(n, v) == [net |-> n, vat |-> v]
Less(a, b) == Amounts(a.net - b.net, a.vat - b.vat)
Total(amounts) == Amounts(SumFunction([x \in DOMAIN amounts |-> amounts[x].net]),
                          SumFunction([x \in DOMAIN amounts |-> amounts[x].vat]))
RatesOf(lines) == {lines[i].rate : i \in DOMAIN lines}

AtRate(lines, rate) ==
    LET here == {i \in DOMAIN lines : lines[i].rate = rate}
    IN Amounts(SumFunction([i \in here |-> NetOf(lines[i])]),
               SumFunction([i \in here |-> VatOf(lines[i])]))

\* Mutant: a rate that only the corrected invoice has is left out.
VatGroupsOfNewRates(lines, corrected) ==
    [rate \in RatesOf(lines) |-> Less(AtRate(lines, rate), AtRate(corrected, rate))]

\* P_13_x and P_14_x.  A correction gives the difference to the corrected lines,
\* at every rate either has; an ordinary invoice corrects no lines.
VatGroups(lines, corrected) ==
    [rate \in RatesOf(lines) \cup RatesOf(corrected) |->
        Less(AtRate(lines, rate), AtRate(corrected, rate))]

GrossTotal(lines) == SumFunction([i \in DOMAIN lines |-> GrossOf(lines[i])])

\* What is stored of an invoice: the totals its XML reports.
ReportedTotals(lines, corrected) ==
    LET total == Total(VatGroups(lines, corrected))
    IN [net |-> total.net, vat |-> total.vat, gross |-> GrossTotal(lines) - GrossTotal(corrected)]

\* VAT on a margin is inside it; a negative margin carries none.
SplitMargin(gross, rate) ==
    LET base == Rounded(100 * gross, 100 + Percent[rate])
    IN IF gross < 0 THEN Amounts(gross, 0) ELSE Amounts(base, gross - base)

-----------------------------------------------------------------------------
(* A JPK_V7M file over books, a function from identifiers to invoices.     *)
(* Amounts are kept by rate, which stands for its pair of K fields.        *)

Zero == Amounts(0, 0)
Plus(a, b) == Amounts(a.net + b.net, a.vat + b.vat)

CorrectedLines(books, i) ==
    IF books[i].corrects = None THEN <<>> ELSE books[books[i].corrects].lines

Sold23(inv, rate) == IF rate = "23" THEN Amounts(inv.net, inv.vat) ELSE Zero

\* Mutant: a correction is entered in full.
ContributionInFull(books, i, rate) ==
    IF books[i].lines = <<>> THEN Sold23(books[i], rate) ELSE AtRate(books[i].lines, rate)

\* An invoice without lines, a copy from KSeF, counts as sold at 23%.
Contribution(books, i, rate) ==
    IF books[i].lines = <<>> THEN Sold23(books[i], rate)
    ELSE Less(AtRate(books[i].lines, rate), AtRate(CorrectedLines(books, i), rate))

IsMargin(inv) == inv.procedure # None

\* What generateJpkV7M() refuses a file for, of one invoice.
Problem(inv) ==
    \/ ~inv.numbered /\ inv.marker \notin {"OFF", "BFK", "DI"}
    \/ /\ inv.direction = "sales" /\ IsMargin(inv)
       /\ \/ \E field \in DOMAIN inv.margin : inv.margin[field] = None
          \/ inv.margin.taxable > inv.margin.gross
    \/ inv.direction = "sales" /\ ~IsMargin(inv) /\ inv.margin.gross # None

Sales(books) == {i \in DOMAIN books : books[i].direction = "sales"}
Purchases(books) == DOMAIN books \ Sales(books)
BySum(books) == {i \in Sales(books) : IsMargin(books[i]) /\ books[i].margin.method = "sum"}

MarginAmounts(inv, rate) ==
    IF inv.margin.method = "individual" /\ inv.margin.rate = rate
    THEN SplitMargin(inv.margin.taxable, rate) ELSE Zero

\* The K fields printed in an invoice's row: of a margin invoice those of its
\* margin, or none when the margins of the period are summed.
RowAmounts(books, i) ==
    [rate \in Rates |-> IF IsMargin(books[i]) THEN MarginAmounts(books[i], rate)
                       ELSE Contribution(books, i, rate)]

\* WEW rows: one for each procedure and rate whose margins are summed.  The
\* invoice to a fiscal receipt (FP) is not left out here.
WewKeys(books) == {<<books[i].procedure, books[i].margin.rate>> : i \in BySum(books)}
SummedMargin(books, key) ==
    LET of == {i \in BySum(books) : <<books[i].procedure, books[i].margin.rate>> = key}
    IN SumFunction([i \in of |-> books[i].margin.taxable])
WewAmounts(books, key, rate) ==
    IF key[2] = rate THEN SplitMargin(SummedMargin(books, key), rate) ELSE Zero

\* What the margin of an invoice changes in the sums: its lines, counted like
\* those of any invoice, are taken out again.
MarginChange(books, i, rate, margin) == Less(margin, Contribution(books, i, rate))

\* The running sums salesTotals.  The row of an FP adds nothing.
Counted(books) == {i \in Sales(books) : books[i].docType # "FP"}
CountedMargins(books) == {i \in Counted(books) : IsMargin(books[i])}
SumUp(books, rate, margins, keys) ==
    Plus(Total([i \in Counted(books) |-> Contribution(books, i, rate)]),
         Plus(Total([i \in CountedMargins(books) |-> MarginChange(books, i, rate, margins[i])]),
              Total([key \in keys |-> WewAmounts(books, key, rate)])))

SalesTotals(books) ==
    [rate \in Rates |->
        SumUp(books, rate, [i \in CountedMargins(books) |-> MarginAmounts(books[i], rate)], WewKeys(books))]

\* Mutant: a loss lowers the tax declared.
DeclaredWithLosses(books) == SalesTotals(books)

\* declarationSalesTotals: a negative margin stays in the register, and must not
\* lower the declaration.
Declared(books) ==
    LET Profit(inv, rate) == IF inv.margin.taxable < 0 THEN Zero ELSE MarginAmounts(inv, rate)
    IN [rate \in Rates |->
           SumUp(books, rate, [i \in CountedMargins(books) |-> Profit(books[i], rate)],
                 {key \in WewKeys(books) : SummedMargin(books, key) >= 0})]

VatTotal(amounts) == SumFunction([rate \in Rates |-> amounts[rate].vat])

\* A purchase is entered in K_40 and K_41 when it is a fixed asset, which no
\* category of costs is, and in K_42 and K_43 otherwise.
MapVatColumns(category) == "K_42"
PurchaseFields == {"K_40", "K_42"}

\* The running sums purchaseTotals.
PurchaseTotals(books) ==
    [field \in PurchaseFields |->
        Total([i \in {j \in Purchases(books) : MapVatColumns(books[j].category) = field} |->
                  Amounts(books[i].net, books[i].vat)])]

VatDeducted(totals) == SumFunction([field \in PurchaseFields |-> totals[field].vat])

InZloty(amounts) == Amounts(Rounded(amounts.net, 100), Rounded(amounts.vat, 100))

\* The P fields, each rounded to whole zloty on its own.
Declaration(books) ==
    LET declared == Declared(books)
        sold   == [rate \in Rates |-> InZloty(declared[rate])]
        totals == PurchaseTotals(books)
        bought == [field \in PurchaseFields |-> InZloty(totals[field])]
        due    == VatTotal(sold)
        deduct == VatDeducted(bought)
    IN [sold |-> sold, bought |-> bought, P_38 |-> due, P_48 |-> deduct,
        P_51 |-> IF due > deduct THEN due - deduct ELSE 0,
        P_53 |-> IF deduct > due THEN deduct - due ELSE 0]

Row(of, procedure, counts, sums) ==
    [of |-> of, procedure |-> procedure, counts |-> counts, sums |-> sums]

CanGenerate(books) == \A i \in DOMAIN books : ~Problem(books[i])
JpkV7M(books) ==
    [sales     |-> {Row(i, books[i].procedure, i \in Counted(books), RowAmounts(books, i)) : i \in Sales(books)},
     wew       |-> {Row(None, key[1], TRUE, [rate \in Rates |-> WewAmounts(books, key, rate)]) : key \in WewKeys(books)},
     purchases |-> {[of |-> i, field |-> MapVatColumns(books[i].category),
                     sums |-> Amounts(books[i].net, books[i].vat)] : i \in Purchases(books)},
     PodatekNalezny   |-> VatTotal(SalesTotals(books)),
     PodatekNaliczony |-> VatDeducted(PurchaseTotals(books)),
     declaration      |-> Declaration(books)]

-----------------------------------------------------------------------------
(* Ledger files                                                            *)

OptimaRates == {"23", "8", "5", "0"}

\* The stored lines have no net amount of their own: deriveRateLines() reads 0.
OptimaLine(rate) == Amounts(0, 0)

\* vat / net is within 0.005 of the rate.
RatioFits(inv, rate) ==
    LET off == 1000 * inv.vat - 10 * Percent[rate] * inv.net
        tolerance == 5 * inv.net
    IN IF inv.net > 0 THEN off \in -tolerance..tolerance ELSE off \in tolerance..-tolerance

RatesFitting(inv) ==
    IF inv.net # 0 THEN {rate \in OptimaRates : RatioFits(inv, rate)}
    ELSE IF inv.vat = 0 THEN {"0"} ELSE {}

CanExport(inv) ==
    IF inv.lines # <<>> THEN RatesOf(inv.lines) \subseteq OptimaRates \cup {"zw"}
    ELSE RatesFitting(inv) # {}

OptimaEntry(inv) ==
    IF inv.lines # <<>> THEN [rate \in RatesOf(inv.lines) |-> OptimaLine(rate)]
    ELSE [rate \in {CHOOSE r \in OptimaRates : r \in RatesFitting(inv)} |-> Amounts(inv.net, inv.vat)]

\* Symfonia, Insert and CSV files hold the stored totals, at no rate.
SymfoniaEntry(inv) == [rate \in {None} |-> Amounts(inv.net, inv.vat)]
InsertEntry(inv) == [rate \in {None} |-> Amounts(inv.net, inv.vat)]
CsvEntry(inv) == [rate \in {None} |-> Amounts(inv.net, inv.vat)]
=============================================================================
