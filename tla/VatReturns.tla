----------------------------- MODULE VatReturns ------------------------------
(***************************************************************************)
(* One client's invoices of one period and the JPK_V7M files made of them: *)
(* invoices are issued and corrected (api/invoices/create), copied in from *)
(* KSeF and classified (api/clients/[id]/sync), marked for the register    *)
(* (api/invoices/[id]/jpk-markers), read into a file by the operator       *)
(* (api/jpk/generate) or the monthly job (lib/jobs/jpk-preparation.ts),    *)
(* and exported to a ledger (api/export, api/export/optima).  The client's *)
(* own data, which a file needs too, are entered and erased meanwhile      *)
(* (api/clients/[id]).                                                     *)
(* Sending an invoice is module IssuedInvoices: here KSeF just answers.    *)
(* Sending the stored file to the test gateway is module JpkSubmission.    *)
(***************************************************************************)
EXTENDS Documents

CONSTANTS LineLists,     \* the lines an operator may enter
          Procedures,    \* MR_T and MR_UZ
          Margins,       \* the margin columns of a VAT-margin invoice
          Copies,        \* [direction, net, vat] of an invoice copied from KSeF
          Categories,    \* of costs
          Systems,       \* ledger formats: optima, symfonia, insert, csv
          Patches,       \* bodies of PATCH jpk-markers
          MaxInvoices, MaxRequests

Line == [price : Int, qty : Int, rate : Rates]

Given(body, key, old) == IF key \in DOMAIN body THEN body[key] ELSE old

ASSUME ReturnsAssumption ==
    /\ LineLists \subseteq Seq(Line)
    /\ Margins \subseteq [gross : Int, taxable : Int, rate : Rates, method : {"individual", "sum"}]
    /\ Copies \subseteq [direction : {"sales", "purchase"}, net : Int, vat : Int]
    /\ Systems \subseteq {"optima", "symfonia", "insert", "csv"}
    /\ \A body \in Patches, key \in {"gross", "taxable"} : Given(body, key, None) \in Int \cup {None}
    /\ {MaxInvoices, MaxRequests} \subseteq Nat /\ None \notin {"VAT", "VAT-margin", "KOR"}

VARIABLES invoices,      \* the rows, in the order of their ids
          fileable,      \* the client's row has all that a file names of a taxpayer
          generations,   \* files generated and not stored yet, with their steps
          preparation,   \* jpk_preparations.export_data of the period, or None
          edits,         \* PATCH requests that have read their invoice
          ledger,        \* the last ledger file, or None
          requests       \* how many were made, for the bound
returnsVars == <<invoices, fileable, generations, preparation, edits, ledger, requests>>

NoMargin == [gross |-> None, taxable |-> None, rate |-> None, method |-> None]
Ids == DOMAIN invoices

ReturnsInit ==
    /\ invoices = <<>> /\ fileable = TRUE /\ generations = {} /\ preparation = None
    /\ edits = {} /\ ledger = None
    /\ requests = 0

Request == requests < MaxRequests /\ requests' = requests + 1

-----------------------------------------------------------------------------
(* Invoices                                                                *)

Append1(inv) ==
    /\ Request /\ Len(invoices) < MaxInvoices
    /\ invoices' = Append(invoices, inv)
    /\ UNCHANGED <<fileable, generations, preparation, edits, ledger>>

\* xml: the kind of document raw_xml is.
Invoice(xml, lines, totals, corrects, procedure, margin) ==
    [direction |-> "sales", xml |-> xml, lines |-> lines,
     net |-> totals.net, vat |-> totals.vat, gross |-> totals.gross,
     corrects |-> corrects, procedure |-> procedure, margin |-> margin,
     docType |-> None, category |-> None, marker |-> None, numbered |-> FALSE, status |-> "new"]

\* POST api/invoices/create
Issue(lines) ==
    Append1(Invoice("VAT", lines, ReportedTotals(lines, <<>>), None, None, NoMargin))

\* A VAT-margin invoice: due is what the buyer pays, its lines have no amounts.
IssueMargin(lines, procedure, margin) ==
    /\ margin.taxable <= margin.gross /\ margin.gross >= 0
    /\ Append1(Invoice("VAT-margin", lines, [net |-> 0, vat |-> 0, gross |-> margin.gross],
                       None, procedure, margin))

\* A correction of an invoice KSeF has numbered, a correction included.
Correct(i, lines) ==
    /\ invoices[i].numbered /\ invoices[i].lines # <<>>
    /\ Append1(Invoice("KOR", lines, ReportedTotals(lines, invoices[i].lines), i, None, NoMargin))

\* The retrieval job stores an invoice without lines.
Copy(copy) ==
    LET totals == [net |-> copy.net, vat |-> copy.vat, gross |-> copy.net + copy.vat]
    IN Append1([Invoice(None, <<>>, totals, None, None, NoMargin)
                   EXCEPT !.direction = copy.direction, !.numbered = TRUE, !.marker = "NrKSeF"])

\* KSeF numbers or rejects an invoice that was sent.
KsefAnswers(i) ==
    /\ ~invoices[i].numbered /\ invoices[i].status # "rejected"
    /\ \/ invoices' = [invoices EXCEPT ![i].numbered = TRUE, ![i].status = "sent"]
       \/ invoices' = [invoices EXCEPT ![i].status = "rejected"]
    /\ UNCHANGED <<fileable, generations, preparation, edits, ledger, requests>>

\* classifyInvoice(): a category, or nothing when the call fails.
Answers == Categories \cup {None}

\* A synchronisation asks for the category of a purchase that has none.  Two that
\* overlap both find it so, and the later one replaces the category.
Classify(i, answer) ==
    /\ invoices[i].direction = "purchase"
    /\ invoices' = [invoices EXCEPT ![i].category = IF answer = None THEN @ ELSE answer]
    /\ UNCHANGED <<fileable, generations, preparation, edits, ledger, requests>>

MarkKeys == {"procedure", "docType"}

\* Number(null) is 0.
Number(column) == IF column = None THEN 0 ELSE column

\* PATCH reads the invoice and checks the margin that it and the body give.
BeginPatch(i, body) ==
    /\ Request
    /\ invoices[i].direction = "purchase" =>
          /\ "taxable" \notin DOMAIN body
          /\ {Given(body, "procedure", None), Given(body, "docType", None)} = {None}
    /\ Number(Given(body, "taxable", invoices[i].margin.taxable))
          <= Number(Given(body, "gross", invoices[i].margin.gross))
    /\ edits' = edits \cup {[of |-> i, body |-> body, step |-> "marks"]}
    /\ UNCHANGED <<fileable, invoices, generations, preparation, ledger>>

\* The markers are replaced as a whole when the body names one of them.
PatchMarks(edit) ==
    /\ edit.step = "marks"
    /\ IF DOMAIN edit.body \cap MarkKeys = {} THEN UNCHANGED invoices
       ELSE invoices' = [invoices EXCEPT ![edit.of].procedure = Given(edit.body, "procedure", None),
                                         ![edit.of].docType = Given(edit.body, "docType", None)]
    /\ edits' = (edits \ {edit}) \cup {[edit EXCEPT !.step = "margin"]}
    /\ UNCHANGED <<fileable, generations, preparation, ledger, requests>>

\* The margin columns that the body gives, in a statement of their own.
PatchMargin(edit) ==
    /\ edit.step = "margin"
    /\ LET New(key, old) == Given(edit.body, key, old)
       IN invoices' = [invoices EXCEPT ![edit.of].margin =
              [gross  |-> New("gross", @.gross), taxable |-> New("taxable", @.taxable),
               rate   |-> New("rate", @.rate),   method  |-> New("method", @.method)]]
    /\ edits' = edits \ {edit}
    /\ UNCHANGED <<fileable, generations, preparation, ledger, requests>>

-----------------------------------------------------------------------------
(* Files                                                                   *)

\* PATCH api/clients/[id] completes the tax office, the e-mail or the identity.
PatchClient ==
    /\ Request
    /\ fileable' = TRUE
    /\ UNCHANGED <<invoices, generations, preparation, edits, ledger>>

\* POST api/clients/[id]/erase takes the e-mail away, which a file must name.
EraseContact ==
    /\ Request
    /\ fileable' = FALSE
    /\ UNCHANGED <<invoices, generations, preparation, edits, ledger>>

\* generateJpkV7M() needs the client's data, whatever the invoices are.
ClientIsComplete == fileable

\* One query reads the period (and one before it the client, which nothing else
\* depends on); a file with a problem is refused before anything is stored.
Generated(by) ==
    /\ Request
    /\ ClientIsComplete /\ CanGenerate(invoices)
    /\ generations' = generations \cup
          {[by |-> by, step |-> "store", ids |-> Ids, file |-> JpkV7M(invoices)]}
    /\ UNCHANGED <<fileable, invoices, preparation, edits, ledger>>

Generate == Generated("route")
Prepare == Generated("job")

\* The upsert, which may fail.
Saved(g) ==
    /\ g.step = "store"
    /\ preparation' = g.file \/ preparation' = preparation
    /\ UNCHANGED <<fileable, invoices, edits, ledger, requests>>

\* The route goes on when the file was not saved.
StoreByRoute(g) ==
    /\ g.by = "route" /\ Saved(g)
    /\ generations' = (generations \ {g}) \cup {[g EXCEPT !.step = "mark"]}

StoreByJob(g) ==
    /\ g.by = "job" /\ Saved(g)
    /\ generations' = generations \ {g}

\* The rows the file was made of are exported; a rejected invoice stays rejected.
Mark(g) ==
    /\ g.step = "mark"
    /\ invoices' = [i \in Ids |->
          IF i \in g.ids /\ invoices[i].status # "rejected"
          THEN [invoices[i] EXCEPT !.status = "exported_jpk"] ELSE invoices[i]]
    /\ generations' = generations \ {g}
    /\ UNCHANGED <<fileable, preparation, edits, ledger, requests>>

\* The process ends between two statements.
Crash(g) ==
    /\ generations' = generations \ {g}
    /\ UNCHANGED <<fileable, invoices, preparation, edits, ledger, requests>>

\* The file of POST api/export, in the format asked for; one invoice that
\* cannot be entered fails a whole Optima file.
Export(system, ids) ==
    /\ Request
    /\ ids # {}
    /\ system = "optima" => \A i \in ids : CanExport(invoices[i])
    /\ ledger' = [i \in ids |->
          CASE system = "optima"   -> OptimaEntry(invoices[i])
            [] system = "symfonia" -> SymfoniaEntry(invoices[i])
            [] system = "insert"   -> InsertEntry(invoices[i])
            [] system = "csv"      -> CsvEntry(invoices[i])]
    /\ UNCHANGED <<fileable, invoices, generations, preparation, edits>>

\* POST api/export/optima
ExportOptima(ids) == Export("optima", ids)

ReturnsNext ==
    \/ \E lines \in LineLists : Issue(lines)
    \/ \E lines \in LineLists, procedure \in Procedures, margin \in Margins :
          IssueMargin(lines, procedure, margin)
    \/ \E i \in Ids, lines \in LineLists : Correct(i, lines)
    \/ \E copy \in Copies : Copy(copy)
    \/ \E i \in Ids : KsefAnswers(i)
    \/ \E i \in Ids, answer \in Answers : Classify(i, answer)
    \/ \E i \in Ids, body \in Patches : BeginPatch(i, body)
    \/ \E edit \in edits : PatchMarks(edit) \/ PatchMargin(edit)
    \/ Generate \/ Prepare
    \/ \E g \in generations : StoreByRoute(g) \/ StoreByJob(g) \/ Mark(g) \/ Crash(g)
    \/ PatchClient \/ EraseContact
    \/ \E ids \in SUBSET Ids : ExportOptima(ids) \/ \E system \in Systems : Export(system, ids)

ReturnsSpec == ReturnsInit /\ [][ReturnsNext]_returnsVars

-----------------------------------------------------------------------------
(* Properties                                                              *)

Files == {g.file : g \in generations} \cup ({preparation} \ {None})

\* The invoices a correction goes back to, itself included.
History[i \in Ids] ==
    {i} \cup (IF invoices[i].corrects = None THEN {} ELSE History[invoices[i].corrects])

\* Corrections of corrections add up: what an ordinary invoice and the
\* corrections that led to one of its corrections have booked together is the
\* value of the last lines, in net, tax and gross, also when a line is gone or
\* its rate has changed; and gross is net with tax, though the code computes it
\* from the lines and the others by rate (ksef-invoice-builder.ts:175-186, 423-431).
CorrectionsAddUp ==
    \A i \in Ids : (\E j \in History[i] : invoices[j].xml = "VAT") =>
        LET final == ReportedTotals(invoices[i].lines, <<>>) IN
        /\ SumFunction([j \in History[i] |-> invoices[j].net]) = final.net
        /\ SumFunction([j \in History[i] |-> invoices[j].vat]) = final.vat
        /\ SumFunction([j \in History[i] |-> invoices[j].gross]) = final.gross
        /\ invoices[i].gross = invoices[i].net + invoices[i].vat

BookedOf(i) == Amounts(invoices[i].net, invoices[i].vat)

\* The rows of a file and the entries of a ledger against the books.
FileMatches(file) ==
    /\ \A row \in file.sales :
          row.procedure = None /\ invoices[row.of].xml # "VAT-margin" => Total(row.sums) = BookedOf(row.of)
    /\ \A row \in file.purchases : row.sums = BookedOf(row.of)
EntryMatches(i) ==
    invoices[i].lines = <<>> \/ DOMAIN ledger[i] = {None} =>
        \E rate \in OptimaRates \cup {None} : ledger[i] = [r \in {rate} |-> BookedOf(i)]

\* What leaves the system about an invoice says what was booked and sent to
\* KSeF: its row in any file, generated from its lines and those it corrects
\* at another time, by another program part, carries its net and tax, however it
\* was marked since; so does its entry in a ledger file, except the Optima entry
\* of one with lines.  VAT-margin invoices are booked without net and tax
\* (jpk-generator.ts:200-224).
RowsMatchBooks ==
    /\ \A file \in Files : FileMatches(file)
    /\ ledger # None => \A i \in DOMAIN ledger : EntryMatches(i)

Nearest(zloty, grosze) == 100 * zloty - grosze \in -50..50

\* A loss may not lower what is declared.
Loss(row) == row.procedure # None /\ Total(row.sums).net < 0

AddsUp(file) ==
    LET counted == {row \in file.sales \cup file.wew : row.counts}
        Register(rate) == Total([row \in counted |-> row.sums[rate]])
        Owed(rate) == Total([row \in {r \in counted : ~Loss(r)} |-> row.sums[rate]])
        p == file.declaration
    IN /\ file.PodatekNalezny = SumFunction([rate \in Rates |-> Register(rate).vat])
       /\ file.PodatekNaliczony = SumFunction([row \in file.purchases |-> row.sums.vat])
       /\ \A rate \in Rates : /\ Nearest(p.sold[rate].net, Owed(rate).net)
                              /\ Nearest(p.sold[rate].vat, Owed(rate).vat)
       /\ Nearest(p.P_48, file.PodatekNaliczony)
       /\ \A field \in PurchaseFields :
             Nearest(p.bought[field].vat,
                  Total([row \in {r \in file.purchases : r.field = field} |-> row.sums]).vat)
       /\ p.P_51 - p.P_53 = p.P_38 - p.P_48 /\ (p.P_51 = 0 \/ p.P_53 = 0)

\* A file adds up for a reader who has only its rows: the control sums are the
\* tax of the printed rows - those to a fiscal receipt apart, the rows for summed
\* margins included - and each declared amount is theirs to the nearest zloty,
\* except that a row with a negative margin lowers nothing; what is due or carried
\* over is the difference of the taxes (jpk-generator.ts:284-286, 338-350, 453-484).
FileAddsUp == \A file \in Files : AddsUp(file)
=============================================================================
