----------------------------- MODULE MCVatReturns -----------------------------
(* Three documents of one client and one period.  The amounts are small ones   *)
(* that round: 50 gr at 23% is 11.5 gr of tax, 33.3 gr three times is 99.9 gr. *)
EXTENDS VatReturns

Half == [price |-> 500, qty |-> 1, rate |-> "23"]
Thirds == [price |-> 333, qty |-> 3, rate |-> "8"]
Exempt == [price |-> 2500, qty |-> 1, rate |-> "zw"]
MCLineLists == {<<Half, Half, Thirds>>, <<Thirds, Exempt>>}

Margin(gross, taxable, method) == [gross |-> gross, taxable |-> taxable, rate |-> "23", method |-> method]
MCMargins == {Margin(1000, 333, "individual"), Margin(1000, -400, "sum")}

MCCopies == {[direction |-> "purchase", net |-> 250, vat |-> 58],
             [direction |-> "sales", net |-> 150, vat |-> 12]}

MCPatches == {[docType |-> "FP", gross |-> None],
              [procedure |-> "MR_UZ", gross |-> 900, taxable |-> 500, rate |-> "8", method |-> "sum"],
              [gross |-> 50, taxable |-> -70]}
===============================================================================
