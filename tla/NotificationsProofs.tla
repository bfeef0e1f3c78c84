------------------------- MODULE NotificationsProofs -------------------------
(***************************************************************************)
(* Proofs about Notifications, for any number of bodies, processes,        *)
(* invoices and faults.                                                    *)
(***************************************************************************)
EXTENDS Notifications, SequenceTheorems, TLAPS
-----------------------------------------------------------------------------
(* The inductive invariant                                                 *)

Kind == {"offline24", "receivables", "digest", "jpk", "health"}
Entry == [item : Invoices, notified : SUBSET Tiers]
Listed == Entry \cup [item : Kind]
Items == Invoices \cup Kind \cup {None}
Held == Tiers \cup {None}
Ats == {"loop", "check", "flight"}
Numbers == 0 .. 4
RunType == [kind : Kind, shadow : BOOLEAN, aborted : BOOLEAN, todo : SUBSET Listed,
            at : Ats, step : Numbers, item : Items, holds : Held]

TypeInv ==
    /\ row \in [Invoices -> [uploaded : BOOLEAN, notified : SUBSET Tiers]]
    /\ prepared \in BOOLEAN /\ audited \in BOOLEAN
    /\ body \in [Slots -> RunType \cup {Free}]
    /\ sent \in [warnings : SUBSET (Invoices \X Tiers), preparation : BOOLEAN]

\* What a run knows of its step: no two entries of its list are of one invoice,
\* and what comes after a mail comes after a mail that went out.
WarningOK(b) ==
    /\ b.todo \subseteq Entry
    /\ \A e, f \in b.todo : e.item = f.item => e = f
    /\ b.at # "loop" => /\ b.item \in Invoices /\ b.holds \in Tiers
                        /\ \A e \in b.todo : e.item # b.item
    /\ b.step = 2 => <<b.item, b.holds>> \in sent.warnings

RunOK(b) ==
    /\ b.at = "loop" => b.step = 0
    /\ b.at # "loop" => b.step \in 1 .. Len(Steps(b.kind))
    /\ b.kind = "offline24" => WarningOK(b)
    /\ b.kind = "jpk" => (b.step >= 3 => prepared) /\ (b.step >= 4 => sent.preparation)

BodiesOK == \A p \in Slots : body[p] # Free => RunOK(body[p])

\* A warning that nothing excuses is flagged or about to be, and no run may send
\* it: none is about to, or has it on a list that does not show the flag.
Warned(i, t) == <<i, t>> \in sent.warnings \ excused
MaySend(q, i, t) ==
    /\ Runs(q, "offline24")
    /\ \/ body[q].step = 1 /\ body[q].item = i /\ body[q].holds = t
       \/ \E e \in body[q].todo : e.item = i /\ t \notin e.notified

WarnedOnce == \A i \in Invoices, t \in Tiers :
    Warned(i, t) => /\ t \in row[i].notified \/ \E p \in Slots : <<i, t>> \in Unflagged(p)
                    /\ \A q \in Slots : ~MaySend(q, i, t)

IInv == TypeInv /\ BodiesOK /\ RecordedIsSent /\ WarnedOnce /\ RepeatsAreExcused

-----------------------------------------------------------------------------
(* What a body does                                                        *)

LEMMA ShortSequences ==
    ASSUME NEW S, NEW x \in S, NEW y \in S, NEW z \in S
    PROVE  <<x>> \in Seq(S) /\ <<x, y, z>> \in Seq(S)
OBVIOUS

LEMMA StepsAre ==
    /\ Len(Steps("offline24")) = 2 /\ Steps("offline24")[1].do = "mail" /\ Steps("offline24")[2].do = "flag"
    /\ Len(Steps("receivables")) = 1 /\ Steps("receivables")[1].do = "mail"
    /\ Len(Steps("digest")) = 1 /\ Steps("digest")[1].do = "mail"
    /\ Len(Steps("jpk")) = 4 /\ Steps("jpk")[1].do = "read" /\ Steps("jpk")[2].do = "upsert"
    /\ Steps("jpk")[3].do = "mail" /\ Steps("jpk")[4].do = "audit"
    /\ Len(Steps("health")) = 4 /\ Steps("health")[1].do = "sample" /\ Steps("health")[2].do = "record"
    /\ Steps("health")[3].do = "mail" /\ Steps("health")[4].do = "mark"
<1>1. /\ Steps("offline24") = notifyOffline24 /\ Steps("receivables") = notifyReceivables
      /\ Steps("digest") = dailyDigest /\ Steps("jpk") = jpkPreparation /\ Steps("health") = healthCheck
  BY DEF Steps
<1>2. PICK S : \A do \in {"sample", "record", "mail", "mark"} : Step(do, FALSE) \in S
  <2> WITNESS {Step(do, FALSE) : do \in {"sample", "record", "mail", "mark"}}
  <2> QED
    OBVIOUS
<1>3. /\ Step("sample", FALSE) \in S /\ Step("record", FALSE) \in S
      /\ Step("mail", FALSE) \in S /\ Step("mark", FALSE) \in S
  BY <1>2
<1>4. raiseAlert \in Seq(S) /\ Len(raiseAlert) = 3 /\ <<Step("sample", FALSE)>> \in Seq(S)
  <2>1. raiseAlert \in Seq(S)
    BY <1>3, ShortSequences DEF raiseAlert
  <2>2. Len(raiseAlert) = 3
    BY DEF raiseAlert
  <2>3. <<Step("sample", FALSE)>> \in Seq(S)
    BY <1>3, ShortSequences
  <2> QED
    BY <2>1, <2>2, <2>3
<1>5. /\ Len(healthCheck) = 4 /\ healthCheck[1] = Step("sample", FALSE)
      /\ healthCheck[2] = raiseAlert[1] /\ healthCheck[3] = raiseAlert[2] /\ healthCheck[4] = raiseAlert[3]
  <2>1. PICK s : s = <<Step("sample", FALSE)>>
    OBVIOUS
  <2>2. s \in Seq(S) /\ Len(s) = 1 /\ s[1] = Step("sample", FALSE) /\ healthCheck = s \o raiseAlert
    BY <1>4, <2>1 DEF healthCheck
  <2>3. /\ Len(s \o raiseAlert) = 4 /\ (s \o raiseAlert)[1] = s[1]
        /\ \A j \in 2 .. 4 : (s \o raiseAlert)[j] = raiseAlert[j - 1]
    <3>1. /\ Len(s \o raiseAlert) = Len(s) + Len(raiseAlert)
          /\ \A j \in 1 .. Len(s) + Len(raiseAlert) :
                (s \o raiseAlert)[j] = IF j <= Len(s) THEN s[j] ELSE raiseAlert[j - Len(s)]
      BY <1>4, <2>2, ConcatProperties
    <3>2. Len(s) = 1 /\ Len(raiseAlert) = 3
      BY <1>4, <2>2
    <3> QED
      BY <3>1, <3>2
  <2> QED
    BY <2>2, <2>3
<1>6. healthCheck[1].do = "sample" /\ healthCheck[2].do = "record" /\ healthCheck[3].do = "mail"
      /\ healthCheck[4].do = "mark"
  BY <1>5 DEF raiseAlert, Step
<1> QED
  BY <1>1, <1>5, <1>6 DEF notifyOffline24, notifyReceivables, dailyDigest, jpkPreparation, Step

LEMMA UpTo2 == \A len, n : len = 2 /\ n \in 1 .. len => n = 1 \/ n = 2
OBVIOUS

LEMMA UpTo4 == \A len, n : len = 4 /\ n \in 1 .. len => n = 1 \/ n = 2 \/ n = 3 \/ n = 4
OBVIOUS

\* Which steps of which bodies do something that is recorded.
LEMMA WhoDoes ==
    ASSUME NEW k \in Kind, NEW n \in 1 .. Len(Steps(k))
    PROVE  /\ n \in 1 .. 4
           /\ Steps(k)[n].do = "flag" <=> k = "offline24" /\ n = 2
           /\ Steps(k)[n].do = "upsert" <=> k = "jpk" /\ n = 2
           /\ Steps(k)[n].do = "audit" <=> k = "jpk" /\ n = 4
           /\ k = "offline24" => (Steps(k)[n].do = "mail" <=> n = 1)
           /\ k = "jpk" => (Steps(k)[n].do = "mail" <=> n = 3)
<1>1. CASE k = "offline24"
  <2>1. n = 1 \/ n = 2
    <3>1. Len(Steps(k)) = 2
      BY <1>1, StepsAre
    <3> QED
      BY <3>1, UpTo2
  <2> QED
    BY <1>1, <2>1, StepsAre
<1>2. CASE k = "receivables" \/ k = "digest"
  <2>1. n = 1
    BY <1>2, StepsAre
  <2> QED
    BY <1>2, <2>1, StepsAre
<1>3. CASE k = "jpk"
  <2>1. n = 1 \/ n = 2 \/ n = 3 \/ n = 4
    <3>1. Len(Steps(k)) = 4
      BY <1>3, StepsAre
    <3> QED
      BY <3>1, UpTo4
  <2> QED
    BY <1>3, <2>1, StepsAre
<1>4. CASE k = "health"
  <2>1. n = 1 \/ n = 2 \/ n = 3 \/ n = 4
    <3>1. Len(Steps(k)) = 4
      BY <1>4, StepsAre
    <3> QED
      BY <3>1, UpTo4
  <2> QED
    BY <1>4, <2>1, StepsAre
<1> QED
  BY <1>1, <1>2, <1>3, <1>4 DEF Kind

LEMMA FreeIsNoRun == Free \notin RunType /\ Free.at = "free"
BY DEF Free, RunType

AtItem(r, at, step, item, holds, todo) ==
    [r EXCEPT !.at = at, !.step = step, !.item = item, !.holds = holds, !.todo = todo]
AtStep(r, at, step) == [r EXCEPT !.step = step, !.at = at]

LEMMA AtItemIs ==
    ASSUME NEW r \in RunType, NEW at \in Ats, NEW step \in Numbers, NEW item \in Items,
           NEW holds \in Held, NEW todo \in SUBSET Listed,
           NEW b, b = AtItem(r, at, step, item, holds, todo)
    PROVE  /\ b \in RunType /\ b.kind = r.kind /\ b.at = at /\ b.step = step
           /\ b.todo = todo /\ b.item = item /\ b.holds = holds
BY DEF RunType, AtItem

LEMMA AtStepIs ==
    ASSUME NEW r \in RunType, NEW at \in Ats, NEW step \in Numbers,
           NEW b, b = AtStep(r, at, step)
    PROVE  /\ b \in RunType /\ b.kind = r.kind /\ b.at = at /\ b.step = step
           /\ b.todo = r.todo /\ b.item = r.item /\ b.holds = r.holds
BY DEF RunType, AtStep

LEMMA Numbered == "loop" \in Ats /\ "check" \in Ats /\ "flight" \in Ats /\ Numbers \subseteq Nat
BY DEF Ats, Numbers

\* Nobody but p moves, and p is over, at the head of its loop, at a new entry,
\* where it was, or a step further.
Alone(p) == body' \in [Slots -> RunType \cup {Free}] /\ \A q \in Slots \ {p} : body'[q] = body[q]

Ended(p) == body'[p] = Free

Looped(p) ==
    /\ body'[p] \in RunType /\ body'[p].kind = body[p].kind
    /\ body'[p].at = "loop" /\ body'[p].step = 0 /\ body'[p].todo \subseteq body[p].todo

Picked(p) ==
    /\ body'[p] \in RunType /\ body'[p].kind = body[p].kind
    /\ body[p].at = "loop" /\ body'[p].at = "flight" /\ body'[p].step = 1
    /\ \E entry \in body[p].todo :
          /\ body'[p].todo = body[p].todo \ {entry} /\ body'[p].item = entry.item
          /\ body[p].kind = "offline24" => body'[p].holds \in Tiers \ entry.notified

Same(p) ==
    /\ body'[p] \in RunType /\ body'[p].kind = body[p].kind /\ body'[p].todo = body[p].todo
    /\ body'[p].item = body[p].item /\ body'[p].holds = body[p].holds

Stayed(p) == Same(p) /\ body'[p].step = body[p].step /\ (body'[p].at = "loop" <=> body[p].at = "loop")

Advanced(p) ==
    /\ Same(p) /\ body[p].at # "loop" /\ body'[p].at # "loop"
    /\ body'[p].step = body[p].step + 1 /\ body'[p].step \in 1 .. Len(Steps(body[p].kind))

Moved(p) ==
    /\ Alone(p) /\ body[p] \in RunType
    /\ Ended(p) \/ Looped(p) \/ Picked(p) \/ Stayed(p) \/ Advanced(p)

LEMMA GotoMoves ==
    ASSUME TypeInv, NEW p \in Slots, NEW b \in RunType \cup {Free}, Goto(p, b)
    PROVE  Alone(p) /\ body'[p] = b
BY DEF TypeInv, Goto, Alone

LEMMA ProceedMoves ==
    ASSUME TypeInv, NEW p \in Slots, body[p] \in RunType, NEW todo \in SUBSET body[p].todo, Proceed(p, todo)
    PROVE  Alone(p) /\ (Ended(p) \/ Looped(p))
<1>1. CASE todo = {}
  BY <1>1, GotoMoves DEF Proceed, Ended
<1>2. CASE todo # {}
  <2>1. PICK b : b = AtItem(body[p], "loop", 0, None, None, todo)
    OBVIOUS
  <2>2. /\ todo \in SUBSET Listed /\ None \in Items /\ None \in Held
        /\ "loop" \in Ats /\ 0 \in Numbers
    BY DEF RunType, Items, Held, Ats, Numbers
  <2>3. b \in RunType /\ b.kind = body[p].kind /\ b.at = "loop" /\ b.step = 0 /\ b.todo = todo
    BY <2>1, <2>2, AtItemIs
  <2>4. Goto(p, b)
    BY <1>2, <2>1 DEF Proceed, AtItem
  <2> QED
    BY <2>3, <2>4, GotoMoves DEF Looped
<1> QED
  BY <1>1, <1>2

LEMMA AdvanceMoves ==
    ASSUME TypeInv, BodiesOK, NEW p \in Slots, body[p] \in RunType, body[p].at = "flight", Advance(p)
    PROVE  /\ Alone(p)
           /\ \/ (Ended(p) \/ Looped(p)) /\ body[p].step = Len(Steps(body[p].kind))
              \/ Advanced(p)
<1> DEFINE n == body[p].step + 1
           k == body[p].kind
           at == IF Steps(k)[n].guarded THEN "check" ELSE "flight"
<1>1. body[p].step \in 1 .. Len(Steps(k)) /\ k \in Kind /\ body[p].step \in Nat /\ Len(Steps(k)) \in 0 .. 4
  <2>1. k \in Kind /\ body[p].step \in 1 .. Len(Steps(k))
    BY FreeIsNoRun DEF BodiesOK, RunOK, RunType
  <2>2. Len(Steps(k)) \in 0 .. 4
    BY <2>1, StepsAre DEF Kind
  <2> QED
    BY <2>1, <2>2
<1> HIDE DEF k
<1>2. CASE Len(Steps(k)) < n
  <2>1. Proceed(p, body[p].todo)
    BY <1>2 DEF Advance, k
  <2> QED
    BY <1>1, <1>2, <2>1, ProceedMoves DEF k
<1>3. CASE ~(Len(Steps(k)) < n)
  <2>1. PICK b : b = AtStep(body[p], at, n)
    OBVIOUS
  <2>2. Goto(p, b)
    BY <1>3, <2>1 DEF Advance, AtStep, k
  <2>3. n \in 1 .. Len(Steps(k)) /\ n \in Numbers /\ at \in Ats /\ at # "loop"
    <3>1. PICK len \in 0 .. 4 : len = Len(Steps(k))
      BY <1>1
    <3>2. PICK m \in Nat : m = body[p].step
      BY <1>1
    <3>3. m + 1 = n /\ m \in 1 .. len /\ ~(len < m + 1)
      BY <1>1, <1>3, <3>1, <3>2
    <3> HIDE DEF n
    <3>4. m + 1 \in 1 .. len /\ m + 1 \in 0 .. 4
      BY <3>3
    <3>5. n \in 1 .. len /\ n \in 0 .. 4
      BY <3>3, <3>4
    <3>6. at \in {"check", "flight"}
      OBVIOUS
    <3> QED
      BY <3>1, <3>5, <3>6 DEF Ats, Numbers
  <2>4. /\ b \in RunType /\ b.kind = body[p].kind /\ b.step = n /\ b.at # "loop"
        /\ b.todo = body[p].todo /\ b.item = body[p].item /\ b.holds = body[p].holds
    BY <2>1, <2>3, AtStepIs
  <2> QED
    BY <2>2, <2>3, <2>4, GotoMoves DEF Advanced, Same, k
<1> QED
  BY <1>2, <1>3

LEMMA GiveUpMoves ==
    ASSUME TypeInv, NEW p \in Slots, body[p] \in RunType, GiveUp(p)
    PROVE  Alone(p) /\ (Ended(p) \/ Looped(p))
<1>1. Stop(p) \/ Proceed(p, body[p].todo)
  BY DEF GiveUp
<1>2. Stop(p) => Alone(p) /\ Ended(p)
  BY GotoMoves DEF Stop, Ended
<1> QED
  BY <1>1, <1>2, ProceedMoves

-----------------------------------------------------------------------------
(* What stays true while one body moves                                    *)

LEMMA BodiesFollow ==
    ASSUME IInv, NEW p \in Slots, Moved(p),
           sent.warnings \subseteq sent'.warnings, sent.preparation => sent'.preparation,
           prepared => prepared',
           Advanced(p) =>
              /\ body[p].kind = "offline24" /\ body[p].step = 1
                   => <<body[p].item, body[p].holds>> \in sent'.warnings
              /\ body[p].kind = "jpk" /\ body[p].step = 2 => prepared'
              /\ body[p].kind = "jpk" /\ body[p].step = 3 => sent'.preparation
    PROVE  BodiesOK'
<1>1. \A q \in Slots \ {p} : body'[q] # Free => RunOK(body[q])'
  BY SMTT(30) DEF Moved, Alone, IInv, BodiesOK, RunOK, WarningOK
<1>2. RunOK(body[p]) /\ body[p] \in RunType /\ body[p].kind \in Kind /\ body[p].step \in Nat
  BY FreeIsNoRun, Numbered DEF Moved, IInv, BodiesOK, RunType
<1>3. CASE Ended(p)
  BY <1>1, <1>3 DEF Ended, BodiesOK
<1>4. CASE Looped(p)
  <2>1. body'[p].kind = "offline24" => WarningOK(body[p])'
    BY <1>2, <1>4 DEF Looped, RunOK, WarningOK
  <2>2. RunOK(body[p])'
    BY <1>2, <1>4, <2>1 DEF Looped, RunOK
  <2> QED
    BY <1>1, <2>2 DEF BodiesOK
<1>5. CASE Picked(p)
  <2>1. Len(Steps(body[p].kind)) \in Nat \ {0}
    BY <1>2, StepsAre DEF Kind
  <2>2. body'[p].kind = "offline24" => WarningOK(body[p])'
    BY <1>2, <1>5 DEF Picked, RunOK, WarningOK, Entry
  <2>3. RunOK(body[p])'
    BY <1>2, <1>5, <2>1, <2>2 DEF Picked, RunOK
  <2> QED
    BY <1>1, <2>3 DEF BodiesOK
<1>6. CASE Stayed(p)
  <2>1. body'[p].kind = "offline24" => WarningOK(body[p])'
    BY <1>2, <1>6 DEF Stayed, Same, RunOK, WarningOK
  <2>2. RunOK(body[p])'
    BY <1>2, <1>6, <2>1 DEF Stayed, Same, RunOK
  <2> QED
    BY <1>1, <2>2 DEF BodiesOK
<1>7. CASE Advanced(p)
  <2>1. body'[p].kind = "offline24" => WarningOK(body[p])'
    BY <1>2, <1>7 DEF Advanced, Same, RunOK, WarningOK
  <2>2. body'[p].kind = "jpk" =>
          (body'[p].step >= 3 => prepared') /\ (body'[p].step >= 4 => sent'.preparation)
    BY <1>2, <1>7 DEF Advanced, Same, RunOK
  <2>3. RunOK(body[p])'
    BY <1>2, <1>7, <2>1, <2>2 DEF Advanced, Same, RunOK
  <2> QED
    BY <1>1, <2>3 DEF BodiesOK
<1> QED
  BY <1>3, <1>4, <1>5, <1>6, <1>7 DEF Moved

\* No run comes to have a warning to send that it had not.
LEMMA NoNewWarning ==
    ASSUME IInv, NEW p \in Slots, Moved(p), NEW q \in Slots, NEW i, NEW t, MaySend(q, i, t)'
    PROVE  MaySend(q, i, t)
<1>1. CASE q # p
  BY <1>1 DEF Moved, Alone, MaySend, Runs
<1>2. CASE q = p
  <2>1. body'[p] # Free /\ body[p] # Free /\ RunOK(body[p]) /\ body[p] \in RunType
    BY <1>2, FreeIsNoRun DEF Moved, IInv, BodiesOK, MaySend, Runs
  <2>2. CASE Looped(p)
    BY <1>2, <2>1, <2>2 DEF Looped, MaySend, Runs
  <2>3. CASE Picked(p)
    <3>1. PICK entry \in body[p].todo :
             /\ body'[p].todo = body[p].todo \ {entry} /\ body'[p].item = entry.item
             /\ body[p].kind = "offline24" => body'[p].holds \in Tiers \ entry.notified
      BY <2>3 DEF Picked
    <3> QED
      BY <1>2, <2>1, <2>3, <3>1 DEF Picked, MaySend, Runs
  <2>4. CASE Stayed(p)
    BY <1>2, <2>1, <2>4 DEF Stayed, Same, MaySend, Runs
  <2>5. CASE Advanced(p)
    <3>1. body'[p].step # 1
      BY <2>1, <2>5, Numbered DEF Advanced, RunOK, RunType
    <3> QED
      BY <1>2, <2>1, <2>5, <3>1 DEF Advanced, Same, MaySend, Runs
  <2> QED
    BY <2>1, <2>2, <2>3, <2>4, <2>5 DEF Moved, Ended
<1> QED
  BY <1>1, <1>2

LEMMA WarnedOnceFollows ==
    ASSUME IInv, NEW p \in Slots, Moved(p), UNCHANGED sent, excused \subseteq excused',
           \A i \in Invoices : row[i].notified \subseteq row'[i].notified,
           \A i \in Invoices, t \in Tiers : <<i, t>> \in Unflagged(p) =>
              <<i, t>> \in excused' \/ t \in row'[i].notified \/ <<i, t>> \in Unflagged(p)'
    PROVE  WarnedOnce'
<1> SUFFICES ASSUME NEW i \in Invoices, NEW t \in Tiers, Warned(i, t)'
             PROVE  /\ t \in row'[i].notified \/ \E q \in Slots : <<i, t>> \in Unflagged(q)'
                    /\ \A q \in Slots : ~MaySend(q, i, t)'
  BY DEF WarnedOnce
<1>1. Warned(i, t) /\ <<i, t>> \notin excused'
  BY DEF Warned
<1>2. \A q \in Slots : ~MaySend(q, i, t)
  BY <1>1 DEF IInv, WarnedOnce
<1>3. \A q \in Slots : ~MaySend(q, i, t)'
  BY <1>2, NoNewWarning
<1>4. \A q \in Slots \ {p} : Unflagged(q)' = Unflagged(q)
  BY DEF Moved, Alone, Unflagged, Runs
<1>5. t \in row[i].notified \/ \E q \in Slots : <<i, t>> \in Unflagged(q)
  BY <1>1 DEF IInv, WarnedOnce
<1>6. t \in row'[i].notified \/ \E q \in Slots : <<i, t>> \in Unflagged(q)'
  BY <1>1, <1>4, <1>5
<1> QED
  BY <1>3, <1>6

-----------------------------------------------------------------------------
(* The steps of one body                                                   *)

\* A body that moves without a mail going out.
LEMMA QuietMove ==
    ASSUME IInv, NEW p \in Slots, Moved(p), UNCHANGED <<sent, repeated>>, excused \subseteq excused',
           UNCHANGED tables, ~Advanced(p),
           \A i \in Invoices, t \in Tiers : <<i, t>> \in Unflagged(p) =>
              <<i, t>> \in excused' \/ <<i, t>> \in Unflagged(p)'
    PROVE  IInv'
<1>1. TypeInv'
  BY DEF IInv, TypeInv, Moved, Alone, tables
<1>2. BodiesOK'
  BY BodiesFollow DEF tables
<1>3. WarnedOnce'
  BY WarnedOnceFollows DEF tables
<1>4. RecordedIsSent' /\ RepeatsAreExcused'
  BY DEF IInv, RecordedIsSent, RepeatsAreExcused, tables
<1> QED
  BY <1>1, <1>2, <1>3, <1>4 DEF IInv

\* A body at its loop has no warning to flag.
LEMMA LoopHasNone ==
    ASSUME IInv, NEW p \in Slots, body[p].at = "loop"
    PROVE  body[p] # Free /\ body[p] \in RunType /\ RunOK(body[p]) /\ Unflagged(p) = {}
<1>1. body[p] # Free /\ body[p] \in RunType
  BY FreeIsNoRun DEF IInv, TypeInv
<1>2. RunOK(body[p])
  BY <1>1 DEF IInv, BodiesOK
<1>3. Unflagged(p) = {}
  BY <1>2 DEF RunOK, Unflagged
<1> QED
  BY <1>1, <1>2, <1>3

LEMMA NextItemKeeps ==
    ASSUME IInv, NEW p \in Slots, NextItem(p)
    PROVE  IInv'
<1>1. /\ body[p].at = "loop" /\ UNCHANGED <<tables, probe, now, faults, history>>
      /\ body[p] # Free /\ body[p] \in RunType /\ RunOK(body[p]) /\ Unflagged(p) = {} /\ TypeInv
  BY LoopHasNone DEF NextItem, IInv
<1>2. CASE body[p].aborted
  <2>1. Alone(p) /\ Ended(p)
    BY <1>1, <1>2, GotoMoves DEF NextItem, Stop, Ended
  <2> QED
    BY <1>1, <2>1, QuietMove DEF Moved, Ended, Advanced, Same, FreeIsNoRun, history
<1>3. CASE ~body[p].aborted
  <2>1. PICK entry \in body[p].todo :
          LET rest == body[p].todo \ {entry}
              tier == IF Runs(p, "offline24") THEN TierFor(entry.item, entry.notified) ELSE None
          IN IF Skips(p, tier) THEN Proceed(p, rest)
             ELSE Goto(p, [body[p] EXCEPT !.at = "flight", !.step = 1, !.item = entry.item,
                                          !.holds = tier, !.todo = rest])
    BY <1>3 DEF NextItem
  <2> DEFINE rest == body[p].todo \ {entry}
             tier == IF Runs(p, "offline24") THEN TierFor(entry.item, entry.notified) ELSE None
             b == [body[p] EXCEPT !.at = "flight", !.step = 1, !.item = entry.item,
                                  !.holds = tier, !.todo = rest]
  <2>2. rest \in SUBSET body[p].todo
    OBVIOUS
  <2>3. CASE Skips(p, tier)
    <3>1. Proceed(p, rest)
      BY <2>1, <2>3
    <3>2. Alone(p) /\ (Ended(p) \/ Looped(p))
      BY <1>1, <2>2, <3>1, ProceedMoves
    <3>3. Moved(p) /\ ~Advanced(p)
      BY <1>1, <3>2, FreeIsNoRun DEF Moved, Ended, Looped, Advanced, Same
    <3> QED
      BY <1>1, <3>3, QuietMove DEF history
  <2>4. CASE ~Skips(p, tier)
    <3>1. Goto(p, b)
      BY <2>1, <2>4
    <3>2. tier \in Tiers \cup {None} /\ (body[p].kind = "offline24" => tier \in Tiers \ entry.notified)
      <4>1. \A n : Urgency(n) \in Tiers \cup {None}
        BY DEF Urgency, Tiers
      <4>2. Runs(p, "offline24") <=> body[p].kind = "offline24"
        BY <1>1 DEF Runs
      <4>3. CASE body[p].kind = "offline24"
        <5>1. tier = TierFor(entry.item, entry.notified) /\ tier # None
          BY <2>4, <4>2, <4>3 DEF Skips
        <5> QED
          BY <4>1, <5>1 DEF TierFor
      <4>4. CASE body[p].kind # "offline24"
        BY <4>2, <4>4
      <4> QED
        BY <4>3, <4>4
    <3>3. /\ entry.item \in Items /\ tier \in Held /\ rest \in SUBSET Listed
          /\ "flight" \in Ats /\ 1 \in Numbers
      BY <1>1, <3>2 DEF RunType, Listed, Entry, Items, Held, Ats, Numbers
    <3> HIDE DEF tier, rest
    <3>4. b = AtItem(body[p], "flight", 1, entry.item, tier, rest)
      BY DEF AtItem
    <3> HIDE DEF b
    <3>5. /\ b \in RunType /\ b.kind = body[p].kind /\ b.at = "flight" /\ b.step = 1
          /\ b.todo = rest /\ b.item = entry.item /\ b.holds = tier
      BY <1>1, <3>3, <3>4, AtItemIs
    <3>6. Alone(p) /\ body'[p] = b
      BY <1>1, <3>1, <3>5, GotoMoves
    <3>7. Picked(p)
      BY <1>1, <3>2, <3>5, <3>6 DEF Picked, rest
    <3>8. Moved(p) /\ ~Advanced(p)
      BY <1>1, <3>6, <3>7 DEF Moved, Advanced
    <3> QED
      BY <1>1, <3>8, QuietMove DEF history
  <2> QED
    BY <2>3, <2>4
<1> QED
  BY <1>2, <1>3

LEMMA IssueKeeps ==
    ASSUME IInv, NEW p \in Slots, Issue(p)
    PROVE  IInv'
<1>1. /\ body[p].at = "check" /\ UNCHANGED <<tables, sent, repeated>> /\ TypeInv
      /\ body[p] # Free /\ body[p] \in RunType
  BY FreeIsNoRun DEF Issue, IInv, TypeInv
<1>2. CASE body[p].aborted
  <2>1. Stop(p) /\ excused' = excused \cup Unflagged(p)
    BY <1>2 DEF Issue
  <2>2. Alone(p) /\ Ended(p)
    BY <1>1, <2>1, GotoMoves DEF Stop, Ended
  <2>3. Moved(p) /\ ~Advanced(p)
    BY <1>1, <2>2, FreeIsNoRun DEF Moved, Ended, Advanced, Same
  <2> QED
    BY <1>1, <2>1, <2>3, QuietMove
<1>3. CASE ~body[p].aborted
  <2>1. PICK b : b = [body[p] EXCEPT !.at = "flight"]
    OBVIOUS
  <2>2. Goto(p, b) /\ UNCHANGED excused
    BY <1>3, <2>1 DEF Issue
  <2>3. /\ b \in RunType /\ b.kind = body[p].kind /\ b.todo = body[p].todo /\ b.item = body[p].item
        /\ b.holds = body[p].holds /\ b.step = body[p].step /\ b.at = "flight"
    BY <1>1, <2>1, Numbered DEF RunType
  <2>4. Alone(p) /\ body'[p] = b
    BY <1>1, <2>2, <2>3, GotoMoves
  <2>5. Stayed(p)
    BY <1>1, <2>3, <2>4 DEF Stayed, Same
  <2>6. Moved(p) /\ ~Advanced(p)
    BY <1>1, <2>4, <2>5 DEF Moved, Stayed, Advanced, RunType, Numbers
  <2>7. Unflagged(p)' = Unflagged(p)
    BY <1>1, <2>3, <2>4, FreeIsNoRun DEF Unflagged, Runs
  <2> QED
    BY <1>1, <2>2, <2>6, <2>7, QuietMove
<1> QED
  BY <1>2, <1>3

\* A statement of a run takes effect: rows gain flags of warnings that went out,
\* and a period its row before the audit entry.
LEMMA EffectRecords ==
    ASSUME IInv, NEW p \in Slots, Effect(p)
    PROVE  /\ body[p] # Free /\ body[p] \in RunType /\ RunOK(body[p])
           /\ row' \in [Invoices -> [uploaded : BOOLEAN, notified : SUBSET Tiers]]
           /\ prepared' \in BOOLEAN /\ audited' \in BOOLEAN /\ (prepared => prepared')
           /\ \A i \in Invoices : row[i].notified \subseteq row'[i].notified
           /\ \A i \in Invoices, t \in Tiers : t \in row'[i].notified => <<i, t>> \in sent.warnings
           /\ \A i \in Invoices, t \in Tiers : <<i, t>> \in Unflagged(p) => t \in row'[i].notified
           /\ audited' => prepared' /\ sent.preparation
           /\ body[p].kind = "offline24" => body[p].step = 2
           /\ body[p].kind = "jpk" => body[p].step # 3 /\ (body[p].step = 2 => prepared')
<1> DEFINE do == Current(p).do
           n == body[p].step
           k == body[p].kind
<1>1. /\ body[p].at = "flight" /\ do # "mail"
      /\ row' = IF do = "flag" THEN [row EXCEPT ![body[p].item].notified = @ \cup {body[p].holds}] ELSE row
      /\ prepared' = (prepared \/ do = "upsert") /\ audited' = (audited \/ do = "audit")
  BY DEF Effect
<1>2. body[p] # Free /\ body[p] \in RunType /\ RunOK(body[p])
  BY <1>1, FreeIsNoRun DEF IInv, TypeInv, BodiesOK
<1>3. k \in Kind /\ n \in 1 .. Len(Steps(k)) /\ do = Steps(k)[n].do
  BY <1>1, <1>2 DEF RunOK, RunType, Current
<1> HIDE DEF do
<1>4. /\ do = "flag" <=> k = "offline24" /\ n = 2
      /\ do = "upsert" <=> k = "jpk" /\ n = 2
      /\ do = "audit" <=> k = "jpk" /\ n = 4
      /\ k = "offline24" => n = 2
      /\ k = "jpk" => n # 3
  <2>1. n \in 1 .. 4 /\ (k = "offline24" => n \in 1 .. 2)
    BY <1>3, WhoDoes, StepsAre
  <2> QED
    BY <1>1, <1>3, <2>1, WhoDoes
<1>5. k = "offline24" => /\ body[p].item \in Invoices /\ body[p].holds \in Tiers
                         /\ <<body[p].item, body[p].holds>> \in sent.warnings
  BY <1>1, <1>2, <1>4 DEF RunOK, WarningOK
<1>6. row \in [Invoices -> [uploaded : BOOLEAN, notified : SUBSET Tiers]]
  BY DEF IInv, TypeInv
<1>7. CASE do = "flag"
  <2>1. k = "offline24" /\ n = 2 /\ prepared' = prepared /\ audited' = audited
    BY <1>1, <1>4, <1>7 DEF IInv, TypeInv
  <2>2. row' = [row EXCEPT ![body[p].item] = [row[body[p].item] EXCEPT !.notified = @ \cup {body[p].holds}]]
    BY <1>1, <1>7
  <2>3. PICK v : v = [row[body[p].item] EXCEPT !.notified = @ \cup {body[p].holds}]
    OBVIOUS
  <2>4. /\ v \in [uploaded : BOOLEAN, notified : SUBSET Tiers]
        /\ v.notified = row[body[p].item].notified \cup {body[p].holds}
    BY <1>5, <1>6, <2>1, <2>3
  <2>5. /\ row' \in [Invoices -> [uploaded : BOOLEAN, notified : SUBSET Tiers]] /\ row'[body[p].item] = v
        /\ \A i \in Invoices \ {body[p].item} : row'[i] = row[i]
    BY <1>5, <1>6, <2>1, <2>2, <2>3, <2>4
  <2>6. \A i \in Invoices, t \in Tiers : t \in row'[i].notified => <<i, t>> \in sent.warnings
    BY <1>5, <2>1, <2>4, <2>5 DEF IInv, RecordedIsSent
  <2>7. \A i \in Invoices, t \in Tiers : <<i, t>> \in Unflagged(p) => t \in row'[i].notified
    BY <2>4, <2>5 DEF Unflagged
  <2>8. \A i \in Invoices : row[i].notified \subseteq row'[i].notified
    BY <2>4, <2>5
  <2> QED
    BY <1>2, <2>1, <2>5, <2>6, <2>7, <2>8 DEF IInv, TypeInv, RecordedIsSent
<1>8. CASE do # "flag"
  <2>1. row' = row /\ k # "offline24"
    BY <1>1, <1>4, <1>8
  <2>2. Unflagged(p) = {}
    BY <2>1 DEF Unflagged, Runs
  <2>3. prepared' \in BOOLEAN /\ audited' \in BOOLEAN /\ (prepared => prepared') /\ (do = "upsert" => prepared')
    BY <1>1 DEF IInv, TypeInv
  <2>4. audited' => prepared' /\ sent.preparation
    <3>1. CASE do = "audit"
      BY <1>2, <1>4, <2>3, <3>1 DEF RunOK
    <3>2. CASE do # "audit"
      BY <1>1, <2>3, <3>2 DEF IInv, TypeInv, RecordedIsSent
    <3> QED
      BY <3>1, <3>2
  <2> QED
    BY <1>2, <1>4, <1>6, <2>1, <2>2, <2>3, <2>4 DEF IInv, RecordedIsSent
<1> QED
  BY <1>7, <1>8

\* A body moves after a statement took effect.
LEMMA EffectKeeps ==
    ASSUME IInv, NEW p \in Slots, Effect(p), Moved(p), UNCHANGED <<sent, repeated>>, excused \subseteq excused'
    PROVE  IInv'
<1>1. TypeInv'
  BY EffectRecords DEF IInv, TypeInv, Moved, Alone
<1>2. BodiesOK'
  <2>1. /\ body[p].kind = "offline24" => body[p].step # 1
        /\ body[p].kind = "jpk" => body[p].step # 3
        /\ body[p].kind = "jpk" /\ body[p].step = 2 => prepared'
        /\ prepared => prepared'
    BY EffectRecords
  <2> QED
    BY <2>1, BodiesFollow
<1>3. WarnedOnce'
  BY EffectRecords, WarnedOnceFollows
<1>4. RecordedIsSent' /\ RepeatsAreExcused'
  BY EffectRecords DEF IInv, RecordedIsSent, RepeatsAreExcused
<1> QED
  BY <1>1, <1>2, <1>3, <1>4 DEF IInv

LEMMA PerformKeeps ==
    ASSUME IInv, NEW p \in Slots, Perform(p)
    PROVE  IInv'
<1>1. Effect(p) /\ UNCHANGED history /\ body[p].at = "flight"
  BY DEF Perform, Effect
<1>2. TypeInv /\ BodiesOK /\ body[p] \in RunType
  BY <1>1, EffectRecords DEF IInv
<1>3. Proceed(p, body[p].todo) \/ Advance(p)
  BY DEF Perform
<1>4. Moved(p)
  BY <1>1, <1>2, <1>3, ProceedMoves, AdvanceMoves DEF Moved
<1> QED
  BY <1>1, <1>4, EffectKeeps DEF history

LEMMA StatementFailsKeeps ==
    ASSUME IInv, NEW p \in Slots, StatementFails(p)
    PROVE  IInv'
<1>1. /\ body[p].at = "flight" /\ UNCHANGED <<sent, repeated>> /\ excused' = excused \cup Unflagged(p)
      /\ GiveUp(p) /\ (Effect(p) \/ UNCHANGED tables)
  BY DEF StatementFails
<1>2. TypeInv /\ body[p] \in RunType
  BY <1>1, FreeIsNoRun DEF IInv, TypeInv
<1>3. Alone(p) /\ (Ended(p) \/ Looped(p))
  BY <1>1, <1>2, GiveUpMoves
<1>4. Moved(p) /\ ~Advanced(p)
  BY <1>2, <1>3, FreeIsNoRun DEF Moved, Ended, Looped, Advanced, Same
<1> QED
  BY <1>1, <1>4, EffectKeeps, QuietMove

LEMMA MailFailsKeeps ==
    ASSUME IInv, NEW p \in Slots, MailFails(p)
    PROVE  IInv'
<1>1. /\ InFlight(p, "mail") /\ body[p].at = "flight" /\ GiveUp(p) /\ UNCHANGED <<tables, history>>
  BY DEF MailFails, InFlight
<1>2. TypeInv /\ body[p] \in RunType /\ RunOK(body[p])
  BY <1>1, FreeIsNoRun DEF IInv, TypeInv, BodiesOK
<1>3. Alone(p) /\ (Ended(p) \/ Looped(p))
  BY <1>1, <1>2, GiveUpMoves
<1>4. Moved(p) /\ ~Advanced(p)
  BY <1>2, <1>3, FreeIsNoRun DEF Moved, Ended, Looped, Advanced, Same
<1>5. Unflagged(p) = {}
  <2>1. body[p].kind \in Kind /\ body[p].step \in 1 .. Len(Steps(body[p].kind))
        /\ Steps(body[p].kind)[body[p].step].do = "mail"
    BY <1>1, <1>2 DEF RunOK, RunType, InFlight, Current
  <2> QED
    BY <2>1, WhoDoes DEF Unflagged, Runs
<1> QED
  BY <1>1, <1>4, <1>5, QuietMove DEF history

LEMMA AbandonKeeps ==
    ASSUME IInv, NEW p \in Slots, Abandon(p)
    PROVE  IInv'
<1> DEFINE b == [body[p] EXCEPT !.aborted = TRUE]
<1>1. Goto(p, b) /\ body[p] # Free /\ UNCHANGED <<tables, history>> /\ TypeInv /\ body[p] \in RunType
  BY DEF Abandon, IInv, TypeInv
<1>2. /\ b \in RunType /\ b.kind = body[p].kind /\ b.todo = body[p].todo /\ b.item = body[p].item
      /\ b.holds = body[p].holds /\ b.step = body[p].step /\ b.at = body[p].at
  BY <1>1 DEF RunType
<1> HIDE DEF b
<1>3. Alone(p) /\ body'[p] = b
  BY <1>1, <1>2, GotoMoves
<1>4. Stayed(p)
  BY <1>1, <1>2, <1>3 DEF Stayed, Same
<1>5. Moved(p) /\ ~Advanced(p)
  BY <1>1, <1>3, <1>4 DEF Moved, Stayed, Advanced, RunType
<1>6. Unflagged(p)' = Unflagged(p)
  BY <1>1, <1>2, <1>3, FreeIsNoRun DEF Unflagged, Runs
<1> QED
  BY <1>1, <1>5, <1>6, QuietMove DEF history

-----------------------------------------------------------------------------
(* Mails that go out                                                       *)

\* The first warning of a tier is excused if another run has the invoice on its
\* list; otherwise nobody may send it again.
LEMMA SentKeeps ==
    ASSUME IInv, NEW p \in Slots, InFlight(p, "mail"), UNCHANGED tables,
           NEW answered \in BOOLEAN, Sent(p, answered),
           IF answered THEN Advance(p) ELSE GiveUp(p)
    PROVE  IInv'
<1>1. /\ InFlight(p, "mail") /\ body[p].at = "flight" /\ UNCHANGED tables
      /\ \/ WarningSent(p, answered) \/ PreparationSent(p)
         \/ ReceivablesDigestSent(p) \/ DailyDigestSent(p) \/ AlertSent(p)
  BY DEF Sent, InFlight
<1>2. TypeInv /\ BodiesOK /\ body[p] \in RunType /\ RunOK(body[p]) /\ body[p] # Free
  BY <1>1, FreeIsNoRun DEF IInv, TypeInv, BodiesOK
<1>3. /\ Alone(p) /\ (Ended(p) \/ Looped(p) \/ Advanced(p))
      /\ answered /\ ~Advanced(p) => body[p].step = Len(Steps(body[p].kind))
  <2>1. CASE answered
    BY <1>1, <1>2, <2>1, AdvanceMoves
  <2>2. CASE ~answered
    BY <1>2, <2>2, GiveUpMoves
  <2> QED
    BY <2>1, <2>2
<1>4. Moved(p)
  BY <1>2, <1>3 DEF Moved
<1>5. /\ body[p].kind = "offline24" => body[p].step = 1
      /\ body[p].kind = "jpk" => body[p].step = 3
  <2>1. body[p].kind \in Kind /\ body[p].step \in 1 .. Len(Steps(body[p].kind))
        /\ Steps(body[p].kind)[body[p].step].do = "mail"
    BY <1>1, <1>2 DEF RunOK, RunType, InFlight, Current
  <2> QED
    BY <2>1, WhoDoes
<1>6. Unflagged(p) = {}
  BY <1>5 DEF Unflagged, Runs
<1>7. CASE WarningSent(p, answered)
  <2> DEFINE i0 == body[p].item
             t0 == body[p].holds
  <2>1. /\ body[p].kind = "offline24" /\ body[p].step = 1
        /\ sent' = [sent EXCEPT !.warnings = @ \cup {<<i0, t0>>}]
        /\ excused' = IF answered /\ ~Overlapping(p, i0) THEN excused ELSE excused \cup {<<i0, t0>>}
        /\ repeated' = IF <<i0, t0>> \in sent.warnings \ excused THEN repeated \cup {<<i0, t0>>} ELSE repeated
    BY <1>5, <1>7 DEF WarningSent, Runs
  <2>2. i0 \in Invoices /\ t0 \in Tiers /\ \A e \in body[p].todo : e.item # i0
    BY <1>1, <1>2, <2>1 DEF RunOK, WarningOK
  <2>3. /\ sent' \in [warnings : SUBSET (Invoices \X Tiers), preparation : BOOLEAN]
        /\ sent'.warnings = sent.warnings \cup {<<i0, t0>>} /\ sent'.preparation = sent.preparation
    BY <1>2, <2>1, <2>2 DEF TypeInv
  <2>4. ~Warned(i0, t0)
    <3>1. MaySend(p, i0, t0)
      BY <1>2, <2>1 DEF MaySend, Runs
    <3> QED
      BY <2>2, <3>1 DEF IInv, WarnedOnce
  <2>5. RepeatsAreExcused'
    BY <2>1, <2>4 DEF IInv, RepeatsAreExcused, Warned
  <2>6. BodiesOK'
    BY <1>1, <1>4, <2>1, <2>3, BodiesFollow DEF tables
  <2>7. answered => Advanced(p) /\ body'[p].step = 2
    <3>1. body[p].step # Len(Steps(body[p].kind))
      BY <2>1, StepsAre
    <3>2. answered => Advanced(p)
      BY <1>3, <3>1
    <3> QED
      BY <2>1, <3>2 DEF Advanced
  <2>8. WarnedOnce'
    <3> SUFFICES ASSUME NEW i \in Invoices, NEW t \in Tiers, Warned(i, t)'
                 PROVE  /\ t \in row'[i].notified \/ \E q \in Slots : <<i, t>> \in Unflagged(q)'
                        /\ \A q \in Slots : ~MaySend(q, i, t)'
      BY DEF WarnedOnce
    <3>1. <<i, t>> \notin excused' /\ excused \subseteq excused' /\ <<i, t>> \in sent'.warnings
      BY <2>1 DEF Warned
    <3>2. CASE <<i, t>> = <<i0, t0>>
      <4>1. i = i0 /\ t = t0
        BY <3>2
      <4>2. answered /\ ~Overlapping(p, i0)
        BY <2>1, <3>1, <3>2
      <4>3. \A q \in Slots \ {p} : ~MaySend(q, i, t)
        BY <4>1, <4>2 DEF Overlapping, MaySend
      <4>4. \A q \in Slots \ {p} : ~MaySend(q, i, t)'
        BY <1>4, <4>3, NoNewWarning
      <4>5. ~MaySend(p, i, t)'
        BY <2>2, <2>7, <4>1, <4>2 DEF Advanced, Same, MaySend
      <4>6. <<i, t>> \in Unflagged(p)'
        BY <2>1, <2>7, <3>2, <4>2, FreeIsNoRun DEF Advanced, Same, Unflagged, Runs
      <4> QED
        BY <4>4, <4>5, <4>6
    <3>3. CASE <<i, t>> # <<i0, t0>>
      <4>1. Warned(i, t)
        BY <2>3, <3>1, <3>3 DEF Warned
      <4>2. /\ t \in row[i].notified \/ \E q \in Slots : <<i, t>> \in Unflagged(q)
            /\ \A q \in Slots : ~MaySend(q, i, t)
        BY <4>1 DEF IInv, WarnedOnce
      <4>3. \A q \in Slots : ~MaySend(q, i, t)'
        BY <1>4, <4>2, NoNewWarning
      <4>4. \A q \in Slots \ {p} : Unflagged(q)' = Unflagged(q)
        BY <1>3 DEF Alone, Unflagged, Runs
      <4> QED
        BY <1>1, <1>6, <4>2, <4>3, <4>4 DEF tables
    <3> QED
      BY <3>2, <3>3
  <2>9. TypeInv' /\ RecordedIsSent'
    BY <1>1, <1>2, <1>3, <2>3 DEF IInv, TypeInv, Alone, RecordedIsSent, tables
  <2> QED
    BY <2>5, <2>6, <2>8, <2>9 DEF IInv
<1>8. CASE PreparationSent(p)
  <2>1. /\ body[p].kind = "jpk" /\ sent' = [sent EXCEPT !.preparation = TRUE]
        /\ UNCHANGED <<excused, repeated>>
    BY <1>8 DEF PreparationSent, Runs
  <2>2. /\ sent' \in [warnings : SUBSET (Invoices \X Tiers), preparation : BOOLEAN]
        /\ sent'.warnings = sent.warnings /\ sent'.preparation = TRUE
    BY <1>2, <2>1 DEF TypeInv
  <2>3. BodiesOK'
    <3>1. body[p].step = 3 /\ prepared' = prepared
      BY <1>1, <1>5, <2>1 DEF tables
    <3> QED
      <4>1. /\ sent.warnings \subseteq sent'.warnings /\ sent'.preparation
            /\ prepared => prepared'
            /\ body[p].kind # "offline24" /\ body[p].step # 2
        BY <2>1, <2>2, <3>1
      <4> QED
        BY <1>4, <4>1, BodiesFollow
  <2>4. WarnedOnce'
    <3> SUFFICES ASSUME NEW i \in Invoices, NEW t \in Tiers, Warned(i, t)'
                 PROVE  /\ t \in row'[i].notified \/ \E q \in Slots : <<i, t>> \in Unflagged(q)'
                        /\ \A q \in Slots : ~MaySend(q, i, t)'
      BY DEF WarnedOnce
    <3>1. /\ t \in row[i].notified \/ \E q \in Slots : <<i, t>> \in Unflagged(q)
          /\ \A q \in Slots : ~MaySend(q, i, t)
      BY <2>1, <2>2 DEF IInv, WarnedOnce, Warned
    <3>2. \A q \in Slots : ~MaySend(q, i, t)'
      BY <1>4, <3>1, NoNewWarning
    <3>3. \A q \in Slots \ {p} : Unflagged(q)' = Unflagged(q)
      BY <1>3 DEF Alone, Unflagged, Runs
    <3> QED
      BY <1>1, <1>6, <3>1, <3>2, <3>3 DEF tables
  <2>5. TypeInv' /\ RecordedIsSent' /\ RepeatsAreExcused'
    BY <1>1, <1>2, <1>3, <2>1, <2>2 DEF IInv, TypeInv, Alone, RecordedIsSent, RepeatsAreExcused, tables
  <2> QED
    BY <2>3, <2>4, <2>5 DEF IInv
<1>9. CASE ReceivablesDigestSent(p) \/ DailyDigestSent(p) \/ AlertSent(p)
  <2>1. UNCHANGED history /\ body[p].kind \notin {"offline24", "jpk"}
    BY <1>9 DEF ReceivablesDigestSent, DailyDigestSent, AlertSent, Runs
  <2>2. BodiesOK'
    <3>1. UNCHANGED <<sent, prepared>> /\ body[p].kind # "offline24" /\ body[p].kind # "jpk"
      BY <1>1, <2>1 DEF tables, history
    <3> QED
      BY <1>4, <3>1, BodiesFollow
  <2>3. WarnedOnce'
    BY <1>1, <1>4, <1>6, <2>1, WarnedOnceFollows DEF tables, history
  <2>4. TypeInv' /\ RecordedIsSent' /\ RepeatsAreExcused'
    BY <1>1, <1>2, <1>3, <2>1 DEF IInv, TypeInv, Alone, RecordedIsSent, RepeatsAreExcused, tables, history
  <2> QED
    BY <2>2, <2>3, <2>4 DEF IInv
<1> QED
  BY <1>1, <1>7, <1>8, <1>9

LEMMA DeliverKeeps ==
    ASSUME IInv, NEW p \in Slots, Deliver(p) \/ AnswerLost(p)
    PROVE  IInv'
<1>1. InFlight(p, "mail") /\ UNCHANGED tables
  BY DEF Deliver, AnswerLost
<1>2. Deliver(p) => Sent(p, TRUE) /\ Advance(p)
  BY DEF Deliver
<1>3. AnswerLost(p) => Sent(p, FALSE) /\ GiveUp(p)
  BY DEF AnswerLost
<1> QED
  BY <1>1, <1>2, <1>3, SentKeeps

-----------------------------------------------------------------------------
(* Bodies that begin and processes that die                                *)

\* A body reads its list: the warnings not flagged yet, which it may repeat,
\* are excused from here on.
LEMMA BeginKeeps ==
    ASSUME IInv, NEW p \in Slots, NEW kind \in Kind, NEW shadow \in BOOLEAN, Begin(p, kind, shadow)
    PROVE  IInv'
<1>1. PICK b : b = [kind |-> kind, shadow |-> shadow, aborted |-> FALSE, todo |-> Entries(kind),
                    at |-> "loop", step |-> 0, item |-> None, holds |-> None]
  OBVIOUS
<1>2. /\ body[p] = Free /\ Goto(p, b) /\ UNCHANGED <<tables, sent, repeated>> /\ TypeInv
      /\ excused' = excused \cup UNION {Unflagged(q) : q \in Slots}
  BY <1>1 DEF Begin, IInv
<1>3. /\ Entries(kind) \in SUBSET Listed
      /\ kind = "offline24" =>
            /\ Entries(kind) \subseteq Entry
            /\ \A e \in Entries(kind) : e.notified = row[e.item].notified
            /\ \A e, f \in Entries(kind) : e.item = f.item => e = f
  <2>1. CASE kind = "offline24"
    <3>1. Entries(kind) = {[item |-> i, notified |-> row[i].notified] :
                             i \in {j \in Invoices : ~row[j].uploaded /\ row[j].notified # Tiers}}
      BY <2>1 DEF Entries
    <3>2. Entries(kind) \subseteq Entry /\ \A e \in Entries(kind) : e.notified = row[e.item].notified
      BY <1>2, <3>1 DEF TypeInv, Entry
    <3>3. \A e, f \in Entries(kind) : e.item = f.item => e = f
      BY <3>1
    <3> QED
      BY <3>2, <3>3 DEF Listed
  <2>2. CASE kind # "offline24"
    <3>1. Entries(kind) = {[item |-> kind]} /\ [item |-> kind] \in [item : Kind]
      BY <2>2 DEF Entries
    <3> QED
      BY <2>2, <3>1 DEF Listed
  <2> QED
    BY <2>1, <2>2
<1>4. /\ b \in RunType /\ b.kind = kind /\ b.at = "loop" /\ b.step = 0 /\ b.todo = Entries(kind)
  <2>1. "loop" \in Ats /\ 0 \in Numbers /\ None \in Items /\ None \in Held
    BY DEF Ats, Numbers, Items, Held
  <2> QED
    BY <1>1, <1>3, <2>1 DEF RunType
<1>5. Alone(p) /\ body'[p] = b
  BY <1>2, <1>4, GotoMoves
<1>6. BodiesOK'
  <2>1. \A q \in Slots \ {p} : body'[q] # Free => RunOK(body[q])'
    BY <1>2, <1>5 DEF Alone, IInv, BodiesOK, RunOK, WarningOK, tables
  <2>2. kind = "offline24" => WarningOK(body[p])'
    BY <1>3, <1>4, <1>5 DEF WarningOK
  <2>3. RunOK(body[p])'
    BY <1>4, <1>5, <2>2 DEF RunOK
  <2> QED
    BY <2>1, <2>3 DEF BodiesOK
<1>7. WarnedOnce'
  <2> SUFFICES ASSUME NEW i \in Invoices, NEW t \in Tiers, Warned(i, t)'
               PROVE  /\ t \in row'[i].notified \/ \E q \in Slots : <<i, t>> \in Unflagged(q)'
                      /\ \A q \in Slots : ~MaySend(q, i, t)'
    BY DEF WarnedOnce
  <2>1. Warned(i, t) /\ \A q \in Slots : <<i, t>> \notin Unflagged(q)
    BY <1>2 DEF Warned
  <2>2. t \in row[i].notified /\ \A q \in Slots : ~MaySend(q, i, t)
    BY <2>1 DEF IInv, WarnedOnce
  <2>3. \A q \in Slots \ {p} : ~MaySend(q, i, t)'
    BY <1>5, <2>2 DEF Alone, MaySend, Runs
  <2>4. ~MaySend(p, i, t)'
    BY <1>3, <1>4, <1>5, <2>2 DEF MaySend, Runs
  <2> QED
    BY <1>2, <2>2, <2>3, <2>4 DEF tables
<1>8. TypeInv' /\ RecordedIsSent' /\ RepeatsAreExcused'
  BY <1>2, <1>5 DEF IInv, TypeInv, Alone, RecordedIsSent, RepeatsAreExcused, tables
<1> QED
  BY <1>6, <1>7, <1>8 DEF IInv

LEMMA BeginsKeep ==
    ASSUME IInv, NEW p \in Slots,
           \/ \E kind \in Kinds[p], shadow \in BOOLEAN : RunJob(p, kind, shadow)
           \/ PostOffline24(p) \/ PostReceivables(p) \/ PostDigest(p)
    PROVE  IInv'
<1>1. Kinds[p] \subseteq Kind
  BY NotificationsAssumption DEF Kind
<1>2. PICK kind \in Kind, shadow \in BOOLEAN : Begin(p, kind, shadow)
  BY <1>1 DEF RunJob, PostOffline24, PostReceivables, PostDigest, Kind
<1> QED
  BY <1>2, BeginKeeps

LEMMA CrashKeeps ==
    ASSUME IInv, NEW h \in Hosts, Crash(h)
    PROVE  IInv'
<1>1. /\ body' = [p \in Slots |-> IF HostOf[p] = h THEN Free ELSE body[p]]
      /\ UNCHANGED <<tables, sent, repeated>>
      /\ excused' = excused \cup UNION {Unflagged(p) : p \in {q \in Slots : HostOf[q] = h}}
  BY DEF Crash
<1>2. TypeInv' /\ RecordedIsSent' /\ RepeatsAreExcused'
  BY <1>1 DEF IInv, TypeInv, RecordedIsSent, RepeatsAreExcused, tables
<1>3. BodiesOK'
  BY <1>1 DEF IInv, BodiesOK, RunOK, WarningOK, tables
<1>4. WarnedOnce'
  <2> SUFFICES ASSUME NEW i \in Invoices, NEW t \in Tiers, Warned(i, t)'
               PROVE  /\ t \in row'[i].notified \/ \E q \in Slots : <<i, t>> \in Unflagged(q)'
                      /\ \A q \in Slots : ~MaySend(q, i, t)'
    BY DEF WarnedOnce
  <2>1. Warned(i, t) /\ \A q \in Slots : HostOf[q] = h => <<i, t>> \notin Unflagged(q)
    BY <1>1 DEF Warned
  <2>2. /\ t \in row[i].notified \/ \E q \in Slots : <<i, t>> \in Unflagged(q)
        /\ \A q \in Slots : ~MaySend(q, i, t)
    BY <2>1 DEF IInv, WarnedOnce
  <2>3. \A q \in Slots : HostOf[q] # h => body'[q] = body[q]
    BY <1>1
  <2>4. \A q \in Slots : HostOf[q] = h => body'[q] = Free
    BY <1>1
  <2>5. \A q \in Slots : ~MaySend(q, i, t)'
    BY <2>2, <2>3, <2>4 DEF MaySend, Runs
  <2>6. \A q \in Slots : <<i, t>> \in Unflagged(q) => <<i, t>> \in Unflagged(q)'
    BY <2>1, <2>3 DEF Unflagged, Runs
  <2> QED
    BY <1>1, <2>2, <2>5, <2>6 DEF tables
<1> QED
  BY <1>2, <1>3, <1>4 DEF IInv

\* The steps that touch no body.
LEMMA ElsewhereKeeps ==
    ASSUME IInv, UNCHANGED <<prepared, audited, body, history>>,
           UNCHANGED row \/ \E i \in Invoices : Upload(i)
    PROVE  IInv'
<1>1. /\ row' \in [Invoices -> [uploaded : BOOLEAN, notified : SUBSET Tiers]]
      /\ \A i \in Invoices : row'[i].notified = row[i].notified
  <2>1. row \in [Invoices -> [uploaded : BOOLEAN, notified : SUBSET Tiers]]
    BY DEF IInv, TypeInv
  <2>2. ASSUME NEW i \in Invoices, row' = [row EXCEPT ![i].uploaded = TRUE]
        PROVE  /\ row' \in [Invoices -> [uploaded : BOOLEAN, notified : SUBSET Tiers]]
               /\ \A j \in Invoices : row'[j].notified = row[j].notified
    BY <2>1, <2>2
  <2> QED
    BY <2>1, <2>2 DEF Upload
<1>2. TypeInv'
  BY <1>1 DEF IInv, TypeInv, history
<1>3. BodiesOK'
  BY DEF IInv, BodiesOK, RunOK, WarningOK, history
<1>4. WarnedOnce'
  <2>1. \A q \in Slots : Unflagged(q)' = Unflagged(q)
    BY DEF Unflagged, Runs
  <2>2. \A q \in Slots, i \in Invoices, t \in Tiers : MaySend(q, i, t)' <=> MaySend(q, i, t)
    BY DEF MaySend, Runs
  <2>3. \A i \in Invoices, t \in Tiers : Warned(i, t)' <=> Warned(i, t)
    BY DEF Warned, history
  <2> QED
    <3> SUFFICES ASSUME NEW i \in Invoices, NEW t \in Tiers, Warned(i, t)'
                 PROVE  /\ t \in row'[i].notified \/ \E q \in Slots : <<i, t>> \in Unflagged(q)'
                        /\ \A q \in Slots : ~MaySend(q, i, t)'
      BY DEF WarnedOnce
    <3>1. /\ t \in row[i].notified \/ \E q \in Slots : <<i, t>> \in Unflagged(q)
          /\ \A q \in Slots : ~MaySend(q, i, t)
      BY <2>3 DEF IInv, WarnedOnce
    <3> QED
      BY <1>1, <2>1, <2>2, <3>1
<1>5. RecordedIsSent' /\ RepeatsAreExcused'
  BY <1>1 DEF IInv, RecordedIsSent, RepeatsAreExcused, history
<1> QED
  BY <1>2, <1>3, <1>4, <1>5 DEF IInv

-----------------------------------------------------------------------------
(* What follows                                                            *)

LEMMA Starts == Init => IInv
<1> SUFFICES ASSUME Init PROVE IInv
  OBVIOUS
<1>1. /\ row = [i \in Invoices |-> [uploaded |-> FALSE, notified |-> {}]]
      /\ ~prepared /\ ~audited /\ body = [p \in Slots |-> Free]
      /\ sent = [warnings |-> {}, preparation |-> FALSE] /\ repeated = {}
  BY DEF Init
<1>2. prepared \in BOOLEAN /\ audited \in BOOLEAN
  BY DEF Init
<1>3. TypeInv
  BY <1>1, <1>2 DEF TypeInv
<1>4. BodiesOK
  BY <1>1 DEF BodiesOK
<1>5. RecordedIsSent /\ RepeatsAreExcused
  BY <1>1 DEF RecordedIsSent, RepeatsAreExcused
<1>6. WarnedOnce
  BY <1>1 DEF WarnedOnce, Warned
<1> QED
  BY <1>3, <1>4, <1>5, <1>6 DEF IInv

LEMMA Inductive == IInv /\ [Next]_vars => IInv'
<1> SUFFICES ASSUME IInv, [Next]_vars PROVE IInv'
  OBVIOUS
<1>1. ASSUME NEW p \in Slots, Run(p) PROVE IInv'
  <2>1. Probe(p) => UNCHANGED <<row, prepared, audited, body, history>>
    BY DEF Probe, tables
  <2> QED
    BY <1>1, <2>1, NextItemKeeps, IssueKeeps, PerformKeeps, ElsewhereKeeps, DeliverKeeps, MailFailsKeeps
       DEF Run
<1>2. ASSUME NEW i \in Invoices, Upload(i) PROVE IInv'
  <2>1. UNCHANGED <<prepared, audited, body, history>>
    BY <1>2 DEF Upload
  <2> QED
    BY <1>2, <2>1, ElsewhereKeeps
<1>3. CASE Tick \/ UNCHANGED vars
  <2>1. UNCHANGED <<row, prepared, audited, body, history>>
    BY <1>3 DEF Tick, vars, tables
  <2> QED
    BY <2>1, ElsewhereKeeps
<1> QED
  BY <1>1, <1>2, <1>3, BeginsKeep, DeliverKeeps, StatementFailsKeeps, AbandonKeeps, CrashKeeps DEF Next

LEMMA Invariance == Spec => []IInv
BY Starts, Inductive, PTL DEF Spec

\* Whatever fails, is abandoned or dies, and however bodies of worker and portal
\* overlap: a flag stands for a mail that went out, and a success in the audit
\* log for a stored preparation that was mailed (email.ts:101-102).
THEOREM RecordsAreTrue == Spec => []RecordedIsSent
<1>1. IInv => RecordedIsSent
  BY DEF IInv
<1> QED
  BY <1>1, Invariance, PTL

\* For any number of overlapping bodies a warning is repeated only where the
\* flag of the first, or the answer to it, was lost with a fault, or another body had read the row
\* before it was set (offline24.ts:65-67).
THEOREM RepeatsNeedExcuse == Spec => []RepeatsAreExcused
<1>1. IInv => RepeatsAreExcused
  BY DEF IInv
<1> QED
  BY <1>1, Invariance, PTL
=============================================================================
