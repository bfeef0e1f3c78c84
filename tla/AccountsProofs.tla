----------------------------- MODULE AccountsProofs -----------------------------
(***************************************************************************)
(* Proofs about Accounts, for any number of members, requests at a time,   *)
(* portals, links and plans.  The invariant has three parts besides the    *)
(* types: of the verification link, of passwords and cookies, and of what  *)
(* a request may still hold when the firm or its team lost access.         *)
(***************************************************************************)
EXTENDS Accounts, TLAPS
-----------------------------------------------------------------------------
(* The inductive invariants                                                *)

Resets == {None} \cup {Hash(l) : l \in Links} \cup {Raw(l) : l \in Links}
AccountType == [exists : BOOLEAN, password : Nat, version : Nat, reset : Resets]
FirmType == [active : BOOLEAN, email : Addresses \cup {None}, pending : Addresses \cup {None},
             verify : {None} \cup {Hash(l) : l \in Links}, verified : BOOLEAN]
Entries == [active : BOOLEAN, team : BOOLEAN, since : Nat]

\* A request, by the statement it executes next.
Checks == [at : {"selected", "known"}, session : Sessions, copy : Copies, access : Entries, began : Nat]
Grants == [at : {"granted"}, session : Sessions, copy : Copies]
SigningIn == [at : {"signing"}, session : Sessions]
Changes == [at : {"hashing", "stored"}, account : Accounts, copy : Copies, reset : BOOLEAN, password : Nat]
Issuing == [at : {"issuing", "unmailed"}, to : Addresses \cup {None}, change : BOOLEAN]
Opened == [at : {"opened"}, link : Links, change : BOOLEAN, copy : Copies]
Joining == [at : {"joining", "joined"}, link : Links]
Ending == [at : {"moved"}, copy : Copies] \cup [at : {"changed"}, copies : SUBSET Copies]
RequestType == {Idle} \cup Checks \cup Grants \cup SigningIn \cup Changes
               \cup Issuing \cup Opened \cup Joining \cup Ending

TypeInv ==
    /\ proc \in [Procs -> RequestType] /\ firm \in FirmType /\ account \in [Accounts -> AccountType]
    /\ sessions \subseteq Sessions /\ cache \in [Copies -> Entries \cup {None}] /\ now \in 0..MaxTime
    /\ answered \in [Accounts -> Nat] /\ lost \in [active : 0..Never, team : 0..Never]
    /\ clicked \in [Links -> Nat] /\ DOMAIN link = Links

\* The stored token is that of a link that was sent and not used; one that was
\* used, was sent.
LinkInv == \A l \in Links :
    /\ firm.verify = Hash(l) => link[l] # Unsent /\ clicked[l] = 0
    /\ clicked[l] > 0 => link[l] # Unsent
    /\ clicked[l] <= 1

\* The cookies that were issued, or will be by a request under way.
SigningNow == {p \in Procs : proc[p].at = "signing"}
Cookies == sessions \cup {proc[p].session : p \in SigningNow}

\* No cookie is ahead of its account, and that of a sign-in is either revoked
\* or as new as the last change that was answered.
CookieOK(s) ==
    /\ s.version <= account[s.account].version /\ s.password <= account[s.account].password
    /\ s.signIn /\ s.version = account[s.account].version => answered[s.account] <= s.password

\* No sign-in with an older password has the version a change handed out.
Handed(c, s) ==
    ~c.signIn /\ s.signIn /\ s.account = c.account /\ c.version <= s.version => c.password <= s.password

SessionInv ==
    /\ \A a \in Accounts : answered[a] <= account[a].password
    /\ \A p \in Procs : proc[p].at = "stored" => proc[p].password <= account[proc[p].account].password
    /\ \A s \in Cookies : CookieOK(s)
    /\ \A c, s \in Cookies : Handed(c, s)

\* What was read at a time was so then, or was lost less than slack before.
Known(access, time, slack) ==
    /\ access.active => time < lost.active + slack
    /\ access.team => time < lost.team + slack

CheckOK(p) ==
    /\ Checking(p) => proc[p].began <= now /\ now <= proc[p].began + Latency
    /\ proc[p].at = "selected" => Known(proc[p].access, proc[p].began, 1)
    /\ proc[p].at = "known" => Known(proc[p].access, proc[p].began, TTL + Latency)

AccessInv ==
    /\ firm.active => lost.active = Never
    /\ HasTeam => lost.team = Never
    /\ \A c \in Copies : cache[c] # None => /\ cache[c].since <= now
                                            /\ Known(cache[c], cache[c].since, Latency + 1)
    /\ \A p \in Procs : CheckOK(p)

IInv == TypeInv /\ LinkInv /\ SessionInv /\ AccessInv

-----------------------------------------------------------------------------
(* Types                                                                   *)

LEMMA Constants ==
    /\ Owner \in Accounts /\ Home \in Addresses /\ Latency \in Nat /\ MaxTime \in Nat /\ TTL \in Nat \ {0}
    /\ Never \in Nat /\ 0..MaxTime \subseteq 0..Never /\ Idle.at = "idle" /\ Idle \in RequestType
BY AccountsAssumption DEF Accounts, Never, Idle, RequestType

\* The statement a request is at tells its fields.
LEMMA Shapes ==
    ASSUME NEW r \in RequestType
    PROVE  /\ r.at \in {"selected", "known"} => r \in Checks
           /\ r.at = "granted" => r \in Grants
           /\ r.at = "signing" => r \in SigningIn
           /\ r.at \in {"hashing", "stored"} => r \in Changes
           /\ r.at \in {"issuing", "unmailed"} => r \in Issuing
           /\ r.at = "opened" => r \in Opened
           /\ r.at \in {"joining", "joined"} => r \in Joining
           /\ r.at \in {"moved", "changed"} => r \in Ending
<1>1. \A s \in Checks : s.at \in {"selected", "known"}
  BY DEF Checks
<1>2. \A s \in Grants : s.at = "granted"
  BY DEF Grants
<1>3. \A s \in SigningIn : s.at = "signing"
  BY DEF SigningIn
<1>4. \A s \in Changes : s.at \in {"hashing", "stored"}
  BY DEF Changes
<1>5. \A s \in Issuing : s.at \in {"issuing", "unmailed"}
  BY DEF Issuing
<1>6. \A s \in Opened : s.at = "opened"
  BY DEF Opened
<1>7. \A s \in Joining : s.at \in {"joining", "joined"}
  BY DEF Joining
<1>8. \A s \in Ending : s.at \in {"moved", "changed"}
  BY DEF Ending
<1> QED
  BY <1>1, <1>2, <1>3, <1>4, <1>5, <1>6, <1>7, <1>8, Constants DEF RequestType

\* One request goes on; what it changes keeps its type.
LEMMA TypesKeep ==
    ASSUME TypeInv, NEW p \in Procs, NEW new \in RequestType, proc' = [proc EXCEPT ![p] = new],
           firm' \in FirmType, account' \in [Accounts -> AccountType], sessions' \subseteq Sessions,
           cache' \in [Copies -> Entries \cup {None}], answered' \in [Accounts -> Nat],
           lost' \in [active : 0..Never, team : 0..Never], clicked' \in [Links -> Nat],
           DOMAIN link' = Links, now' = now
    PROVE  TypeInv' /\ proc'[p] = new /\ \A q \in Procs \ {p} : proc'[q] = proc[q]
<1>1. proc' \in [Procs -> RequestType] /\ proc'[p] = new /\ \A q \in Procs \ {p} : proc'[q] = proc[q]
  BY DEF TypeInv
<1> QED
  BY <1>1 DEF TypeInv

LEMMA CookieTyped ==
    ASSUME TypeInv, NEW a \in Accounts, NEW signIn \in BOOLEAN
    PROVE  /\ Cookie(a, signIn) \in Sessions /\ Cookie(a, signIn).account = a
           /\ Cookie(a, signIn).version = account[a].version
           /\ Cookie(a, signIn).password = account[a].password /\ Cookie(a, signIn).signIn = signIn
BY DEF TypeInv, AccountType, Cookie, Sessions

LEMMA CookiesTyped ==
    ASSUME TypeInv
    PROVE  Cookies \subseteq Sessions
<1>1. \A p \in SigningNow : proc[p].session \in Sessions
  BY Shapes DEF TypeInv, SigningNow, SigningIn
<1> QED
  BY <1>1 DEF Cookies, TypeInv

-----------------------------------------------------------------------------
(* What a step that is not about a part leaves of it                       *)

LEMMA LinkStands ==
    ASSUME LinkInv, firm'.verify = firm.verify, clicked' = clicked,
           \A l \in Links : link[l] # Unsent => link'[l] # Unsent
    PROVE  LinkInv'
BY DEF LinkInv

\* The cookies of a step of p.
LEMMA CookiesMove ==
    ASSUME TypeInv, NEW p \in Procs, NEW new \in RequestType, proc' = [proc EXCEPT ![p] = new],
           NEW fresh, sessions' \subseteq Cookies \cup fresh, new.at = "signing" => new.session \in fresh
    PROVE  Cookies' \subseteq Cookies \cup fresh
<1>1. proc'[p] = new /\ \A q \in Procs \ {p} : proc'[q] = proc[q]
  BY DEF TypeInv
<1>2. \A q \in SigningNow' : proc'[q].session \in Cookies \cup fresh
  BY <1>1 DEF SigningNow, Cookies
<1> QED
  BY <1>2 DEF Cookies

LEMMA SessionSteps ==
    ASSUME TypeInv, SessionInv, NEW p \in Procs, NEW new \in RequestType, proc' = [proc EXCEPT ![p] = new],
           NEW fresh, Cookies' \subseteq Cookies \cup fresh,
           \A a \in Accounts : /\ account[a].password <= account'[a].password
                               /\ answered'[a] <= account'[a].password,
           account' \in [Accounts -> AccountType],
           new.at = "stored" => new.password <= account'[new.account].password,
           \A s \in Cookies \cup fresh : CookieOK(s)',
           \A s \in fresh, c \in Cookies \cup fresh : Handed(c, s) /\ Handed(s, c)
    PROVE  SessionInv'
<1>1. proc'[p] = new /\ \A q \in Procs \ {p} : proc'[q] = proc[q]
  BY DEF TypeInv
<1>2. ASSUME NEW q \in Procs, proc'[q].at = "stored"
      PROVE  proc'[q].password <= account'[proc'[q].account].password
  <2>1. CASE q = p
    BY <1>1, <1>2, <2>1
  <2>2. CASE q # p
    <3>1. proc[q].at = "stored" /\ proc[q] \in Changes /\ proc'[q] = proc[q]
      BY <1>1, <1>2, <2>2, Shapes DEF TypeInv
    <3>2. proc[q].account \in Accounts /\ proc[q].password \in Nat
      BY <3>1 DEF Changes
    <3>3. proc[q].password <= account[proc[q].account].password
      BY <3>1 DEF SessionInv
    <3>4. account[proc[q].account].password \in Nat /\ account'[proc[q].account].password \in Nat
      BY <3>2 DEF TypeInv, AccountType
    <3>5. account[proc[q].account].password <= account'[proc[q].account].password
      BY <3>2
    <3> QED
      BY <3>1, <3>2, <3>3, <3>4, <3>5
  <2> QED
    BY <2>1, <2>2
<1>3. \A s \in Cookies' : CookieOK(s)'
  OBVIOUS
<1>4. \A c, s \in Cookies' : Handed(c, s)
  BY DEF SessionInv
<1> QED
  BY <1>2, <1>3, <1>4 DEF SessionInv

\* Cookies do not notice that their accounts change in other columns, or that a
\* password or a version is newer.
LEMMA CookieStands ==
    ASSUME TypeInv, TypeInv', SessionInv, NEW s \in Cookies, NEW a \in Accounts, a = s.account,
           account[a].password <= account'[a].password, account[a].version <= account'[a].version,
           answered'[a] = answered[a] \/ account[a].version < account'[a].version
    PROVE  CookieOK(s)'
<1>1. s \in Sessions /\ CookieOK(s)
  BY CookiesTyped DEF SessionInv
<1>2. s.version \in Nat /\ s.password \in Nat
  BY <1>1 DEF Sessions
<1>3. /\ account[a].version \in Nat /\ account'[a].version \in Nat
      /\ account[a].password \in Nat /\ account'[a].password \in Nat
  BY DEF TypeInv, AccountType
<1>4. s.version <= account[a].version /\ s.password <= account[a].password
  BY <1>1 DEF CookieOK
<1>5. s.version <= account'[a].version /\ s.password <= account'[a].password
  BY <1>2, <1>3, <1>4
<1>6. s.version = account'[a].version => answered'[a] = answered[a] /\ s.version = account[a].version
  BY <1>2, <1>3, <1>4
<1> QED
  BY <1>1, <1>5, <1>6 DEF CookieOK

LEMMA SessionStands ==
    ASSUME TypeInv, TypeInv', SessionInv, NEW p \in Procs, NEW new \in RequestType, proc' = [proc EXCEPT ![p] = new],
           new.at \notin {"signing", "stored"}, UNCHANGED <<sessions, answered>>,
           \A a \in Accounts : /\ account[a].password <= account'[a].password
                               /\ account[a].version <= account'[a].version
    PROVE  SessionInv'
<1>1. PICK fresh : fresh = {}
  OBVIOUS
<1>2. Cookies' \subseteq Cookies \cup fresh
  BY CookiesMove DEF Cookies
<1>3. ASSUME NEW s \in Cookies PROVE CookieOK(s)'
  <2>1. s.account \in Accounts
    BY CookiesTyped DEF Sessions
  <2> QED
    BY <2>1, CookieStands
<1>4. \A s \in Cookies \cup fresh : CookieOK(s)'
  BY <1>1, <1>3
<1>5. ASSUME NEW a \in Accounts PROVE answered'[a] <= account'[a].password
  <2>1. answered[a] \in Nat /\ account[a].password \in Nat /\ account'[a].password \in Nat
    BY DEF TypeInv, AccountType
  <2> QED
    BY <2>1 DEF SessionInv
<1>6. account' \in [Accounts -> AccountType]
  BY DEF TypeInv
<1>7. \A s \in fresh, c \in Cookies \cup fresh : Handed(c, s) /\ Handed(s, c)
  BY <1>1
<1> QED
  BY <1>2, <1>4, <1>5, <1>6, <1>7, SessionSteps

LEMMA AccessStands ==
    ASSUME TypeInv, AccessInv, NEW p \in Procs, NEW new \in RequestType, proc' = [proc EXCEPT ![p] = new],
           new.at \notin {"selected", "known"}, UNCHANGED <<now, lost, grant>>, firm'.active = firm.active,
           \A c \in Copies : cache'[c] = cache[c] \/ cache'[c] = None
    PROVE  AccessInv'
<1>1. proc'[p] = new /\ \A q \in Procs \ {p} : proc'[q] = proc[q]
  BY DEF TypeInv
<1>2. (firm.active => lost.active = Never)' /\ (HasTeam => lost.team = Never)'
  BY DEF AccessInv, HasTeam, Never
<1>3. ASSUME NEW c \in Copies
      PROVE  (cache[c] # None => cache[c].since <= now /\ Known(cache[c], cache[c].since, Latency + 1))'
  <2>1. CASE cache'[c] = cache[c]
    BY <2>1 DEF AccessInv, Known
  <2>2. CASE cache'[c] = None
    BY <2>2
  <2> QED
    BY <2>1, <2>2
<1>4. ASSUME NEW q \in Procs PROVE CheckOK(q)'
  <2>1. CASE q = p
    BY <1>1, <2>1 DEF CheckOK, Checking
  <2>2. CASE q # p
    BY <1>1, <2>2 DEF AccessInv, CheckOK, Checking, Known
  <2> QED
    BY <2>1, <2>2
<1> QED
  BY <1>2, <1>3, <1>4 DEF AccessInv

-----------------------------------------------------------------------------
(* The initial states                                                      *)

LEMMA Starts == Init => IInv
<1> SUFFICES ASSUME Init PROVE IInv
  OBVIOUS
<1>1. PICK team \in SUBSET Members :
          /\ account = [a \in Accounts |-> [exists |-> a \in {Owner} \cup team,
                            password |-> 0, version |-> 0, reset |-> None]]
          /\ sessions \in {{}, {Cookie(a, TRUE) : a \in team \cup (IF firm.verified THEN {Owner} ELSE {})}}
  BY DEF Init
<1>2. /\ firm \in [active : {TRUE}, email : {Home}, pending : {None}, verify : {None}, verified : BOOLEAN]
      /\ cache = [c \in Copies |-> None] /\ now = 0 /\ link = [l \in Links |-> Unsent]
      /\ proc = [p \in Procs |-> Idle] /\ answered = [a \in Accounts |-> 0]
      /\ lost = [active |-> Never, team |-> IF HasTeam THEN Never ELSE 0]
      /\ clicked = [l \in Links |-> 0]
  BY DEF Init
<1>3. firm \in FirmType /\ firm.verify = None
  BY <1>2, Constants DEF FirmType
<1>4. /\ account \in [Accounts -> AccountType]
      /\ \A a \in Accounts : account[a].password = 0 /\ account[a].version = 0
  BY <1>1 DEF AccountType, Resets
<1>5. \A s \in sessions : s \in Sessions /\ s.version = 0 /\ s.password = 0 /\ s.signIn = TRUE
  <2>1. \A a \in Accounts : /\ Cookie(a, TRUE) \in Sessions /\ Cookie(a, TRUE).version = 0
                            /\ Cookie(a, TRUE).password = 0 /\ Cookie(a, TRUE).signIn = TRUE
    BY <1>4 DEF Cookie, Sessions
  <2>2. team \cup (IF firm.verified THEN {Owner} ELSE {}) \subseteq Accounts
    BY Zenon DEF Accounts
  <2>3. \A s \in sessions : \E a \in Accounts : s = Cookie(a, TRUE)
    BY <1>1, <2>2
  <2> QED
    BY <2>1, <2>3
<1>6. TypeInv
  BY <1>2, <1>3, <1>4, <1>5, Constants DEF TypeInv
<1>7. LinkInv
  BY <1>2, <1>3, AccountsAssumption DEF LinkInv
<1>8. Cookies = sessions /\ \A p \in Procs : proc[p].at = "idle"
  BY <1>2, Constants DEF Cookies, SigningNow
<1>9. \A s \in sessions : CookieOK(s)
  BY <1>2, <1>4, <1>5 DEF CookieOK, Sessions
<1>10. \A c, s \in sessions : Handed(c, s)
  BY <1>5 DEF Handed
<1>11. \A a \in Accounts : answered[a] <= account[a].password
  BY <1>2, <1>4
<1>12. SessionInv
  BY <1>8, <1>9, <1>10, <1>11 DEF SessionInv
<1>13. (firm.active => lost.active = Never) /\ (HasTeam => lost.team = Never)
  BY <1>2
<1>14. AccessInv
  BY <1>2, <1>8, <1>13 DEF AccessInv, CheckOK, Checking
<1> QED
  BY <1>6, <1>7, <1>12, <1>14 DEF IInv

-----------------------------------------------------------------------------
(* Requests that neither sign in, nor store a password, nor check a cookie *)

\* Accounts change in other columns, or to newer versions and passwords.
AccountsGrow == \A a \in Accounts : /\ account[a].password <= account'[a].password
                                    /\ account[a].version <= account'[a].version

LEMMA OtherStep ==
    ASSUME IInv, NEW p \in Procs, NEW new \in RequestType, proc' = [proc EXCEPT ![p] = new],
           new.at \notin {"signing", "stored", "selected", "known"},
           firm' \in FirmType, firm'.active = firm.active,
           account' \in [Accounts -> AccountType], AccountsGrow,
           UNCHANGED <<sessions, now, answered, lost, grant>>,
           cache' \in [Copies -> Entries \cup {None}], \A c \in Copies : cache'[c] = cache[c] \/ cache'[c] = None,
           clicked' \in [Links -> Nat], DOMAIN link' = Links, LinkInv'
    PROVE  IInv'
<1>1. TypeInv'
  BY TypesKeep DEF IInv, TypeInv
<1>2. SessionInv'
  BY <1>1, SessionStands DEF IInv, AccountsGrow
<1>3. AccessInv'
  BY AccessStands DEF IInv
<1> QED
  BY <1>1, <1>2, <1>3 DEF IInv

LEMMA AccountsStand == TypeInv /\ account' = account => AccountsGrow
BY DEF TypeInv, AccountType, AccountsGrow

LEMMA QuietStep ==
    ASSUME IInv, NEW p \in Procs, NEW new \in RequestType, proc' = [proc EXCEPT ![p] = new],
           new.at \notin {"signing", "stored", "selected", "known"},
           UNCHANGED <<firm, account, sessions, cache, link, now, answered, lost, clicked, grant>>
    PROVE  IInv'
<1>1. LinkInv'
  BY LinkStands DEF IInv
<1>2. AccountsGrow
  BY AccountsStand DEF IInv
<1> QED
  BY <1>1, <1>2, OtherStep DEF IInv, TypeInv

LEMMA QuietRequests ==
    ASSUME IInv, NEW p \in Procs,
           \/ Authorize(p) \/ Browse(p) \/ ChangePassword(p) \/ OpenResetLink(p) \/ Resend(p)
           \/ OpenVerifyLink(p) \/ OpenInvitation(p) \/ CloseInvitation(p) \/ Abandon(p)
    PROVE  IInv'
<1>1. UNCHANGED <<firm, account, sessions, cache, link, now, answered, lost, clicked, grant>>
  BY DEF Authorize, Browse, ChangePassword, OpenResetLink, Resend, OpenVerifyLink, OpenInvitation, CloseInvitation,
     Abandon, subscriptionVars, columns, firmVars, historyVars
<1>2. proc[p] \in RequestType
  BY DEF IInv, TypeInv
<1>3. CASE proc' = [proc EXCEPT ![p] = Idle]
  BY <1>1, <1>3, Constants, QuietStep
<1>4. CASE Authorize(p) /\ proc' # [proc EXCEPT ![p] = Idle]
  <2>1. PICK new : new = [at |-> "granted", session |-> proc[p].session, copy |-> proc[p].copy]
    OBVIOUS
  <2>2. proc' = [proc EXCEPT ![p] = new] /\ proc[p] \in Checks
    BY <1>2, <1>4, <2>1, Shapes DEF Authorize, Goto
  <2>3. new \in RequestType /\ new.at = "granted"
    BY <2>1, <2>2 DEF RequestType, Grants, Checks
  <2> QED
    BY <1>1, <2>2, <2>3, QuietStep
<1>5. CASE ChangePassword(p)
  <2>1. PICK new : new = [at |-> "hashing", account |-> proc[p].session.account, copy |-> proc[p].copy,
                          reset |-> FALSE, password |-> 0]
    OBVIOUS
  <2>2. proc' = [proc EXCEPT ![p] = new] /\ proc[p] \in Grants
    BY <1>2, <1>5, <2>1, Shapes DEF ChangePassword, Goto, Caller, Granted
  <2>3. proc[p].session.account \in Accounts /\ proc[p].copy \in Copies
    BY <2>2 DEF Grants, Sessions
  <2>4. new \in RequestType /\ new.at = "hashing"
    BY <2>1, <2>3 DEF RequestType, Changes
  <2> QED
    BY <1>1, <2>2, <2>4, QuietStep
<1>6. CASE OpenResetLink(p)
  <2>1. PICK a \in Accounts, c \in Copies :
            proc' = [proc EXCEPT ![p] = [at |-> "hashing", account |-> a, copy |-> c, reset |-> TRUE, password |-> 0]]
    BY <1>6 DEF OpenResetLink, Begin
  <2>2. PICK new : new = [at |-> "hashing", account |-> a, copy |-> c, reset |-> TRUE, password |-> 0]
    OBVIOUS
  <2>3. new \in RequestType /\ new.at = "hashing"
    BY <2>2 DEF RequestType, Changes
  <2> QED
    BY <1>1, <2>1, <2>2, <2>3, QuietStep
<1>7. CASE Resend(p)
  <2>1. PICK new : new = [at |-> "issuing", to |-> firm.email, change |-> FALSE]
    OBVIOUS
  <2>2. new \in RequestType /\ new.at = "issuing"
    BY <2>1 DEF IInv, TypeInv, FirmType, RequestType, Issuing
  <2> QED
    BY <1>1, <1>7, <2>1, <2>2, QuietStep DEF Resend, Begin
<1>8. CASE OpenVerifyLink(p)
  <2>1. PICK l \in Links, c \in Copies :
            proc' = [proc EXCEPT ![p] = [at |-> "opened", link |-> l, change |-> firm.pending # None, copy |-> c]]
    BY <1>8 DEF OpenVerifyLink, Begin
  <2>2. PICK new : new = [at |-> "opened", link |-> l, change |-> firm.pending # None, copy |-> c]
    OBVIOUS
  <2>3. new \in RequestType /\ new.at = "opened"
    BY <2>2 DEF RequestType, Opened
  <2> QED
    BY <1>1, <2>1, <2>2, <2>3, QuietStep
<1>9. CASE OpenInvitation(p)
  <2>1. PICK l \in Links : proc' = [proc EXCEPT ![p] = [at |-> "joining", link |-> l]]
    BY <1>9 DEF OpenInvitation, Begin
  <2>2. PICK new : new = [at |-> "joining", link |-> l]
    OBVIOUS
  <2>3. new \in RequestType /\ new.at = "joining"
    BY <2>2 DEF RequestType, Joining
  <2> QED
    BY <1>1, <2>1, <2>2, <2>3, QuietStep
<1> QED
  BY <1>3, <1>4, <1>5, <1>6, <1>7, <1>8, <1>9 DEF Browse, CloseInvitation, Abandon, Goto

\* A link is sent once.
LEMMA LinksGrow ==
    ASSUME TypeInv, NEW l \in Links, NEW use, NewLink(l, use), use # Unsent
    PROVE  /\ link[l] = Unsent /\ link'[l] # Unsent /\ DOMAIN link' = Links
           /\ \A k \in Links : link[k] # Unsent => link'[k] # Unsent
BY DEF TypeInv, NewLink

LEMMA LinkUses ==
    /\ \A a : [kind |-> "reset", account |-> a] # Unsent
    /\ \A x : [kind |-> "verify", to |-> x] # Unsent
    /\ [kind |-> "invite"] # Unsent
<1>1. Unsent.kind = "unsent"
  BY DEF Unsent
<1>2. \A a : [kind |-> "reset", account |-> a].kind = "reset"
  OBVIOUS
<1>3. \A x : [kind |-> "verify", to |-> x].kind = "verify"
  OBVIOUS
<1>4. [kind |-> "invite"].kind = "invite"
  OBVIOUS
<1> QED
  BY <1>1, <1>2, <1>3, <1>4

\* A reset is asked for, by the owner or a member, or with recover-admin.mjs.
LEMMA ResetRequests ==
    ASSUME IInv, NEW p \in Procs, (\E a \in Accounts : ForgotPassword(p, a)) \/ RecoverAdmin(p)
    PROVE  IInv'
<1>1. PICK a \in Accounts, l \in Links, reset \in Resets :
          /\ NewLink(l, [kind |-> "reset", account |-> a]) /\ account' = [account EXCEPT ![a].reset = reset]
          /\ proc' = [proc EXCEPT ![p] = Idle]
          /\ UNCHANGED <<firm, sessions, cache, now, answered, lost, clicked, grant>>
  <2>1. CASE RecoverAdmin(p)
    <3>1. Owner \in Accounts /\ \A l \in Links : Raw(l) \in Resets
      BY Constants DEF Resets
    <3> QED
      BY <2>1, <3>1 DEF RecoverAdmin, Begin, subscriptionVars, columns, historyVars
  <2>2. CASE \E a \in Accounts : ForgotPassword(p, a)
    <3>1. \A l \in Links : Hash(l) \in Resets
      BY DEF Resets
    <3> QED
      BY <2>2, <3>1 DEF ForgotPassword, Begin, subscriptionVars, columns, historyVars
  <2> QED
    BY <2>1, <2>2
<1>2. account' \in [Accounts -> AccountType] /\ AccountsGrow
  <2>1. PICK old, new : old = account[a] /\ new = [old EXCEPT !.reset = reset]
    OBVIOUS
  <2>2. account' = [account EXCEPT ![a] = new]
    BY <1>1, <2>1
  <2>3. old \in AccountType /\ new \in AccountType /\ new.password = old.password /\ new.version = old.version
    BY <2>1 DEF IInv, TypeInv, AccountType
  <2>4. \A b \in Accounts : account[b].password \in Nat /\ account[b].version \in Nat
    BY DEF IInv, TypeInv, AccountType
  <2> QED
    BY <2>1, <2>2, <2>3, <2>4 DEF IInv, TypeInv, AccountsGrow
<1>3. DOMAIN link' = Links /\ \A k \in Links : link[k] # Unsent => link'[k] # Unsent
  BY <1>1, LinkUses, LinksGrow DEF IInv
<1>4. LinkInv'
  BY <1>1, <1>3, LinkStands DEF IInv
<1> QED
  BY <1>1, <1>2, <1>3, <1>4, Constants, OtherStep DEF IInv, TypeInv

LEMMA ChangeEmailKeeps ==
    ASSUME IInv, NEW p \in Procs, ChangeEmail(p)
    PROVE  IInv'
<1>1. PICK x \in Addresses : firm' = [firm EXCEPT !.pending = x]
                             /\ proc' = [proc EXCEPT ![p] = [at |-> "issuing", to |-> x, change |-> TRUE]]
  BY DEF ChangeEmail, Goto
<1>2. PICK new : new = [at |-> "issuing", to |-> x, change |-> TRUE]
  OBVIOUS
<1>3. new \in RequestType /\ new.at = "issuing"
  BY <1>2 DEF RequestType, Issuing
<1>4. UNCHANGED <<account, sessions, cache, link, now, answered, lost, clicked, grant>>
  BY DEF ChangeEmail, subscriptionVars, columns, historyVars
<1>5. firm' \in FirmType /\ firm'.active = firm.active /\ firm'.verify = firm.verify
  BY <1>1 DEF IInv, TypeInv, FirmType
<1>6. LinkInv' /\ AccountsGrow
  BY <1>4, <1>5, LinkStands, AccountsStand DEF IInv
<1> QED
  BY <1>1, <1>2, <1>3, <1>4, <1>5, <1>6, OtherStep DEF IInv, TypeInv

LEMMA IssueLinkKeeps ==
    ASSUME IInv, NEW p \in Procs, IssueLink(p)
    PROVE  IInv'
<1>1. PICK l \in Links : NewLink(l, [kind |-> "verify", to |-> proc[p].to]) /\ firm' = [firm EXCEPT !.verify = Hash(l)]
  BY DEF IssueLink
<1>2. UNCHANGED <<account, sessions, cache, now, answered, lost, clicked, grant>>
  BY DEF IssueLink, subscriptionVars, columns, historyVars
<1>3. firm' \in FirmType /\ firm'.active = firm.active /\ firm'.verify = Hash(l)
  BY <1>1 DEF IInv, TypeInv, FirmType
<1>4. /\ link[l] = Unsent /\ link'[l] # Unsent /\ DOMAIN link' = Links
      /\ \A k \in Links : link[k] # Unsent => link'[k] # Unsent
  BY <1>1, LinkUses, LinksGrow DEF IInv
<1>5. clicked[l] = 0
  BY <1>4 DEF IInv, LinkInv, TypeInv
<1>6. \A k \in Links : Hash(k) = Hash(l) => k = l
  BY DEF Hash
<1>7. LinkInv'
  BY <1>2, <1>3, <1>4, <1>5, <1>6 DEF IInv, LinkInv
<1>8. AccountsGrow
  BY <1>2, AccountsStand DEF IInv
<1>9. PICK old, mailed : old = proc[p] /\ mailed = [old EXCEPT !.at = "unmailed"]
  OBVIOUS
<1>10. old \in Issuing
  BY <1>9, Shapes DEF IInv, TypeInv, IssueLink
<1>11. mailed \in RequestType /\ mailed.at = "unmailed"
  BY <1>9, <1>10 DEF RequestType, Issuing
<1>12. proc' = [proc EXCEPT ![p] = Idle] \/ proc' = [proc EXCEPT ![p] = mailed]
  BY <1>9 DEF IssueLink, Proceed, Goto
<1> QED
  BY <1>2, <1>3, <1>4, <1>7, <1>8, <1>11, <1>12, Constants, OtherStep DEF IInv, TypeInv

\* The stored token is dropped, without effect.
LEMMA TokenDropped ==
    ASSUME IInv, NEW p \in Procs, WithdrawEmail(p) \/ AddressTaken(p)
    PROVE  IInv'
<1>1. /\ firm' = firm \/ firm' = [firm EXCEPT !.pending = None, !.verify = None]
      /\ proc' = [proc EXCEPT ![p] = Idle]
      /\ UNCHANGED <<account, sessions, cache, link, now, answered, lost, clicked, grant>>
  BY Zenon DEF WithdrawEmail, AddressTaken, Goto, subscriptionVars, columns, historyVars
<1>2. firm' \in FirmType /\ firm'.active = firm.active /\ (firm'.verify = firm.verify \/ firm'.verify = None)
  BY <1>1 DEF IInv, TypeInv, FirmType
<1>3. LinkInv'
  BY <1>1, <1>2, AccountsAssumption DEF IInv, LinkInv
<1>4. AccountsGrow
  BY <1>1, AccountsStand DEF IInv
<1> QED
  BY <1>1, <1>2, <1>3, <1>4, Constants, OtherStep DEF IInv, TypeInv

LEMMA VerifyEmailKeeps ==
    ASSUME IInv, NEW p \in Procs, VerifyEmail(p)
    PROVE  IInv'
<1>1. UNCHANGED <<account, sessions, cache, link, now, answered, lost, grant>>
  BY DEF VerifyEmail, subscriptionVars, columns
<1>2. AccountsGrow
  BY <1>1, AccountsStand DEF IInv
<1>3. PICK l : l = proc[p].link
  OBVIOUS
<1>4. l \in Links /\ proc[p].copy \in Copies
  BY <1>3, Shapes DEF IInv, TypeInv, VerifyEmail, Opened
<1>5. CASE ~StillOpen(l)
  <2>1. proc' = [proc EXCEPT ![p] = Idle] /\ UNCHANGED <<firm, clicked>>
    BY <1>3, <1>5 DEF VerifyEmail, Goto
  <2> QED
    BY <1>1, <2>1, Constants, QuietStep
<1>6. CASE StillOpen(l)
  <2>1. PICK moved : moved = [at |-> "moved", copy |-> proc[p].copy]
    OBVIOUS
  <2>2. /\ clicked' = [clicked EXCEPT ![l] = @ + 1]
        /\ \/ firm' = [firm EXCEPT !.email = firm.pending, !.pending = None, !.verify = None, !.verified = TRUE]
           \/ firm' = [firm EXCEPT !.verify = None, !.verified = TRUE]
        /\ proc' = [proc EXCEPT ![p] = moved] \/ proc' = [proc EXCEPT ![p] = Idle]
    BY <1>3, <1>6, <2>1, Zenon DEF VerifyEmail, Goto
  <2>3. moved \in RequestType /\ moved.at = "moved"
    BY <1>4, <2>1 DEF RequestType, Ending
  <2>4. firm' \in FirmType /\ firm'.active = firm.active /\ firm'.verify = None
    BY <2>2 DEF IInv, TypeInv, FirmType
  <2>5. link[l] # Unsent /\ clicked[l] = 0
    BY <1>4, <1>6 DEF StillOpen, IInv, LinkInv
  <2>6. /\ clicked' \in [Links -> Nat] /\ clicked'[l] = 1
        /\ \A k \in Links \ {l} : clicked'[k] = clicked[k]
    BY <1>4, <2>2, <2>5 DEF IInv, TypeInv
  <2>7. LinkInv'
    BY <1>1, <2>4, <2>5, <2>6, AccountsAssumption DEF IInv, LinkInv
  <2> QED
    BY <1>1, <1>2, <2>2, <2>3, <2>4, <2>6, <2>7, Constants, OtherStep DEF IInv, TypeInv
<1> QED
  BY <1>5, <1>6

LEMMA EndOwnerSessionsKeeps ==
    ASSUME IInv, NEW p \in Procs, EndOwnerSessions(p)
    PROVE  IInv'
<1>1. PICK old, new, c : old = account[Owner] /\ new = [old EXCEPT !.version = old.version + 1] /\ c = proc[p].copy
  OBVIOUS
<1>2. /\ account' = [account EXCEPT ![Owner] = new] /\ cache' = [cache EXCEPT ![c] = None]
      /\ proc' = [proc EXCEPT ![p] = Idle] /\ UNCHANGED <<firm, sessions, link, now, answered, lost, clicked, grant>>
  BY <1>1 DEF EndOwnerSessions, Goto, subscriptionVars, columns, historyVars
<1>3. /\ old \in AccountType /\ new \in AccountType /\ new.password = old.password /\ new.version = old.version + 1
      /\ old.version \in Nat /\ old.password \in Nat
  BY <1>1, Constants DEF IInv, TypeInv, AccountType
<1>4. \A b \in Accounts : account[b].password \in Nat /\ account[b].version \in Nat
  BY DEF IInv, TypeInv, AccountType
<1>5. account' \in [Accounts -> AccountType] /\ AccountsGrow
  BY <1>1, <1>2, <1>3, <1>4, Constants DEF IInv, TypeInv, AccountsGrow
<1>6. cache' \in [Copies -> Entries \cup {None}] /\ \A k \in Copies : cache'[k] = cache[k] \/ cache'[k] = None
  BY <1>2 DEF IInv, TypeInv
<1>7. LinkInv'
  BY <1>2, LinkStands DEF IInv
<1> QED
  BY <1>2, <1>5, <1>6, <1>7, Constants, OtherStep DEF IInv, TypeInv

LEMMA InviteKeeps ==
    ASSUME IInv, NEW p \in Procs, Invite(p)
    PROVE  IInv'
<1>1. PICK l \in Links : NewLink(l, [kind |-> "invite"])
  BY DEF Invite
<1>2. /\ proc' = [proc EXCEPT ![p] = Idle]
      /\ UNCHANGED <<firm, account, sessions, cache, now, answered, lost, clicked, grant>>
  BY DEF Invite, Goto, subscriptionVars, columns, historyVars
<1>3. DOMAIN link' = Links /\ \A k \in Links : link[k] # Unsent => link'[k] # Unsent
  BY <1>1, LinkUses, LinksGrow DEF IInv
<1>4. LinkInv' /\ AccountsGrow
  BY <1>2, <1>3, LinkStands, AccountsStand DEF IInv
<1> QED
  BY <1>2, <1>3, <1>4, Constants, OtherStep DEF IInv, TypeInv

LEMMA JoinKeeps ==
    ASSUME IInv, NEW p \in Procs, Join(p)
    PROVE  IInv'
<1>1. PICK m \in Members : account' = [account EXCEPT ![m].exists = TRUE, ![m].password = @ + 1]
  BY DEF Join
<1>2. UNCHANGED <<firm, sessions, cache, link, now, answered, lost, clicked, grant>>
  BY DEF Join, subscriptionVars, columns, historyVars
<1>3. PICK old, there : old = account[m] /\ there = [old EXCEPT !.exists = TRUE]
  OBVIOUS
<1>4. m \in Accounts /\ old \in AccountType
  BY <1>3 DEF Accounts, IInv, TypeInv
<1>5. there \in AccountType /\ there.password = old.password /\ there.version = old.version
  BY <1>3, <1>4 DEF AccountType
<1>6. PICK new, accounts : /\ new = [there EXCEPT !.password = there.password + 1]
                           /\ accounts = [account EXCEPT ![m] = there]
  OBVIOUS
<1>7. /\ new \in AccountType /\ new.password = old.password + 1 /\ new.version = old.version
      /\ old.password \in Nat /\ old.version \in Nat
  BY <1>4, <1>5, <1>6 DEF AccountType
<1>8. /\ accounts \in [Accounts -> AccountType] /\ accounts[m] = there
      /\ \A b \in Accounts \ {m} : accounts[b] = account[b]
  BY <1>4, <1>5, <1>6 DEF IInv, TypeInv
<1>9. account' = [accounts EXCEPT ![m] = new]
  <2>1. account' = [accounts EXCEPT ![m] = [accounts[m] EXCEPT !.password = @ + 1]]
    BY <1>1, <1>3, <1>6, Zenon
  <2> QED
    BY <1>6, <1>8, <2>1
<1>10. account' \in [Accounts -> AccountType] /\ AccountsGrow
  <2>1. \A b \in Accounts : account[b].password \in Nat /\ account[b].version \in Nat
    BY DEF IInv, TypeInv, AccountType
  <2>2. /\ account' \in [Accounts -> AccountType] /\ account'[m] = new
        /\ \A b \in Accounts \ {m} : account'[b] = account[b]
    BY <1>4, <1>7, <1>8, <1>9
  <2> QED
    BY <1>3, <1>4, <1>7, <2>1, <2>2 DEF AccountsGrow
<1>11. PICK run, next : run = proc[p] /\ next = [run EXCEPT !.at = "joined"]
  OBVIOUS
<1>12. run \in Joining /\ proc' = [proc EXCEPT ![p] = next]
  BY <1>11, Shapes DEF IInv, TypeInv, Join, Proceed, Goto
<1>13. next \in RequestType /\ next.at = "joined"
  BY <1>11, <1>12 DEF RequestType, Joining
<1>14. LinkInv'
  BY <1>2, LinkStands DEF IInv
<1> QED
  BY <1>2, <1>10, <1>12, <1>13, <1>14, OtherStep DEF IInv, TypeInv

LEMMA RemoveMemberKeeps ==
    ASSUME IInv, NEW p \in Procs, RemoveMember(p)
    PROVE  IInv'
<1>1. PICK m \in Members : account' = [account EXCEPT ![m].exists = FALSE, ![m].reset = None]
  BY DEF RemoveMember
<1>2. /\ proc' = [proc EXCEPT ![p] = Idle]
      /\ UNCHANGED <<firm, sessions, cache, link, now, answered, lost, clicked, grant>>
  BY DEF RemoveMember, Goto, subscriptionVars, columns, historyVars
<1>3. PICK old, new : old = account[m] /\ new = [old EXCEPT !.exists = FALSE, !.reset = None]
  OBVIOUS
<1>4. m \in Accounts
  BY DEF Accounts
<1>5. account' = [account EXCEPT ![m] = new]
  BY <1>1, <1>3, <1>4 DEF IInv, TypeInv, AccountType
<1>6. new \in AccountType /\ new.password = old.password /\ new.version = old.version
  BY <1>3, <1>4 DEF IInv, TypeInv, AccountType, Resets
<1>7. \A b \in Accounts : account[b].password \in Nat /\ account[b].version \in Nat
  BY DEF IInv, TypeInv, AccountType
<1>8. account' \in [Accounts -> AccountType] /\ AccountsGrow
  BY <1>3, <1>4, <1>5, <1>6, <1>7 DEF IInv, TypeInv, AccountsGrow
<1>9. LinkInv'
  BY <1>2, LinkStands DEF IInv
<1> QED
  BY <1>2, <1>8, <1>9, Constants, OtherStep DEF IInv, TypeInv

LEMMA InvalidateKeeps ==
    ASSUME IInv, NEW p \in Procs, Invalidate(p)
    PROVE  IInv'
<1>1. /\ cache' = [c \in Copies |-> IF c \in proc[p].copies THEN None ELSE cache[c]]
      /\ proc' = [proc EXCEPT ![p] = Idle]
      /\ UNCHANGED <<firm, account, sessions, link, now, answered, lost, clicked, grant>>
  BY DEF Invalidate, Goto, subscriptionVars, columns, historyVars
<1>2. cache' \in [Copies -> Entries \cup {None}] /\ \A c \in Copies : cache'[c] = cache[c] \/ cache'[c] = None
  BY <1>1 DEF IInv, TypeInv
<1>3. LinkInv' /\ AccountsGrow
  BY <1>1, LinkStands, AccountsStand DEF IInv
<1> QED
  BY <1>1, <1>2, <1>3, Constants, OtherStep DEF IInv, TypeInv

-----------------------------------------------------------------------------
(* Sign-in and passwords                                                   *)

\* Cookies under way when an answered change, or none, moves the history.
LEMMA SignInKeeps ==
    ASSUME IInv, NEW p \in Procs, NEW a \in Accounts, SignIn(p, a)
    PROVE  IInv'
<1>1. PICK s, new : s = Cookie(a, TRUE) /\ new = [at |-> "signing", session |-> s]
  OBVIOUS
<1>2. /\ proc' = [proc EXCEPT ![p] = new]
      /\ UNCHANGED <<firm, account, sessions, cache, link, now, answered, lost, clicked, grant>>
  BY <1>1 DEF SignIn, Begin, subscriptionVars, columns, firmVars, historyVars
<1>3. /\ s \in Sessions /\ s.account = a /\ s.signIn
      /\ s.version = account[a].version /\ s.password = account[a].password
  BY <1>1, CookieTyped DEF IInv
<1>4. new \in RequestType /\ new.at = "signing" /\ new.session = s
  BY <1>1, <1>3 DEF RequestType, SigningIn
<1>5. TypeInv'
  BY <1>2, <1>4, TypesKeep DEF IInv, TypeInv
<1>6. PICK fresh : fresh = {s}
  OBVIOUS
<1>7. Cookies' \subseteq Cookies \cup fresh
  BY <1>2, <1>4, <1>6, CookiesMove DEF IInv, Cookies
<1>8. AccountsGrow /\ LinkInv' /\ \A b \in Accounts : answered'[b] <= account'[b].password
  BY <1>2, AccountsStand, LinkStands DEF IInv, SessionInv
<1>9. CookieOK(s)'
  BY <1>2, <1>3, <1>5 DEF CookieOK, IInv, SessionInv, TypeInv, AccountType
<1>10. \A c \in Cookies : CookieOK(c)'
  BY <1>2 DEF CookieOK, IInv, SessionInv
<1>11. ASSUME NEW c \in Cookies PROVE Handed(c, s)
  <2>1. c.account = a => c.password <= account[a].password
    BY <1>11 DEF IInv, SessionInv, CookieOK
  <2> QED
    BY <1>3, <2>1 DEF Handed
<1>12. \A c \in Cookies \cup fresh : Handed(s, c)
  BY <1>3 DEF Handed
<1>13. SessionInv'
  <2>1. \A c \in Cookies \cup fresh : CookieOK(c)'
    BY <1>6, <1>9, <1>10
  <2>2. \A t \in fresh, c \in Cookies \cup fresh : Handed(c, t) /\ Handed(t, c)
    BY <1>6, <1>11, <1>12
  <2> QED
    BY <1>2, <1>4, <1>7, <1>8, <2>1, <2>2, SessionSteps DEF IInv, TypeInv, AccountsGrow
<1>14. AccessInv'
  BY <1>2, <1>4, AccessStands DEF IInv
<1> QED
  BY <1>5, <1>8, <1>13, <1>14 DEF IInv

LEMMA AnswerTyped ==
    ASSUME TypeInv, NEW a \in Accounts, NEW n \in Nat, Answer(a, n)
    PROVE  /\ answered' \in [Accounts -> Nat] /\ answered'[a] \in {answered[a], n}
           /\ \A b \in Accounts \ {a} : answered'[b] = answered[b]
BY DEF Answer, TypeInv

LEMMA CreateSessionKeeps ==
    ASSUME IInv, NEW p \in Procs, CreateSession(p)
    PROVE  IInv'
<1>1. PICK s, a, n : s = proc[p].session /\ a = s.account /\ n = s.password
  OBVIOUS
<1>2. /\ proc[p].at = "signing" /\ proc' = [proc EXCEPT ![p] = Idle] /\ sessions' = sessions \cup {s}
      /\ UNCHANGED <<firm, account, cache, link, now, lost, clicked, grant>>
      /\ IF s.signIn THEN UNCHANGED answered ELSE Answer(a, n)
  BY <1>1 DEF CreateSession, Goto, subscriptionVars, columns
<1>3. s \in Cookies /\ s \in Sessions /\ CookieOK(s)
  BY <1>1, <1>2, CookiesTyped DEF Cookies, SigningNow, IInv, SessionInv
<1>4. a \in Accounts /\ n \in Nat /\ s.version \in Nat /\ s.version <= account[a].version /\ n <= account[a].password
  BY <1>1, <1>3 DEF Sessions, CookieOK
<1>5. /\ answered' \in [Accounts -> Nat] /\ (answered'[a] = answered[a] \/ (answered'[a] = n /\ ~s.signIn))
      /\ \A b \in Accounts \ {a} : answered'[b] = answered[b]
  <2>1. CASE s.signIn
    BY <1>2, <2>1 DEF IInv, TypeInv
  <2>2. CASE ~s.signIn
    BY <1>2, <1>4, <2>2, AnswerTyped DEF IInv
  <2> QED
    BY <2>1, <2>2
<1>6. sessions' \subseteq Sessions
  BY <1>2, <1>3 DEF IInv, TypeInv
<1>7. TypeInv'
  BY <1>2, <1>5, <1>6, Constants, TypesKeep DEF IInv, TypeInv
<1>8. PICK fresh : fresh = {}
  OBVIOUS
<1>9. Cookies' \subseteq Cookies \cup fresh
  <2>1. sessions' \subseteq Cookies \cup fresh
    BY <1>2, <1>3 DEF Cookies
  <2> QED
    BY <1>2, <2>1, Constants, CookiesMove DEF IInv
<1>10. AccountsGrow /\ LinkInv'
  BY <1>2, AccountsStand, LinkStands DEF IInv
<1>11. ASSUME NEW b \in Accounts PROVE answered'[b] <= account'[b].password
  BY <1>2, <1>4, <1>5 DEF IInv, SessionInv
<1>12. ASSUME NEW c \in Cookies PROVE CookieOK(c)'
  <2>1. c \in Sessions /\ CookieOK(c) /\ Handed(s, c)
    BY <1>3, CookiesTyped DEF IInv, SessionInv
  <2>2. c.account \in Accounts /\ c.version \in Nat /\ c.password \in Nat
    BY <2>1 DEF Sessions
  <2>3. CASE answered'[c.account] = answered[c.account]
    BY <1>2, <2>1, <2>3 DEF CookieOK
  <2>4. CASE c.account = a /\ answered'[a] = n /\ ~s.signIn
    <3>1. c.signIn /\ c.version = account[a].version => n <= c.password
      BY <1>1, <1>4, <2>1, <2>4 DEF Handed
    <3> QED
      BY <1>2, <2>1, <2>4, <3>1 DEF CookieOK
  <2> QED
    BY <1>5, <2>2, <2>3, <2>4
<1>13. \A c \in Cookies \cup fresh : CookieOK(c)'
  BY <1>8, <1>12
<1>14. \A t \in fresh, c \in Cookies \cup fresh : Handed(c, t) /\ Handed(t, c)
  BY <1>8
<1>15. SessionInv'
  BY <1>2, <1>7, <1>9, <1>10, <1>11, <1>13, <1>14, Constants, SessionSteps DEF IInv, TypeInv, AccountsGrow
<1>16. AccessInv'
  BY <1>2, Constants, AccessStands DEF IInv
<1> QED
  BY <1>7, <1>10, <1>15, <1>16 DEF IInv

LEMMA StorePasswordKeeps ==
    ASSUME IInv, NEW p \in Procs, StorePassword(p)
    PROVE  IInv'
<1>1. PICK run, a, old : run = proc[p] /\ a = run.account /\ old = account[a]
  OBVIOUS
<1>2. /\ run \in Changes /\ a \in Accounts /\ old \in AccountType /\ old.password \in Nat
  <2>1. run \in Changes
    BY <1>1, Shapes DEF IInv, TypeInv, StorePassword
  <2>2. a \in Accounts
    BY <1>1, <2>1 DEF Changes
  <2> QED
    BY <1>1, <2>1, <2>2 DEF IInv, TypeInv, AccountType
<1>3. PICK stored : stored = [old EXCEPT !.password = old.password + 1]
  OBVIOUS
<1>4. stored \in AccountType /\ stored.password = old.password + 1 /\ stored.version = old.version
  BY <1>2, <1>3 DEF AccountType
<1>5. PICK reset, new :
          /\ reset \in {None, stored.reset} /\ new = [stored EXCEPT !.reset = reset]
          /\ account' = [[account EXCEPT ![a] = stored] EXCEPT ![a] = new]
  <2>1. PICK reset : reset = IF run.reset THEN None ELSE stored.reset
    OBVIOUS
  <2>2. reset \in {None, stored.reset}
    BY <2>1, Zenon
  <2>3. PICK accounts : accounts = [account EXCEPT ![a] = stored]
    OBVIOUS
  <2>4. accounts[a] = stored
    BY <1>2, <2>3 DEF IInv, TypeInv
  <2>5. account' = [accounts EXCEPT ![a].reset = IF run.reset THEN None ELSE @]
    BY <1>1, <1>3, <2>3, Zenon DEF StorePassword
  <2>6. account' = [accounts EXCEPT ![a] = [accounts[a] EXCEPT !.reset = IF run.reset THEN None ELSE @]]
    BY <2>5, Zenon
  <2>7. account' = [accounts EXCEPT ![a] = [stored EXCEPT !.reset = reset]]
    BY <2>1, <2>4, <2>6, Zenon
  <2> QED
    BY <2>2, <2>3, <2>7
<1>6. new \in AccountType /\ new.password = old.password + 1 /\ new.version = old.version
  BY <1>4, <1>5 DEF AccountType, Resets
<1>7. /\ account' \in [Accounts -> AccountType] /\ account'[a] = new
      /\ \A b \in Accounts \ {a} : account'[b] = account[b]
  BY <1>2, <1>4, <1>5, <1>6 DEF IInv, TypeInv
<1>8. PICK n, at, next : /\ n = old.password + 1 /\ at = [run EXCEPT !.at = "stored"]
                         /\ next = [at EXCEPT !.password = n]
  OBVIOUS
<1>9. /\ proc' = [proc EXCEPT ![p] = next]
      /\ UNCHANGED <<sessions, cache, link, now, answered, lost, clicked, grant>>
  BY <1>1, <1>8, Zenon DEF StorePassword, Goto, subscriptionVars, columns, historyVars
<1>10. /\ next \in RequestType /\ next.at = "stored" /\ next.account = a /\ next.password = n
  <2>1. at \in Changes /\ at.at = "stored" /\ at.account = run.account
    BY <1>2, <1>8 DEF Changes
  <2>2. n \in Nat /\ next = [at EXCEPT !.password = n]
    BY <1>2, <1>8
  <2>3. next \in Changes /\ next.at = "stored" /\ next.account = run.account /\ next.password = n
    BY <2>1, <2>2 DEF Changes
  <2> QED
    BY <1>1, <2>3 DEF RequestType
<1>11. firm' \in FirmType /\ firm'.active = firm.active /\ firm'.verify = firm.verify
  <2>1. PICK verified \in BOOLEAN : firm' = [firm EXCEPT !.verified = verified]
    BY Zenon DEF StorePassword
  <2> QED
    BY <2>1 DEF IInv, TypeInv, FirmType
<1>12. AccountsGrow
  <2>1. \A b \in Accounts : account[b].password \in Nat /\ account[b].version \in Nat
    BY DEF IInv, TypeInv, AccountType
  <2> QED
    BY <1>1, <1>6, <1>7, <2>1 DEF AccountsGrow
<1>13. TypeInv' /\ LinkInv'
  BY <1>7, <1>9, <1>10, <1>11, TypesKeep, LinkStands DEF IInv, TypeInv
<1>14. PICK fresh : fresh = {}
  OBVIOUS
<1>15. Cookies' \subseteq Cookies \cup fresh
  BY <1>9, <1>10, CookiesMove DEF IInv, Cookies
<1>16. ASSUME NEW s \in Cookies PROVE CookieOK(s)'
  <2>1. s.account \in Accounts
    BY CookiesTyped DEF IInv, Sessions
  <2> QED
    BY <1>9, <1>12, <1>13, <2>1, CookieStands DEF IInv, AccountsGrow
<1>17. \A s \in Cookies \cup fresh : CookieOK(s)'
  BY <1>14, <1>16
<1>18. \A s \in fresh, c \in Cookies \cup fresh : Handed(c, s) /\ Handed(s, c)
  BY <1>14
<1>19. ASSUME NEW b \in Accounts PROVE answered'[b] <= account'[b].password
  <2>1. answered[b] \in Nat /\ account[b].password \in Nat /\ account'[b].password \in Nat
    BY <1>13 DEF IInv, TypeInv, AccountType
  <2> QED
    BY <1>9, <1>12, <2>1 DEF IInv, SessionInv, AccountsGrow
<1>20. next.password <= account'[next.account].password
  BY <1>2, <1>6, <1>7, <1>8, <1>10
<1>21. SessionInv'
  BY <1>7, <1>9, <1>10, <1>12, <1>15, <1>17, <1>18, <1>19, <1>20, SessionSteps DEF IInv, AccountsGrow
<1>22. AccessInv'
  BY <1>9, <1>10, <1>11, AccessStands DEF IInv
<1> QED
  BY <1>13, <1>21, <1>22 DEF IInv

\* The sessions of an account end: what is handed out has a version of its own.
LEMMA RevokeSessionsKeeps ==
    ASSUME IInv, NEW p \in Procs, RevokeSessions(p)
    PROVE  IInv'
<1>1. PICK run, a, n, old, new :
          /\ run = proc[p] /\ a = run.account /\ n = run.password /\ old = account[a]
          /\ new = [old EXCEPT !.version = old.version + 1]
  OBVIOUS
<1>2. run \in Changes /\ a \in Accounts /\ n \in Nat /\ n <= old.password
  <2>1. run \in Changes
    BY <1>1, Shapes DEF IInv, TypeInv, RevokeSessions
  <2>2. n <= old.password
    BY <1>1 DEF IInv, SessionInv, RevokeSessions
  <2> QED
    BY <1>1, <2>1, <2>2 DEF Changes
<1>3. /\ old \in AccountType /\ old.version \in Nat /\ old.password \in Nat
      /\ new \in AccountType /\ new.version = old.version + 1 /\ new.password = old.password
  BY <1>1, <1>2 DEF IInv, TypeInv, AccountType
<1>4. /\ account' = [account EXCEPT ![a] = new] /\ cache' = [cache EXCEPT ![run.copy] = None]
      /\ UNCHANGED <<firm, sessions, link, now, lost, clicked, grant>>
  BY <1>1 DEF RevokeSessions, subscriptionVars, columns
<1>5. /\ account' \in [Accounts -> AccountType] /\ account'[a] = new
      /\ \A b \in Accounts \ {a} : account'[b] = account[b]
  BY <1>2, <1>3, <1>4 DEF IInv, TypeInv
<1>6. AccountsGrow
  <2>1. \A b \in Accounts : account[b].password \in Nat /\ account[b].version \in Nat
    BY DEF IInv, TypeInv, AccountType
  <2>2. old = account[a]
    BY <1>1
  <2>3. account[a].version <= account'[a].version /\ account[a].password <= account'[a].password
    BY <1>3, <1>5, <2>2
  <2>4. \A b \in Accounts \ {a} : /\ account[b].version <= account'[b].version
                                  /\ account[b].password <= account'[b].password
    BY <1>5, <2>1
  <2> QED
    BY <2>3, <2>4 DEF AccountsGrow
<1>7. cache' \in [Copies -> Entries \cup {None}] /\ \A c \in Copies : cache'[c] = cache[c] \/ cache'[c] = None
  BY <1>4 DEF IInv, TypeInv
<1>8. PICK s, signing :
          /\ s = [account |-> a, version |-> old.version + 1, password |-> n, signIn |-> FALSE]
          /\ signing = [at |-> "signing", session |-> s]
  OBVIOUS
<1>9. /\ s \in Sessions /\ s.account = a /\ s.version = old.version + 1 /\ s.password = n /\ ~s.signIn
  BY <1>2, <1>3, <1>8 DEF Sessions
<1>10. signing \in RequestType /\ signing.at = "signing" /\ signing.session = s
  BY <1>8, <1>9 DEF RequestType, SigningIn
<1>11. PICK next \in {Idle, signing} : proc' = [proc EXCEPT ![p] = next]
  BY <1>1, <1>8 DEF RevokeSessions, Goto
<1>12. /\ answered' \in [Accounts -> Nat] /\ answered'[a] \in {answered[a], n}
       /\ \A b \in Accounts \ {a} : answered'[b] = answered[b]
  BY <1>1, <1>2, AnswerTyped DEF RevokeSessions, IInv, TypeInv
<1>13. next \in RequestType /\ next.at \in {"idle", "signing"} /\ (next.at = "signing" => next.session = s)
  BY <1>10, <1>11, Constants
<1>14. TypeInv' /\ LinkInv'
  BY <1>4, <1>5, <1>7, <1>11, <1>12, <1>13, TypesKeep, LinkStands DEF IInv, TypeInv
<1>15. PICK fresh : fresh = {s}
  OBVIOUS
<1>16. Cookies' \subseteq Cookies \cup fresh
  BY <1>4, <1>11, <1>13, <1>15, CookiesMove DEF IInv, Cookies
<1>17. ASSUME NEW c \in Cookies PROVE CookieOK(c)'
  <2>1. c.account \in Accounts
    BY CookiesTyped DEF IInv, Sessions
  <2>2. c.account = a \/ answered'[c.account] = answered[c.account]
    BY <1>12, <2>1
  <2>3. account[a].version < account'[a].version
    BY <1>1, <1>3, <1>5
  <2> QED
    BY <1>6, <1>14, <2>1, <2>2, <2>3, CookieStands DEF IInv, AccountsGrow
<1>18. CookieOK(s)'
  BY <1>2, <1>3, <1>5, <1>9 DEF CookieOK
<1>19. ASSUME NEW c \in Cookies PROVE Handed(s, c)
  <2>1. c \in Sessions /\ CookieOK(c)
    BY CookiesTyped DEF IInv, SessionInv
  <2>2. c.account = a => c.version <= old.version /\ c.version \in Nat
    BY <1>1, <2>1 DEF Sessions, CookieOK
  <2> QED
    BY <1>3, <1>9, <2>2 DEF Handed
<1>20. \A c \in Cookies \cup fresh : Handed(c, s)
  BY <1>9 DEF Handed
<1>21. ASSUME NEW b \in Accounts PROVE answered'[b] <= account'[b].password
  <2>1. answered[b] <= account[b].password /\ old = account[a]
    BY <1>1 DEF IInv, SessionInv
  <2>2. CASE b = a
    BY <1>2, <1>3, <1>5, <1>12, <2>1, <2>2
  <2>3. CASE b # a
    BY <1>5, <1>12, <2>1, <2>3
  <2> QED
    BY <2>2, <2>3
<1>22. SessionInv'
  <2>1. \A c \in Cookies \cup fresh : CookieOK(c)'
    BY <1>15, <1>17, <1>18
  <2>2. \A t \in fresh, c \in Cookies \cup fresh : Handed(c, t) /\ Handed(t, c)
    BY <1>15, <1>19, <1>20
  <2> QED
    BY <1>5, <1>6, <1>11, <1>13, <1>16, <1>21, <2>1, <2>2, SessionSteps DEF IInv, AccountsGrow
<1>23. AccessInv'
  BY <1>4, <1>7, <1>11, <1>13, AccessStands DEF IInv
<1> QED
  BY <1>14, <1>22, <1>23 DEF IInv

-----------------------------------------------------------------------------
(* The check of a cookie, and the end of access                            *)

\* A request that checks a cookie: the other parts stand.
LEMMA CheckStep ==
    ASSUME IInv, NEW p \in Procs, NEW new \in Checks, proc' = [proc EXCEPT ![p] = new],
           UNCHANGED <<firm, account, sessions, link, now, answered, lost, clicked, grant>>,
           cache' \in [Copies -> Entries \cup {None}], CheckOK(p)',
           \A c \in Copies : (cache[c] # None => cache[c].since <= now /\ Known(cache[c], cache[c].since, Latency + 1))'
    PROVE  IInv'
<1>1. new \in RequestType /\ new.at \notin {"signing", "stored"}
  BY DEF RequestType, Checks
<1>2. TypeInv' /\ \A q \in Procs \ {p} : proc'[q] = proc[q]
  BY <1>1, TypesKeep DEF IInv, TypeInv
<1>3. AccountsGrow /\ LinkInv'
  BY AccountsStand, LinkStands DEF IInv
<1>4. SessionInv'
  BY <1>1, <1>2, <1>3, SessionStands DEF IInv, AccountsGrow
<1>5. \A q \in Procs \ {p} : CheckOK(q)'
  BY <1>2 DEF IInv, AccessInv, CheckOK, Checking, Known
<1>6. (firm.active => lost.active = Never)' /\ (HasTeam => lost.team = Never)'
  BY DEF IInv, AccessInv, HasTeam, Never
<1>7. AccessInv'
  BY <1>5, <1>6 DEF AccessInv
<1> QED
  BY <1>2, <1>3, <1>4, <1>7 DEF IInv

LEMMA OpenRequestKeeps ==
    ASSUME IInv, NEW p \in Procs, OpenRequest(p)
    PROVE  IInv'
<1>1. PICK s \in sessions, c \in Copies :
          proc' = [proc EXCEPT ![p] =
                    [at |-> IF IsHit(c) THEN "known" ELSE "selected", session |-> s, copy |-> c,
                     access |-> IF IsHit(c) THEN cache[c] ELSE Entry, began |-> now]]
  BY DEF OpenRequest, Begin
<1>2. PICK at, access, new :
          /\ at = IF IsHit(c) THEN "known" ELSE "selected"
          /\ access = IF IsHit(c) THEN cache[c] ELSE Entry
          /\ new = [at |-> at, session |-> s, copy |-> c, access |-> access, began |-> now]
  OBVIOUS
<1>3. proc' = [proc EXCEPT ![p] = new]
  BY <1>1, <1>2, Zenon
<1>4. UNCHANGED <<firm, account, sessions, cache, link, now, answered, lost, clicked, grant>>
  BY DEF OpenRequest, subscriptionVars, columns, firmVars, historyVars
<1>5. s \in Sessions /\ now \in Nat /\ now <= MaxTime /\ MaxTime \in Nat
  BY Constants DEF IInv, TypeInv
<1>6. Entry \in Entries
  BY <1>5 DEF Entry, Entries, IInv, TypeInv, FirmType, HasTeam
<1>7. /\ cache' \in [Copies -> Entries \cup {None}]
      /\ \A k \in Copies : (cache[k] # None => cache[k].since <= now /\ Known(cache[k], cache[k].since, Latency + 1))'
  BY <1>4 DEF IInv, TypeInv, AccessInv, Known
<1>8. CASE IsHit(c)
  <2>1. /\ at = "known" /\ access = cache[c] /\ cache[c] # None /\ now - cache[c].since < TTL /\ access \in Entries
    BY <1>2, <1>8 DEF IsHit, IInv, TypeInv
  <2>2. new \in Checks /\ new.at = "known" /\ new.access = access /\ new.began = now
    BY <1>2, <1>5, <2>1 DEF Checks
  <2>3. Known(access, access.since, Latency + 1)
    BY <2>1 DEF IInv, AccessInv
  <2>4. Known(access, now, TTL + Latency)
    <3>1. /\ access.since \in Nat /\ lost.active \in Nat /\ lost.team \in Nat
          /\ Never \in Nat /\ Latency \in Nat /\ TTL \in Nat
      BY <2>1, Constants DEF Entries, IInv, TypeInv
    <3>2. \A x \in Nat : access.since < x + (Latency + 1) => now < x + (TTL + Latency)
      BY <1>5, <2>1, <3>1
    <3> QED
      BY <2>3, <3>1, <3>2 DEF Known
  <2>5. CheckOK(p)'
    BY <1>3, <1>4, <1>5, <2>2, <2>4, Constants DEF CheckOK, Checking, Known, IInv, TypeInv
  <2> QED
    BY <1>3, <1>4, <1>7, <2>2, <2>5, CheckStep
<1>9. CASE ~IsHit(c)
  <2>1. at = "selected" /\ access = Entry
    BY <1>2, <1>9
  <2>2. new \in Checks /\ new.at = "selected" /\ new.access = access /\ new.began = now
    BY <1>2, <1>5, <1>6, <2>1 DEF Checks
  <2>3. Known(access, now, 1)
    <3>1. (access.active <=> firm.active) /\ (access.team <=> HasTeam)
      BY <2>1 DEF Entry
    <3> QED
      BY <1>5, <3>1, Constants DEF Known, IInv, AccessInv, Never
  <2>4. CheckOK(p)'
    BY <1>3, <1>4, <1>5, <2>2, <2>3, Constants DEF CheckOK, Checking, Known, IInv, TypeInv
  <2> QED
    BY <1>3, <1>4, <1>7, <2>2, <2>4, CheckStep
<1> QED
  BY <1>8, <1>9

LEMMA FillCacheKeeps ==
    ASSUME IInv, NEW p \in Procs, FillCache(p)
    PROVE  IInv'
<1>1. PICK run, access, entry, new :
          /\ run = proc[p] /\ access = run.access /\ entry = [access EXCEPT !.since = now]
          /\ new = [run EXCEPT !.at = "known"]
  OBVIOUS
<1>2. /\ run.at = "selected" /\ proc' = [proc EXCEPT ![p] = new] /\ cache' = [cache EXCEPT ![run.copy] = entry]
      /\ UNCHANGED <<firm, account, sessions, link, now, answered, lost, clicked, grant>>
  BY <1>1 DEF FillCache, Proceed, Goto, subscriptionVars, columns, historyVars
<1>3. run \in Checks
  BY <1>1, <1>2, Shapes DEF IInv, TypeInv
<1>4. access \in Entries /\ run.began \in Nat /\ now \in Nat /\ Latency \in Nat /\ TTL \in Nat \ {0}
  BY <1>1, <1>3, Constants DEF Checks, IInv, TypeInv
<1>5. entry \in Entries /\ entry.since = now /\ entry.active = access.active /\ entry.team = access.team
  BY <1>1, <1>4 DEF Entries
<1>6. new \in Checks /\ new.at = "known" /\ new.access = access /\ new.began = run.began
  BY <1>1, <1>3 DEF Checks
<1>7. run.began <= now /\ now <= run.began + Latency /\ Known(access, run.began, 1)
  BY <1>1, <1>2 DEF IInv, AccessInv, CheckOK, Checking
<1>8. lost.active \in Nat /\ lost.team \in Nat
  BY Constants DEF IInv, TypeInv
<1>9. Known(entry, now, Latency + 1) /\ Known(access, run.began, TTL + Latency)
  <2>1. \A x \in Nat : run.began < x + 1 => now < x + (Latency + 1) /\ run.began < x + (TTL + Latency)
    BY <1>4, <1>7
  <2> QED
    BY <1>5, <1>7, <1>8, <2>1 DEF Known
<1>10. cache' \in [Copies -> Entries \cup {None}]
  BY <1>2, <1>5 DEF IInv, TypeInv
<1>11. ASSUME NEW c \in Copies
       PROVE  (cache[c] # None => cache[c].since <= now /\ Known(cache[c], cache[c].since, Latency + 1))'
  <2>1. CASE cache'[c] = cache[c]
    BY <1>2, <2>1 DEF IInv, AccessInv, Known
  <2>2. CASE cache'[c] = entry
    BY <1>2, <1>4, <1>5, <1>9, <2>2 DEF Known
  <2> QED
    BY <1>2, <2>1, <2>2 DEF IInv, TypeInv
<1>12. proc'[p] = new
  BY <1>2 DEF IInv, TypeInv
<1>13. CheckOK(p)'
  BY <1>2, <1>6, <1>7, <1>9, <1>12 DEF CheckOK, Checking, Known
<1> QED
  BY <1>2, <1>6, <1>10, <1>11, <1>13, CheckStep

\* What was known stays known when access is lost now, or is got back.
LEMMA LostMoves ==
    ASSUME TypeInv, AccessInv, NEW p \in Procs, NEW new \in RequestType, proc' = [proc EXCEPT ![p] = new],
           new.at \notin {"selected", "known"}, UNCHANGED <<now, cache>>,
           lost' \in [active : 0..Never, team : 0..Never],
           lost'.active = lost.active \/ now <= lost'.active, lost'.team = lost.team \/ now <= lost'.team,
           firm'.active => lost'.active = Never, HasTeam' => lost'.team = Never
    PROVE  AccessInv'
<1>1. proc'[p] = new /\ \A q \in Procs \ {p} : proc'[q] = proc[q]
  BY DEF TypeInv
<1>2. now \in Nat /\ lost.active \in Nat /\ lost.team \in Nat /\ lost'.active \in Nat /\ lost'.team \in Nat
  BY Constants DEF TypeInv
<1>3. ASSUME NEW access, NEW time \in Nat, NEW slack \in Nat \ {0}, time <= now, Known(access, time, slack)
      PROVE  Known(access, time, slack)'
  <2>1. \A x \in Nat : now <= x => time < x + slack
    BY <1>2, <1>3
  <2> QED
    BY <1>2, <1>3, <2>1 DEF Known
<1>4. Latency + 1 \in Nat \ {0} /\ TTL + Latency \in Nat \ {0}
  BY Constants
<1>5. ASSUME NEW c \in Copies
      PROVE  (cache[c] # None => cache[c].since <= now /\ Known(cache[c], cache[c].since, Latency + 1))'
  <2>1. SUFFICES ASSUME cache[c] # None
                 PROVE  (cache[c].since <= now /\ Known(cache[c], cache[c].since, Latency + 1))'
    OBVIOUS
  <2>2. cache[c].since \in Nat /\ cache[c].since <= now /\ Known(cache[c], cache[c].since, Latency + 1)
    BY <2>1 DEF AccessInv, TypeInv, Entries
  <2>3. PICK access, time : access = cache[c] /\ time = cache[c].since
    OBVIOUS
  <2>4. Known(access, time, Latency + 1)'
    BY <1>3, <1>4, <2>2, <2>3
  <2> QED
    BY <2>2, <2>3, <2>4 DEF Known
<1>6. ASSUME NEW q \in Procs PROVE CheckOK(q)'
  <2>1. CASE q = p
    BY <1>1, <2>1 DEF CheckOK, Checking
  <2>2. CASE q # p
    <3>1. proc'[q] = proc[q] /\ CheckOK(q)
      BY <1>1, <2>2 DEF AccessInv
    <3>2. CASE Checking(q)
      <4>1. proc[q].began \in Nat /\ proc[q].began <= now
        BY <3>1, <3>2, Shapes DEF TypeInv, CheckOK, Checking, Checks
      <4>2. PICK access, time : access = proc[q].access /\ time = proc[q].began
        OBVIOUS
      <4>3. /\ Known(access, time, 1) => Known(access, time, 1)'
            /\ Known(access, time, TTL + Latency) => Known(access, time, TTL + Latency)'
        BY <1>3, <1>4, <4>1, <4>2
      <4> QED
        BY <3>1, <4>2, <4>3 DEF CheckOK, Checking, Known
    <3>3. CASE ~Checking(q)
      BY <3>1, <3>3 DEF CheckOK, Checking
    <3> QED
      BY <3>2, <3>3
  <2> QED
    BY <2>1, <2>2
<1> QED
  BY <1>5, <1>6 DEF AccessInv

\* The firm is deactivated, or its plan changes.
LEMMA LossStep ==
    ASSUME IInv, NEW p \in Procs, NEW new \in RequestType, proc' = [proc EXCEPT ![p] = new], new.at = "changed",
           firm' \in FirmType, firm'.verify = firm.verify,
           UNCHANGED <<account, sessions, cache, link, now, answered, clicked>>,
           lost' \in [active : 0..Never, team : 0..Never],
           lost'.active = lost.active \/ now <= lost'.active, lost'.team = lost.team \/ now <= lost'.team,
           firm'.active => lost'.active = Never, HasTeam' => lost'.team = Never
    PROVE  IInv'
<1>1. TypeInv'
  BY TypesKeep DEF IInv, TypeInv
<1>2. LinkInv' /\ AccountsGrow
  BY LinkStands, AccountsStand DEF IInv
<1>3. SessionInv'
  BY <1>1, <1>2, SessionStands DEF IInv, AccountsGrow
<1>4. AccessInv'
  BY LostMoves DEF IInv
<1> QED
  BY <1>1, <1>2, <1>3, <1>4 DEF IInv

LEMMA DeactivateKeeps ==
    ASSUME IInv, NEW p \in Procs, Deactivate(p)
    PROVE  IInv'
<1>1. PICK new : new = [at |-> "changed", copies |-> {proc[p].copy}]
  OBVIOUS
<1>2. PICK time : time = IF firm.active THEN now ELSE lost.active
  OBVIOUS
<1>3. /\ proc[p].at = "granted" /\ proc' = [proc EXCEPT ![p] = new] /\ firm' = [firm EXCEPT !.active = FALSE]
      /\ lost' = [lost EXCEPT !.active = time]
      /\ UNCHANGED <<account, sessions, cache, link, now, answered, clicked, grant>>
  BY <1>1, <1>2 DEF Deactivate, Granted, Goto, subscriptionVars, columns
<1>4. proc[p].copy \in Copies
  BY <1>3, Shapes DEF IInv, TypeInv, Grants
<1>5. new \in RequestType /\ new.at = "changed"
  BY <1>1, <1>4 DEF RequestType, Ending
<1>6. firm' \in FirmType /\ firm'.verify = firm.verify /\ firm'.active = FALSE
  BY <1>3 DEF IInv, TypeInv, FirmType
<1>7. time \in 0..Never /\ (time = lost.active \/ time = now) /\ now \in Nat
  BY <1>2, Constants DEF IInv, TypeInv
<1>8. lost' \in [active : 0..Never, team : 0..Never] /\ lost'.active = time /\ lost'.team = lost.team
  BY <1>3, <1>7 DEF IInv, TypeInv
<1>9. HasTeam' => lost'.team = Never
  BY <1>3, <1>8 DEF HasTeam, Never, IInv, AccessInv
<1>10. lost'.active = lost.active \/ now <= lost'.active
  BY <1>7, <1>8
<1> QED
  BY <1>3, <1>5, <1>6, <1>8, <1>9, <1>10, LossStep

LEMMA DeliverKeeps ==
    ASSUME IInv, NEW p \in Procs, Deliver(p)
    PROVE  IInv'
<1>1. PICK c \in Copies : proc' = [proc EXCEPT ![p] = [at |-> "changed", copies |-> {c}]]
  BY DEF Deliver, Begin
<1>2. PICK new, time :
          /\ new = [at |-> "changed", copies |-> {c}]
          /\ time = IF HasTeam' THEN Never ELSE IF HasTeam THEN now ELSE lost.team
  OBVIOUS
<1>3. lost' = [lost EXCEPT !.team = time] /\ UNCHANGED <<firm, account, sessions, cache, link, now, answered, clicked>>
  BY <1>2 DEF Deliver, firmVars
<1>4. new \in RequestType /\ new.at = "changed"
  BY <1>2 DEF RequestType, Ending
<1>5. time \in 0..Never /\ (time = lost.team \/ now <= time) /\ (HasTeam' => time = Never)
  BY <1>2, Constants DEF IInv, TypeInv
<1>6. lost' \in [active : 0..Never, team : 0..Never] /\ lost'.active = lost.active /\ lost'.team = time
  BY <1>3, <1>5 DEF IInv, TypeInv
<1>7. firm'.active => lost'.active = Never
  BY <1>3, <1>6 DEF IInv, AccessInv
<1>8. HasTeam' => lost'.team = Never
  BY <1>5, <1>6
<1> QED
  BY <1>1, <1>2, <1>3, <1>4, <1>5, <1>6, <1>7, <1>8, LossStep DEF IInv, TypeInv

-----------------------------------------------------------------------------
(* Steps of no request                                                     *)

LEMMA OthersStand ==
    ASSUME IInv, UNCHANGED <<proc, firm, account, sessions, link, answered, lost, clicked, grant>>,
           cache' \in [Copies -> Entries \cup {None}], now' \in 0..MaxTime
    PROVE  /\ TypeInv' /\ LinkInv' /\ SessionInv'
           /\ (firm.active => lost.active = Never)' /\ (HasTeam => lost.team = Never)'
<1>1. TypeInv' /\ LinkInv'
  BY DEF IInv, TypeInv, LinkInv
<1>2. SessionInv'
  BY DEF IInv, SessionInv, Cookies, SigningNow, CookieOK
<1>3. (firm.active => lost.active = Never)' /\ (HasTeam => lost.team = Never)'
  BY DEF IInv, AccessInv, HasTeam, Never
<1> QED
  BY <1>1, <1>2, <1>3

LEMMA AloneKeeps ==
    ASSUME IInv, UNCHANGED <<proc, firm, account, sessions, cache, link, now, answered, lost, clicked, grant>>
    PROVE  IInv'
<1>1. TypeInv' /\ LinkInv' /\ SessionInv' /\ (firm.active => lost.active = Never)' /\ (HasTeam => lost.team = Never)'
  BY OthersStand DEF IInv, TypeInv
<1>2. AccessInv'
  BY <1>1 DEF IInv, AccessInv, CheckOK, Checking, Known
<1> QED
  BY <1>1, <1>2 DEF IInv

LEMMA StripeKeepsGrant == StripeStep => UNCHANGED grant
BY DEF StripeStep, Checkout, Change, End, columns

LEMMA RestartKeeps ==
    ASSUME IInv, Restart
    PROVE  IInv'
<1>1. /\ cache' = [c \in Copies |-> None]
      /\ UNCHANGED <<proc, firm, account, sessions, link, now, answered, lost, clicked, grant>>
  BY DEF Restart, subscriptionVars, columns, historyVars
<1>2. TypeInv' /\ LinkInv' /\ SessionInv' /\ (firm.active => lost.active = Never)' /\ (HasTeam => lost.team = Never)'
  BY <1>1, OthersStand DEF IInv, TypeInv
<1>3. \A q \in Procs : CheckOK(q)'
  BY <1>1 DEF IInv, AccessInv, CheckOK, Checking, Known
<1> QED
  BY <1>1, <1>2, <1>3 DEF IInv, AccessInv

LEMMA TickKeeps ==
    ASSUME IInv, Tick
    PROVE  IInv'
<1>1. /\ now < MaxTime /\ now' = now + 1 /\ \A p \in Procs : Checking(p) => now - proc[p].began < Latency
      /\ UNCHANGED <<proc, firm, account, sessions, cache, link, answered, lost, clicked, grant>>
  BY DEF Tick, subscriptionVars, columns, firmVars, historyVars
<1>2. now \in Nat /\ now' \in 0..MaxTime /\ Latency \in Nat
  BY <1>1, Constants DEF IInv, TypeInv
<1>3. TypeInv' /\ LinkInv' /\ SessionInv' /\ (firm.active => lost.active = Never)' /\ (HasTeam => lost.team = Never)'
  BY <1>1, <1>2, OthersStand DEF IInv, TypeInv
<1>4. ASSUME NEW c \in Copies
      PROVE  (cache[c] # None => cache[c].since <= now /\ Known(cache[c], cache[c].since, Latency + 1))'
  <2>1. cache[c] # None => cache[c].since \in Nat
    BY DEF IInv, TypeInv, Entries
  <2> QED
    BY <1>1, <1>2, <2>1 DEF IInv, AccessInv, Known
<1>5. ASSUME NEW q \in Procs PROVE CheckOK(q)'
  <2>1. CASE Checking(q)
    <3>1. proc[q].began \in Nat /\ CheckOK(q)
      BY <2>1, Shapes DEF IInv, TypeInv, AccessInv, Checking, Checks
    <3>2. proc[q].began <= now' /\ now' <= proc[q].began + Latency
      BY <1>1, <1>2, <2>1, <3>1 DEF CheckOK
    <3> QED
      BY <1>1, <3>1, <3>2 DEF CheckOK, Checking, Known
  <2>2. CASE ~Checking(q)
    BY <1>1, <2>2 DEF CheckOK, Checking
  <2> QED
    BY <2>1, <2>2
<1> QED
  BY <1>3, <1>4, <1>5 DEF IInv, AccessInv

-----------------------------------------------------------------------------
(* The invariant                                                           *)

LEMMA RequestKeeps ==
    ASSUME IInv, NEW p \in Procs, Request(p)
    PROVE  IInv'
<1>1. CASE \E a \in Accounts : SignIn(p, a)
  BY <1>1, SignInKeeps
<1>2. CASE CreateSession(p) \/ OpenRequest(p) \/ FillCache(p) \/ StorePassword(p) \/ RevokeSessions(p)
  BY <1>2, CreateSessionKeeps, OpenRequestKeeps, FillCacheKeeps, StorePasswordKeeps, RevokeSessionsKeeps
<1>3. CASE \/ Authorize(p) \/ Browse(p) \/ ChangePassword(p) \/ OpenResetLink(p) \/ Resend(p)
           \/ OpenVerifyLink(p) \/ OpenInvitation(p) \/ CloseInvitation(p) \/ Abandon(p)
  BY <1>3, QuietRequests
<1>4. CASE (\E a \in Accounts : ForgotPassword(p, a)) \/ RecoverAdmin(p)
  BY <1>4, ResetRequests
<1>5. CASE ChangeEmail(p) \/ IssueLink(p) \/ WithdrawEmail(p) \/ AddressTaken(p) \/ VerifyEmail(p)
  BY <1>5, ChangeEmailKeeps, IssueLinkKeeps, TokenDropped, VerifyEmailKeeps
<1>6. CASE EndOwnerSessions(p) \/ Invite(p) \/ Join(p) \/ RemoveMember(p)
  BY <1>6, EndOwnerSessionsKeeps, InviteKeeps, JoinKeeps, RemoveMemberKeeps
<1>7. CASE Deactivate(p) \/ Deliver(p) \/ Invalidate(p)
  BY <1>7, DeactivateKeeps, DeliverKeeps, InvalidateKeeps
<1> QED
  BY <1>1, <1>2, <1>3, <1>4, <1>5, <1>6, <1>7 DEF Request

LEMMA Inductive == IInv /\ [Next]_vars => IInv'
<1> SUFFICES ASSUME IInv, [Next]_vars PROVE IInv'
  OBVIOUS
<1>1. CASE \E p \in Procs : Request(p)
  BY <1>1, RequestKeeps
<1>2. CASE StripeStep /\ UNCHANGED <<firmVars, now, proc, ops, historyVars>>
  BY <1>2, StripeKeepsGrant, AloneKeeps DEF firmVars, historyVars
<1>3. CASE Restart
  BY <1>3, RestartKeeps
<1>4. CASE Tick
  BY <1>4, TickKeeps
<1>5. CASE UNCHANGED vars
  BY <1>5, AloneKeeps DEF vars, subscriptionVars, columns, firmVars, historyVars
<1> QED
  BY <1>1, <1>2, <1>3, <1>4, <1>5 DEF Next

LEMMA Invariance == Spec => []IInv
BY Starts, Inductive, PTL DEF Spec

-----------------------------------------------------------------------------
(* A request is granted by the check that knew its access                  *)

LEMMA OneRequestMoves ==
    ASSUME IInv, NEW p \in Procs, Request(p), NEW q \in Procs \ {p}
    PROVE  proc'[q] = proc[q]
<1>1. DOMAIN proc = Procs
  BY DEF IInv, TypeInv
<1>2. CASE \/ \E a \in Accounts : SignIn(p, a) \/ ForgotPassword(p, a)
           \/ RecoverAdmin(p) \/ OpenRequest(p) \/ OpenResetLink(p) \/ Resend(p)
           \/ OpenVerifyLink(p) \/ OpenInvitation(p) \/ Deliver(p)
  BY <1>1, <1>2 DEF Begin, SignIn, ForgotPassword, RecoverAdmin, OpenRequest, OpenResetLink, Resend, OpenVerifyLink,
     OpenInvitation, Deliver
<1>3. CASE \/ CreateSession(p) \/ FillCache(p) \/ Authorize(p) \/ Browse(p) \/ ChangePassword(p)
           \/ StorePassword(p) \/ RevokeSessions(p) \/ ChangeEmail(p) \/ IssueLink(p) \/ WithdrawEmail(p)
  BY <1>1, <1>3 DEF Goto, Proceed, CreateSession, FillCache, Authorize, Browse, ChangePassword, StorePassword,
     RevokeSessions, ChangeEmail, IssueLink, WithdrawEmail
<1>4. CASE \/ VerifyEmail(p) \/ AddressTaken(p) \/ EndOwnerSessions(p) \/ Invite(p) \/ Join(p)
           \/ CloseInvitation(p) \/ RemoveMember(p) \/ Deactivate(p) \/ Invalidate(p) \/ Abandon(p)
  BY <1>1, <1>4 DEF Goto, Proceed, VerifyEmail, AddressTaken, EndOwnerSessions, Invite, Join, CloseInvitation,
     RemoveMember, Deactivate, Invalidate, Abandon
<1> QED
  BY <1>2, <1>3, <1>4 DEF Request

LEMMA OnlyAuthorizeGrants ==
    ASSUME IInv, NEW p \in Procs, Request(p), proc[p].at = "known", proc'[p].at = "granted"
    PROVE  Authorize(p)
<1>1. CASE \/ \E a \in Accounts : SignIn(p, a) \/ ForgotPassword(p, a)
           \/ RecoverAdmin(p) \/ OpenRequest(p) \/ OpenResetLink(p) \/ Resend(p)
           \/ OpenVerifyLink(p) \/ OpenInvitation(p) \/ Deliver(p)
  BY <1>1, Constants DEF Begin, SignIn, ForgotPassword, RecoverAdmin, OpenRequest, OpenResetLink, Resend,
     OpenVerifyLink, OpenInvitation, Deliver
<1>2. CASE \/ CreateSession(p) \/ FillCache(p) \/ Browse(p) \/ ChangePassword(p) \/ StorePassword(p)
           \/ RevokeSessions(p) \/ ChangeEmail(p) \/ IssueLink(p) \/ WithdrawEmail(p) \/ VerifyEmail(p)
           \/ AddressTaken(p) \/ EndOwnerSessions(p) \/ Invite(p) \/ Join(p) \/ CloseInvitation(p)
           \/ RemoveMember(p) \/ Deactivate(p) \/ Invalidate(p)
  BY <1>2 DEF Granted, CreateSession, FillCache, Browse, ChangePassword, StorePassword, RevokeSessions, ChangeEmail,
     IssueLink, WithdrawEmail, VerifyEmail, AddressTaken, EndOwnerSessions, Invite, Join, CloseInvitation,
     RemoveMember, Deactivate, Invalidate
<1>3. CASE Abandon(p)
  <2>1. proc'[p] = Idle
    BY <1>3 DEF Abandon, Goto, IInv, TypeInv
  <2> QED
    BY <2>1, Constants
<1> QED
  BY <1>1, <1>2, <1>3 DEF Request

\* The access a request is granted by was true, or was lost less than the TTL
\* and two latencies ago.
LEMMA GrantIsFresh ==
    ASSUME IInv, [Next]_vars, NEW p \in Procs, proc[p].at = "known", proc'[p].at = "granted"
    PROVE  /\ now < lost.active + TTL + 2 * Latency
           /\ Caller(p) # Owner => now < lost.team + TTL + 2 * Latency
<1>1. Authorize(p)
  <2>1. CASE \E q \in Procs : Request(q)
    <3>1. PICK q \in Procs : Request(q)
      BY <2>1
    <3>2. q = p
      BY <3>1, OneRequestMoves
    <3> QED
      BY <3>1, <3>2, OnlyAuthorizeGrants
  <2>2. CASE UNCHANGED proc
    BY <2>2
  <2>3. (\E q \in Procs : Request(q)) \/ UNCHANGED proc
    BY DEF Next, Restart, Tick, vars
  <2> QED
    BY <2>1, <2>2, <2>3
<1>2. proc[p] \in Checks
  BY Shapes DEF IInv, TypeInv
<1>3. Accepted(proc[p].access, proc[p].session)
  <2>1. CASE ~Accepted(proc[p].access, proc[p].session)
    <3>1. proc'[p] = Idle
      BY <1>1, <2>1 DEF Authorize, Goto, IInv, TypeInv
    <3> QED
      BY <3>1, Constants
  <2> QED
    BY <2>1
<1>4. /\ proc[p].access.active
      /\ Caller(p) # Owner => proc[p].access.team
  BY <1>3 DEF Accepted, Caller
<1>5. /\ proc[p].began \in Nat /\ now \in Nat /\ lost.active \in Nat /\ lost.team \in Nat
      /\ TTL \in Nat /\ Latency \in Nat
  BY <1>2, Constants DEF Checks, IInv, TypeInv
<1>6. /\ now <= proc[p].began + Latency
      /\ Known(proc[p].access, proc[p].began, TTL + Latency)
  BY DEF IInv, AccessInv, CheckOK, Checking
<1>7. \A x \in Nat : proc[p].began < x + (TTL + Latency) => now < x + TTL + 2 * Latency
  BY <1>5, <1>6
<1> QED
  BY <1>4, <1>5, <1>6, <1>7 DEF Known

-----------------------------------------------------------------------------
(* What follows                                                            *)

\* For every number of requests and members: once a change or a reset of a
\* password is answered, no cookie of a sign-in with an earlier password opens
\* a request, in whatever order their statements ran (auth.ts:190-200,
\* settings/route.ts:159-162, reset-password/route.ts:114-129).
THEOREM SessionsFollow == Spec => []SessionsFollowPassword
<1>1. IInv => SessionsFollowPassword
  <2> SUFFICES ASSUME IInv, NEW s \in sessions, s.signIn, s.password < answered[s.account],
                      s.version = account[s.account].version
               PROVE  FALSE
    BY DEF SessionsFollowPassword
  <2>1. s \in Sessions /\ s \in Cookies
    BY DEF IInv, TypeInv, Cookies
  <2>2. answered[s.account] <= s.password
    BY <2>1 DEF IInv, SessionInv, CookieOK
  <2>3. s.password \in Nat /\ answered[s.account] \in Nat
    BY <2>1 DEF Sessions, IInv, TypeInv
  <2> QED
    BY <2>2, <2>3
<1> QED
  BY <1>1, Invariance, PTL

\* A verification link takes effect once, however often and however
\* concurrently it is opened (email-verification.ts:6, verify-email/route.ts:36-59).
THEOREM LinksWorkOnce == Spec => []VerifyLinkWorksOnce
<1>1. IInv => VerifyLinkWorksOnce
  BY DEF IInv, LinkInv, VerifyLinkWorksOnce
<1> QED
  BY <1>1, Invariance, PTL

\* With any number of portals, each with its cache, a request passes
\* getSession() on access the firm or its team has lost for less than the TTL
\* and two latencies (auth.ts:109-116, 167-171).
THEOREM StaleAccessEnds == Spec => StaleAccessIsBounded
<1>1. IInv /\ [Next]_vars =>
        [\A p \in Procs : (proc[p].at = "known" /\ proc'[p].at = "granted") =>
          /\ now < lost.active + TTL + 2 * Latency
          /\ Caller(p) # Owner => now < lost.team + TTL + 2 * Latency]_vars
  BY GrantIsFresh
<1> QED
  BY <1>1, Invariance, PTL DEF Spec, StaleAccessIsBounded
=============================================================================
