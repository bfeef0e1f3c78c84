------------------------------ MODULE Accounts -------------------------------
(***************************************************************************)
(* The accounts of one hosted firm: its owner and invited team members.    *)
(* Sign-in, session cookies and the check getSession() makes on every      *)
(* request, with its cache (lib/auth.ts); password change and reset, the   *)
(* recovery command, e-mail verification, invitations, removal of members, *)
(* deactivation, and the tier Stripe's webhook writes (Subscription).      *)
(*                                                                         *)
(* A process p of Procs serves one request; proc[p].at names its next      *)
(* statement.  Passwords are numbered in the order they are stored.  A     *)
(* cookie is a member of sessions and never leaves it: whoever copied it   *)
(* keeps it, updateSession() renews its expiry without changing the rest.  *)
(* A link may be refused as expired at any time, which changes nothing.    *)
(* Bounds: MaxOps requests, MaxTime ticks of the clock.                    *)
(***************************************************************************)
EXTENDS Subscription, FiniteSets

CONSTANTS Procs, Owner, Members, Copies, Addresses, Home, Links,
          TeamPlans,          \* the plans with seats for members
          TTL, Latency,       \* of a cache entry; of a request, in ticks
          MaxOps, MaxTime

Accounts == {Owner} \cup Members

\* Only the hash of a token is stored; a link holds the token.
Hash(l) == [hashed |-> l]
Raw(l) == [raw |-> l]

ASSUME AccountsAssumption ==
    /\ Owner \notin Members /\ Home \in Addresses /\ None \notin Addresses \cup Links \cup Accounts
    /\ \A l \in Links : None # Hash(l)
    /\ {Latency, MaxOps, MaxTime} \subseteq Nat /\ TTL \in Nat \ {0}
    /\ TeamPlans \subseteq Plans

VARIABLES firm,      \* is_active, admin_email, pending_email, email_verify_token, email_verified_at
          account,   \* password, session_version and reset_token of each account
          invited,   \* the token of the open invitation
          sessions,  \* cookies that were issued
          cache,     \* firmActiveCache of each copy of lib/auth.ts
          now,
          link,      \* what each link was issued for
          proc, ops,
          answered,  \* history: the last password an answered change has set
          lost,      \* history: when the firm was deactivated, when it lost the team feature
          clicked    \* history: how often a verification link took effect
firmVars == <<firm, account, invited, sessions, cache, link>>
historyVars == <<answered, lost, clicked>>
vars == <<subscriptionVars, firmVars, now, proc, ops, historyVars>>

Idle == [at |-> "idle"]
Unsent == [kind |-> "unsent"]
Never == MaxTime + 1

HasTeam == grant.tier \in TeamPlans

Cookie(a, signIn) == [account |-> a, version |-> account[a].version,
                      password |-> account[a].password, signIn |-> signIn]

\* The owner, perhaps a member, each perhaps signed in.
Init == /\ SubscriptionInit
        /\ firm \in [active : {TRUE}, email : {Home}, pending : {None}, verify : {None},
                     verified : BOOLEAN]
        /\ \E team \in SUBSET Members :
              /\ Cardinality(team) <= 1
              /\ account = [a \in Accounts |-> [exists |-> a \in {Owner} \cup team,
                                password |-> 0, version |-> 0, reset |-> None]]
              /\ sessions \in {{}, {Cookie(a, TRUE) : a \in team \cup (IF firm.verified THEN {Owner} ELSE {})}}
        /\ invited = None
        /\ cache = [c \in Copies |-> None] /\ now = 0
        /\ link = [l \in Links |-> Unsent]
        /\ proc = [p \in Procs |-> Idle] /\ ops = 0
        /\ answered = [a \in Accounts |-> 0]
        /\ lost = [active |-> Never, team |-> IF HasTeam THEN Never ELSE 0]
        /\ clicked = [l \in Links |-> 0]

Begin(p, record) == /\ proc[p] = Idle /\ ops < MaxOps /\ ops' = ops + 1
                    /\ proc' = [proc EXCEPT ![p] = record]
Goto(p, record) == proc' = [proc EXCEPT ![p] = record] /\ UNCHANGED ops
Proceed(p, at) == Goto(p, [proc[p] EXCEPT !.at = at])

NewLink(l, use) == link[l] = Unsent /\ link' = [link EXCEPT ![l] = use]

-----------------------------------------------------------------------------
(* Sign-in                                                                 *)

\* One SELECT reads the hash and the session_version it belongs to.
SignIn(p, a) ==
    /\ account[a].exists /\ firm.active
    /\ IF a = Owner THEN firm.verified ELSE HasTeam
    /\ Begin(p, [at |-> "signing", session |-> Cookie(a, TRUE)])
    /\ UNCHANGED <<subscriptionVars, firmVars, now, historyVars>>

\* A change of the password is answered.
Answer(a, n) == answered' = [answered EXCEPT ![a] = IF n > @ THEN n ELSE @]

\* Mutant: the version is read when the cookie is made.
CreateSessionNow(p) ==
    LET current == account[proc[p].session.account].version IN
    /\ proc[p].at = "signing"
    /\ sessions' = sessions \cup {[proc[p].session EXCEPT !.version = current]}
    /\ Goto(p, Idle)
    /\ UNCHANGED <<subscriptionVars, firm, account, invited, cache, link, now, historyVars>>

CreateSession(p) ==
    /\ proc[p].at = "signing"
    /\ sessions' = sessions \cup {proc[p].session}
    /\ IF proc[p].session.signIn THEN UNCHANGED answered
       ELSE Answer(proc[p].session.account, proc[p].session.password)
    /\ Goto(p, Idle)
    /\ UNCHANGED <<subscriptionVars, firm, account, invited, cache, link, now, lost, clicked>>

-----------------------------------------------------------------------------
(* getSession()                                                            *)

\* What the SELECT reads.
Entry == [active |-> firm.active, team |-> HasTeam, since |-> now]
\* Mutant: an entry lasts until it is invalidated.
IsHitForEver(c) == cache[c] # None

IsHit(c) == cache[c] # None /\ now - cache[c].since < TTL

\* loadFirmAccess(): a hit, or the SELECT of a miss.
OpenRequest(p) == \E s \in sessions, c \in Copies :
    /\ Begin(p, [at |-> IF IsHit(c) THEN "known" ELSE "selected", session |-> s, copy |-> c,
                 access |-> IF IsHit(c) THEN cache[c] ELSE Entry, began |-> now])
    /\ UNCHANGED <<subscriptionVars, firmVars, now, historyVars>>

FillCache(p) ==
    /\ proc[p].at = "selected"
    /\ cache' = [cache EXCEPT ![proc[p].copy] = [proc[p].access EXCEPT !.since = now]]
    /\ Proceed(p, "known")
    /\ UNCHANGED <<subscriptionVars, firm, account, invited, sessions, link, now, historyVars>>

\* Revocation and removal are read on every call, never from the cache.
Accepted(access, s) ==
    /\ access.active
    /\ account[s.account].exists /\ account[s.account].version = s.version
    /\ s.account # Owner => access.team

Authorize(p) ==
    /\ proc[p].at = "known"
    /\ IF Accepted(proc[p].access, proc[p].session)
       THEN Goto(p, [at |-> "granted", session |-> proc[p].session, copy |-> proc[p].copy])
       ELSE Goto(p, Idle)
    /\ UNCHANGED <<subscriptionVars, firmVars, now, historyVars>>

Granted(p) == proc[p].at = "granted"
Caller(p) == proc[p].session.account

\* Any other request of the account.
Browse(p) == /\ Granted(p) /\ Goto(p, Idle)
             /\ UNCHANGED <<subscriptionVars, firmVars, now, historyVars>>

-----------------------------------------------------------------------------
(* Passwords                                                               *)

\* The current password is right; the new one is hashed before it is stored.
ChangePassword(p) ==
    /\ Granted(p)
    /\ Goto(p, [at |-> "hashing", account |-> Caller(p), copy |-> proc[p].copy,
                reset |-> FALSE, password |-> 0])
    /\ UNCHANGED <<subscriptionVars, firmVars, now, historyVars>>

\* The action 'request' of reset-password, for an active account.
ForgotPassword(p, a) ==
    /\ account[a].exists /\ firm.active
    /\ Begin(p, Idle)
    /\ \E l \in Links : /\ NewLink(l, [kind |-> "reset", account |-> a])
                        /\ account' = [account EXCEPT ![a].reset = Hash(l)]
    /\ UNCHANGED <<subscriptionVars, firm, invited, sessions, cache, now, historyVars>>

\* scripts/recover-admin.mjs: the same columns, written by another program.
RecoverAdmin(p) ==
    /\ firm.active /\ Begin(p, Idle)
    /\ \E l \in Links : /\ NewLink(l, [kind |-> "reset", account |-> Owner])
                        /\ account' = [account EXCEPT ![Owner].reset = Raw(l)]
    /\ UNCHANGED <<subscriptionVars, firm, invited, sessions, cache, now, historyVars>>

Opens(l, a) == account[a].exists /\ account[a].reset = Hash(l)

\* The action 'confirm' of reset-password.
OpenResetLink(p) == \E l \in Links, a \in Accounts, c \in Copies :
    /\ Opens(l, a)
    /\ Begin(p, [at |-> "hashing", account |-> a, copy |-> c,
                 reset |-> TRUE, password |-> 0])
    /\ UNCHANGED <<subscriptionVars, firmVars, now, historyVars>>

\* The row is found by its id alone; a reset also proves the owner's address.
StorePassword(p) ==
    LET a == proc[p].account IN
    /\ proc[p].at = "hashing"
    /\ account' = [account EXCEPT ![a].password = @ + 1,
                                  ![a].reset = IF proc[p].reset THEN None ELSE @]
    /\ firm' = [firm EXCEPT !.verified = @ \/ (proc[p].reset /\ a = Owner)]
    /\ Goto(p, [proc[p] EXCEPT !.at = "stored", !.password = account[a].password + 1])
    /\ UNCHANGED <<subscriptionVars, invited, sessions, cache, link, now, historyVars>>

\* revokeSessions(); a change of the password then signs its own browser in
\* again, a reset does not.
RevokeSessions(p) ==
    LET a == proc[p].account  n == proc[p].password IN
    /\ proc[p].at = "stored"
    /\ account' = [account EXCEPT ![a].version = @ + 1]
    /\ cache' = [cache EXCEPT ![proc[p].copy] = None]
    /\ IF proc[p].reset
       THEN Goto(p, Idle) /\ Answer(a, n)
       ELSE /\ Goto(p, [at |-> "signing",
                        session |-> [account |-> a, version |-> account[a].version + 1,
                                     password |-> n, signIn |-> FALSE]])
            /\ UNCHANGED answered
    /\ UNCHANGED <<subscriptionVars, firm, invited, sessions, link, now, lost, clicked>>

-----------------------------------------------------------------------------
(* E-mail addresses                                                        *)

\* update_email: the password is right and no other firm has the address.
ChangeEmail(p) == \E x \in Addresses :
    /\ Granted(p) /\ Caller(p) = Owner
    /\ firm' = [firm EXCEPT !.pending = x]
    /\ Goto(p, [at |-> "issuing", to |-> x, change |-> TRUE])
    /\ UNCHANGED <<subscriptionVars, account, invited, sessions, cache, link, now, historyVars>>

\* The action 'resend' of verify-email.
Resend(p) ==
    /\ firm.active /\ ~firm.verified
    /\ Begin(p, [at |-> "issuing", to |-> firm.email, change |-> FALSE])
    /\ UNCHANGED <<subscriptionVars, firmVars, now, historyVars>>

\* issueEmailVerification(); the mail may fail.
IssueLink(p) ==
    /\ proc[p].at = "issuing"
    /\ \E l \in Links : /\ NewLink(l, [kind |-> "verify", to |-> proc[p].to])
                        /\ firm' = [firm EXCEPT !.verify = Hash(l)]
    /\ Goto(p, Idle) \/ Proceed(p, "unmailed")
    /\ UNCHANGED <<subscriptionVars, account, invited, sessions, cache, now, historyVars>>

\* A change whose mail failed is withdrawn, a resend is not.
WithdrawEmail(p) ==
    /\ proc[p].at = "unmailed"
    /\ firm' = IF proc[p].change THEN [firm EXCEPT !.pending = None, !.verify = None] ELSE firm
    /\ Goto(p, Idle)
    /\ UNCHANGED <<subscriptionVars, account, invited, sessions, cache, link, now, historyVars>>

\* The action 'confirm' of verify-email.
OpenVerifyLink(p) == \E l \in Links, c \in Copies :
    /\ firm.verify = Hash(l)
    /\ Begin(p, [at |-> "opened", link |-> l, change |-> firm.pending # None, copy |-> c])
    /\ UNCHANGED <<subscriptionVars, firmVars, now, historyVars>>

\* Mutant: the row is found by its id alone.
StillOpenById(l) == TRUE

StillOpen(l) == firm.verify = Hash(l)

\* The UPDATE finds the row by its id and by the token.
VerifyEmail(p) ==
    LET l == proc[p].link IN
    /\ proc[p].at = "opened"
    /\ IF ~StillOpen(l)
       THEN Goto(p, Idle) /\ UNCHANGED <<firm, clicked>>
       ELSE /\ clicked' = [clicked EXCEPT ![l] = @ + 1]
            /\ IF proc[p].change
               THEN /\ firm' = [firm EXCEPT !.email = firm.pending, !.pending = None,
                                            !.verify = None, !.verified = TRUE]
                    /\ Goto(p, [at |-> "moved", copy |-> proc[p].copy])
               ELSE /\ firm' = [firm EXCEPT !.verify = None, !.verified = TRUE]
                    /\ Goto(p, Idle)
    /\ UNCHANGED <<subscriptionVars, account, invited, sessions, cache, link, now, answered, lost>>

\* Another firm took the address meanwhile: the unique index refuses the UPDATE.
AddressTaken(p) ==
    /\ proc[p].at = "opened" /\ proc[p].change
    /\ firm' = [firm EXCEPT !.pending = None, !.verify = None]
    /\ Goto(p, Idle)
    /\ UNCHANGED <<subscriptionVars, account, invited, sessions, cache, link, now, historyVars>>

EndOwnerSessions(p) ==
    /\ proc[p].at = "moved"
    /\ account' = [account EXCEPT ![Owner].version = @ + 1]
    /\ cache' = [cache EXCEPT ![proc[p].copy] = None]
    /\ Goto(p, Idle)
    /\ UNCHANGED <<subscriptionVars, firm, invited, sessions, link, now, historyVars>>

-----------------------------------------------------------------------------
(* Team                                                                    *)

\* An invitation replaces the open one for the same address.
Invite(p) ==
    /\ Granted(p) /\ HasTeam /\ MayUse(grant.status)
    /\ \E l \in Links : NewLink(l, [kind |-> "invite"]) /\ invited' = l
    /\ Goto(p, Idle)
    /\ UNCHANGED <<subscriptionVars, firm, account, sessions, cache, now, historyVars>>

OpenInvitation(p) == \E l \in Links :
    /\ invited = l /\ HasTeam
    /\ Begin(p, [at |-> "joining", link |-> l])
    /\ UNCHANGED <<subscriptionVars, firmVars, now, historyVars>>

\* An insert with a new id, or a new password of the row that has the address.
Join(p) == \E m \in Members :
    /\ proc[p].at = "joining"
    /\ IF \E a \in Members : account[a].exists THEN account[m].exists
       ELSE account[m].password = 0 /\ ~\E s \in sessions : s.account = m
    /\ account' = [account EXCEPT ![m].exists = TRUE, ![m].password = @ + 1]
    /\ Proceed(p, "joined")
    /\ UNCHANGED <<subscriptionVars, firm, invited, sessions, cache, link, now, historyVars>>

CloseInvitation(p) ==
    /\ proc[p].at = "joined"
    /\ invited' = IF invited = proc[p].link THEN None ELSE invited
    /\ Goto(p, Idle)
    /\ UNCHANGED <<subscriptionVars, firm, account, sessions, cache, link, now, historyVars>>

RemoveMember(p) == \E m \in Members :
    /\ Granted(p) /\ account[m].exists
    /\ account' = [account EXCEPT ![m].exists = FALSE, ![m].reset = None]
    /\ Goto(p, Idle)
    /\ UNCHANGED <<subscriptionVars, firm, invited, sessions, cache, link, now, historyVars>>

-----------------------------------------------------------------------------
(* The end of access                                                       *)

Deactivate(p) ==
    /\ Granted(p) /\ Caller(p) = Owner
    /\ firm' = [firm EXCEPT !.active = FALSE]
    /\ lost' = [lost EXCEPT !.active = IF firm.active THEN now ELSE @]
    /\ Goto(p, [at |-> "changed", copies |-> {proc[p].copy}])
    /\ UNCHANGED <<subscriptionVars, account, invited, sessions, cache, link, now, answered, clicked>>

\* The webhook; the answer 500 of an event no firm has changes nothing.
Deliver(p) == \E e \in events, c \in Copies :
    /\ Handled(e)
    /\ Begin(p, [at |-> "changed", copies |-> {c}])
    /\ lost' = [lost EXCEPT !.team = IF HasTeam' THEN Never ELSE IF HasTeam THEN now ELSE @]
    /\ UNCHANGED <<firmVars, now, answered, clicked>>

\* invalidateFirmActiveCache() reaches the copy of the module that runs it.
Invalidate(p) ==
    /\ proc[p].at = "changed"
    /\ cache' = [c \in Copies |-> IF c \in proc[p].copies THEN None ELSE cache[c]]
    /\ Goto(p, Idle)
    /\ UNCHANGED <<subscriptionVars, firm, account, invited, sessions, link, now, historyVars>>

-----------------------------------------------------------------------------
\* The portal stops, or a statement of the request fails.
Abandon(p) == /\ proc[p] # Idle /\ Goto(p, Idle)
              /\ UNCHANGED <<subscriptionVars, firmVars, now, historyVars>>

\* A restarted portal begins with empty caches.
Restart == /\ \A p \in Procs : proc[p] = Idle
           /\ cache' = [c \in Copies |-> None]
           /\ UNCHANGED <<subscriptionVars, firm, account, invited, sessions, link, now,
                          proc, ops, historyVars>>

Checking(p) == proc[p].at \in {"selected", "known"}
Tick == /\ now < MaxTime
        /\ \A p \in Procs : Checking(p) => now - proc[p].began < Latency
        /\ now' = now + 1
        /\ UNCHANGED <<subscriptionVars, firmVars, proc, ops, historyVars>>

Request(p) ==
    \/ \E a \in Accounts : SignIn(p, a) \/ ForgotPassword(p, a)
    \/ CreateSession(p) \/ OpenRequest(p) \/ FillCache(p) \/ Authorize(p) \/ Browse(p)
    \/ ChangePassword(p) \/ RecoverAdmin(p) \/ OpenResetLink(p) \/ StorePassword(p)
    \/ RevokeSessions(p) \/ ChangeEmail(p) \/ Resend(p) \/ IssueLink(p) \/ WithdrawEmail(p)
    \/ OpenVerifyLink(p) \/ VerifyEmail(p) \/ AddressTaken(p) \/ EndOwnerSessions(p)
    \/ Invite(p) \/ OpenInvitation(p) \/ Join(p) \/ CloseInvitation(p) \/ RemoveMember(p)
    \/ Deactivate(p) \/ Deliver(p) \/ Invalidate(p) \/ Abandon(p)

Next == \/ \E p \in Procs : Request(p)
        \/ StripeStep /\ UNCHANGED <<firmVars, now, proc, ops, historyVars>>
        \/ Restart \/ Tick

Spec == Init /\ [][Next]_vars

-----------------------------------------------------------------------------
(* Properties                                                              *)

Sessions == [account : Accounts, version : Nat, password : Nat, signIn : BOOLEAN]

\* Types of the state; a cookie never carries a version its account has not had.
TypeOK ==
    /\ SubscriptionTypeOK
    /\ firm.email \in Addresses /\ firm.pending \in Addresses \cup {None}
    /\ \A a \in Accounts : account[a].password \in Nat /\ account[a].version \in Nat
    /\ sessions \subseteq Sessions
    /\ \A s \in sessions : s.version <= account[s.account].version
    /\ invited \in Links \cup {None}
    /\ \A c \in Copies : cache[c] # None => cache[c].since \in 0..now
    /\ ops \in 0..MaxOps /\ now \in 0..MaxTime

\* Once a password change or reset has been answered, no cookie of a sign-in
\* with an earlier password opens a request, also when sign-in, change and
\* reset overlap (auth.ts:190-200, settings/route.ts:159-162,
\* reset-password/route.ts:114-129).  Cookies that a change itself hands out
\* are not meant: of two overlapping changes one may keep the other's.
SessionsFollowPassword ==
    \A s \in sessions : s.signIn /\ s.password < answered[s.account] =>
        s.version # account[s.account].version

\* A request passes getSession() on stale access data for a bounded time only:
\* within the TTL of the cache, and what a request takes before and after it
\* uses the cache, the firm was active and, for a member, had the team feature,
\* although a fill under way stores what it read before an invalidation
\* (auth.ts:109-116, 167-171).
StaleAccessIsBounded ==
    [][\A p \in Procs : (proc[p].at = "known" /\ proc'[p].at = "granted") =>
          /\ now < lost.active + TTL + 2 * Latency
          /\ Caller(p) # Owner => now < lost.team + TTL + 2 * Latency]_vars

\* A verification link takes effect once, however often and however
\* concurrently it is opened (email-verification.ts:6, verify-email/route.ts:36-59).
VerifyLinkWorksOnce == \A l \in Links : clicked[l] <= 1

=============================================================================
