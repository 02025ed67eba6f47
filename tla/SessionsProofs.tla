--------------------------- MODULE SessionsProofs ---------------------------
(* Proofs about Sessions.  The inductive invariant has one part per table    *)
(* and one for the requests; each part is shown to be kept by every step,    *)
(* from the others where a step copies something from one table to another.  *)
EXTENDS Sessions, TLAPS

AccountsOK ==
  /\ role \in [Accounts -> {"none", "member", "admin"}]
  /\ disabled \in SUBSET Accounts
  /\ password \in [Accounts -> Nat]
  /\ updates \in [Accounts -> 0..MaxUpdates]

(* A session that lives is somebody's, and the row of its sign-in is taken.  *)
SessionsOK ==
  /\ session \in [Sessions -> SessionRows]
  /\ \A s \in Sessions : session[s].live =>
       /\ session[s].account \in Accounts
       /\ session[s].root \in Sessions
       /\ session[session[s].root].account # Nil

IdentitiesOK ==
  /\ link \in [Accounts -> Accounts \cup {Nil}]
  /\ owners \in [Profiles -> SUBSET Accounts]
  /\ enabled \in SUBSET Providers

(* What may be taken from a row of challenges or flows. *)
ProofsOK ==
  /\ proof \in [Challenges \cup Flows -> ProofRows]
  /\ uses \in [Challenges \cup Flows -> Nat]
  /\ \A x \in Challenges \cup Flows : proof[x].status \in {"open", "ticket"} =>
       /\ proof[x].purpose = "link" => proof[x].account \in Accounts
       /\ proof[x].status = "ticket" \/ x \in Challenges =>
            proof[x].profile \in Profiles

(* What a request has read by the place where it is. *)
Known(q) ==
  /\ q.purpose = "link" => q.web \in Accounts
  /\ q.kind = "connect" => q.web \in Accounts /\ q.cloud \in Accounts
  /\ q.at \in {"check", "verify", "role", "create", "webRole", "linked",
               "connect", "issueRole", "issue"} => q.web \in Accounts
  /\ q.at \in {"cloudRole", "link", "linkedWeb", "connect"} => q.cloud \in Accounts
  /\ q.at = "owner" /\ q.purpose = "link" => q.cloud \in Accounts
  /\ q.at = "finish" /\ q.purpose # "link" => q.cloud \in Accounts
  /\ q.at \in {"role", "revoke"} => q.session \in Sessions
  /\ q.at \in {"webRole", "linked", "link"} => q.purpose = "link"
  /\ q.at = "validate" => q.kind \in {"callback", "redeem"}
  /\ q.at \in {"finish", "webRole", "linked", "owner", "cloudRole", "link"} =>
       q.profile \in Profiles
  /\ q.at = "connect" => q.kind = "connect" \/ q.profile \in Profiles
  /\ q.kind \in {"game", "browser", "redeem"} => q.profile \in Profiles
  /\ q.kind = "callback" => q.proof \in Flows
RequestsOK == req \in [Requests -> RequestStates] /\ \A r \in Requests : Known(req[r])

Inv == AccountsOK /\ SessionsOK /\ IdentitiesOK /\ ProofsOK /\ RequestsOK

(* The proof a request carries is in no row that can be taken, is carried by *)
(* no other request, and was good for nothing yet.                           *)
ProofsHeldOnce ==
  \A x \in Challenges \cup Flows :
    /\ proof[x].status \in {"none", "open", "ticket"} =>
         uses[x] = 0 /\ \A r \in Requests : req[r].proof # x
    /\ \A r \in Requests : req[r].proof = x => uses[x] = 0
    /\ \A r, q \in Requests : req[r].proof = x /\ req[q].proof = x => r = q
    /\ uses[x] <= 1

----------------------------------------------------------------------------
(* Which steps touch which tables.                                           *)
LEMMA AccountSteps ==
  ASSUME Next
  PROVE  \/ UNCHANGED accountVars
         \/ \E a \in Accounts : Register(a)
         \/ \E r \in Requests, a \in Accounts, n \in {"member", "admin"} :
              CreateAccount(r, a, n)
         \/ \E a \in Accounts, n \in {"member", "admin"}, off, reset \in BOOLEAN :
              SetAccount(a, n, off, reset)
         \/ \E r \in Requests : GiveRole(r)
<1>1. ASSUME NEW r \in Requests, SignInStep(r)
      PROVE  UNCHANGED accountVars
  BY ZenonT(60), <1>1 DEF SignInStep, StartSignIn, StartConnect, CheckDisabled,
     Gate, Verify,
     ReadRole, RevokeIssued, Connect, Withdraw
<1>2. ASSUME NEW r \in Requests, ChallengeStep(r)
      PROVE  UNCHANGED accountVars
  BY ZenonT(60), <1>2 DEF ChallengeStep, Claim, FindProvider, Gate, FinishLink,
     FinishLogin
<1>3. ASSUME NEW r \in Requests, BrowserStep(r)
      PROVE  UNCHANGED accountVars
  BY ZenonT(60), <1>3 DEF BrowserStep, StartBrowser, Callback, Redeem, TakeFlow,
     Validate,
     StoreTicket, ProveProfile, RecheckProvider, WebRole, ReadLink, ReadOwner,
     CloudRole, LinkIdentity, ReadWeb, IssueRole, Issue, Gate
<1>4. SessionStep => UNCHANGED accountVars
  BY DEF SessionStep, Refresh, Logout, Expire, CreateChallenge, StartFlow, Lapse
<1> QED
  BY SMTT(40), <1>1, <1>2, <1>3, <1>4 DEF Next, Administer, UpdateAccount,
     ToggleProvider

LEMMA AccountsKept ==
  ASSUME Inv, Next
  PROVE  AccountsOK'
<1> USE DEF Inv, AccountsOK, accountVars
<1>1. ASSUME NEW a \in Accounts, NEW n \in {"member", "admin"},
             NEW off \in BOOLEAN, NEW reset \in BOOLEAN,
             SetAccount(a, n, off, reset)
      PROVE  AccountsOK'
  BY <1>1, NamesAssumption DEF SetAccount
<1>2. ASSUME NEW r \in Requests, GiveRole(r)
      PROVE  AccountsOK'
  <2>1. req[r].at = "create" /\ SetAccount(req[r].web, req[r].grant, FALSE, FALSE)
    BY <1>2 DEF GiveRole
  <2>2. req[r].web \in Accounts /\ req[r].grant \in {"member", "admin"}
    BY <2>1 DEF RequestsOK, Known, RequestStates
  <2> QED
    BY <2>1, <2>2, <1>1
<1>3. ASSUME NEW a \in Accounts, Register(a)
      PROVE  AccountsOK'
  BY <1>3 DEF Register
<1>4. ASSUME NEW r \in Requests, NEW a \in Accounts, NEW n, CreateAccount(r, a, n)
      PROVE  AccountsOK'
  BY <1>4 DEF CreateAccount
<1> QED
  BY AccountSteps, <1>1, <1>2, <1>3, <1>4

----------------------------------------------------------------------------
(* The requests.                                                             *)
LEMMA IdleIsKnown == Idle \in RequestStates /\ Known(Idle)
  BY DEF Idle, RequestStates, Known, Places, Kinds, Purposes

LEMMA MoveKeepsRequests ==
  ASSUME RequestsOK, NEW r \in Requests,
         NEW q \in RequestStates, Known(q), req' = [req EXCEPT ![r] = q]
  PROVE  RequestsOK'
  BY DEF RequestsOK

LEMMA EndKeepsRequests ==
  ASSUME RequestsOK, NEW r \in Requests, End(r)
  PROVE  RequestsOK'
  BY IdleIsKnown, MoveKeepsRequests DEF End

LEMMA GoKeepsRequests ==
  ASSUME RequestsOK, NEW r \in Requests, NEW place \in Places, Go(r, place),
         Known([req[r] EXCEPT !.at = place])
  PROVE  RequestsOK'
<1>1. [req[r] EXCEPT !.at = place] \in RequestStates
  BY DEF RequestsOK, RequestStates
<1>2. req' = [req EXCEPT ![r] = [req[r] EXCEPT !.at = place]]
  BY DEF Go
<1> QED
  BY <1>1, <1>2, MoveKeepsRequests

LEMMA GateKeepsRequests ==
  ASSUME RequestsOK, NEW r \in Requests, NEW place \in Places, NEW passed \in BOOLEAN,
         Gate(r, passed, place), Known([req[r] EXCEPT !.at = place])
  PROVE  RequestsOK'
  BY EndKeepsRequests, GoKeepsRequests DEF Gate

(* An authenticated actor is an account. *)
LEMMA ActorsAreAccounts ==
  ASSUME SessionsOK, NEW x \in Actors, Authentic(x)
  PROVE  ActorOf(x) \in Accounts
  BY NamesAssumption DEF SessionsOK, Actors, Authentic, ActorOf, Valid

LEMMA SignInKeepsRequests ==
  ASSUME Inv, NEW r \in Requests, SignInStep(r)
  PROVE  RequestsOK'
<1> USE DEF Inv
<1>q. req[r] \in RequestStates /\ Known(req[r])
  BY DEF RequestsOK
<1>1. ASSUME NEW kind \in {"api", "account", "console"}, NEW a \in Accounts,
             StartSignIn(r, kind, a)
      PROVE  RequestsOK'
  <2> DEFINE q == [Idle EXCEPT !.at = "check", !.kind = kind, !.web = a,
                               !.password = password[a]]
  <2>1. kind \in Kinds /\ "check" \in Places /\ password[a] \in Nat
    BY DEF Kinds, Places, AccountsOK
  <2>2. q \in RequestStates
    BY <2>1, IdleIsKnown DEF RequestStates
  <2>3. Known(q)
    BY DEF Idle, Known
  <2> QED
    BY <1>1, <2>2, <2>3, MoveKeepsRequests DEF StartSignIn, Begin
<1>2. ASSUME NEW x \in Actors, NEW a \in Accounts, StartConnect(r, x, a)
      PROVE  RequestsOK'
  <2> DEFINE q == [Idle EXCEPT !.at = "check", !.kind = "connect", !.actor = x,
                     !.web = ActorOf(x), !.cloud = a, !.password = password[a]]
  <2>1. ActorOf(x) \in Accounts
    BY <1>2, ActorsAreAccounts DEF StartConnect
  <2>2. "connect" \in Kinds /\ "check" \in Places /\ password[a] \in Nat
    BY DEF Kinds, Places, AccountsOK
  <2>3. q \in RequestStates
    BY <2>1, <2>2, IdleIsKnown DEF RequestStates
  <2>4. Known(q)
    BY <2>1 DEF Idle, Known
  <2> QED
    BY <1>2, <2>3, <2>4, MoveKeepsRequests DEF StartConnect, Begin
<1>3. CASE CheckDisabled(r)
  <2>1. Known([req[r] EXCEPT !.at = "verify"])
    BY <1>q, <1>3 DEF CheckDisabled, Known, RequestStates
  <2> QED
    BY <1>3, <2>1, GateKeepsRequests DEF CheckDisabled, Places, Active
<1>4. ASSUME NEW s \in Sessions, Verify(r, s)
      PROVE  RequestsOK'
  <2> DEFINE q(place) == [req[r] EXCEPT !.at = place, !.session = s]
  <2>1. q("role") \in RequestStates /\ q("revoke") \in RequestStates
    <3>1. "role" \in Places /\ "revoke" \in Places
      BY DEF Places
    <3> QED
      BY ZenonT(60), <1>q, <3>1 DEF RequestStates
  <2>2. Known(q("role")) /\ Known(q("revoke"))
    BY <1>q, <1>4 DEF Verify, Known, RequestStates
  <2>3. \/ End(r)
        \/ req' = [req EXCEPT ![r] = q("revoke")]
        \/ req' = [req EXCEPT ![r] = q("role")]
    BY <1>4 DEF Verify
  <2> QED
    BY <2>1, <2>2, <2>3, EndKeepsRequests, MoveKeepsRequests
<1>5. CASE ReadRole(r)
  <2>1. Known([req[r] EXCEPT !.at = "revoke"])
    BY <1>q, <1>5 DEF ReadRole, Known, RequestStates
  <2>2. End(r) \/ Go(r, "revoke")
    BY <1>5 DEF ReadRole
  <2> QED
    BY <2>1, <2>2, EndKeepsRequests, GoKeepsRequests DEF Places
<1>6. CASE RevokeIssued(r)
  <2> DEFINE q == [req[r] EXCEPT !.at = "connect", !.session = Nil]
  <2>1. req[r].kind = "connect" => q \in RequestStates /\ Known(q)
    BY <1>q, <1>6 DEF RevokeIssued, Known, RequestStates, Places
  <2>2. End(r) \/ (req[r].kind = "connect" /\ req' = [req EXCEPT ![r] = q])
    BY <1>6 DEF RevokeIssued
  <2> QED
    BY <2>1, <2>2, EndKeepsRequests, MoveKeepsRequests
<1>7. CASE Connect(r)
  <2>1. req[r].kind # "connect" => Known([req[r] EXCEPT !.at = "cloudRole"])
    BY <1>q, <1>7 DEF Connect, Known, RequestStates
  <2>2. End(r) \/ (req[r].kind # "connect" /\ Go(r, "cloudRole"))
    BY <1>7 DEF Connect
  <2> QED
    BY <2>1, <2>2, EndKeepsRequests, GoKeepsRequests DEF Places
<1>8. CASE Withdraw(r)
  BY <1>8, EndKeepsRequests DEF Withdraw
<1> QED
  BY <1>1, <1>2, <1>3, <1>4, <1>5, <1>6, <1>7, <1>8 DEF SignInStep

LEMMA ChallengeKeepsRequests ==
  ASSUME Inv, NEW r \in Requests, ChallengeStep(r)
  PROVE  RequestsOK'
<1> USE DEF Inv
<1>q. req[r] \in RequestStates /\ Known(req[r])
  BY DEF RequestsOK
<1>1. ASSUME NEW c \in Challenges, NEW x \in Actors, Claim(r, c, x)
      PROVE  RequestsOK'
  <2> DEFINE q == [Idle EXCEPT
         !.at = "provider", !.kind = "game", !.purpose = proof[c].purpose,
         !.web = proof[c].account, !.profile = proof[c].profile,
         !.proof = c]
  <2>1. /\ proof[c] \in ProofRows /\ proof[c].profile \in Profiles
        /\ proof[c].purpose = "link" => proof[c].account \in Accounts
    BY <1>1 DEF ProofsOK, Claim
  <2>2. "provider" \in Places /\ "game" \in Kinds
    BY DEF Places, Kinds
  <2>3. q \in RequestStates
    BY <2>1, <2>2, IdleIsKnown DEF RequestStates, ProofRows
  <2>4. Known(q)
    BY <2>1 DEF Idle, Known, ProofRows
  <2> QED
    BY <1>1, <2>3, <2>4, MoveKeepsRequests DEF Claim, Begin
<1>2. CASE FindProvider(r)
  <2>1. Known([req[r] EXCEPT !.at = "network"])
    BY <1>q, <1>2 DEF FindProvider, Known, RequestStates
  <2> QED
    BY <1>2, <2>1, GateKeepsRequests DEF FindProvider, Places
<1>3. CASE FinishLink(r)
  BY <1>3, EndKeepsRequests DEF FinishLink
<1>4. ASSUME NEW s \in Sessions, FinishLogin(r, s)
      PROVE  RequestsOK'
  BY <1>4, EndKeepsRequests DEF FinishLogin
<1> QED
  BY <1>1, <1>2, <1>3, <1>4 DEF ChallengeStep

LEMMA BrowserStartsKeepRequests ==
  ASSUME Inv, NEW r \in Requests
  PROVE  /\ \A purpose \in Purposes, x \in Actors, p \in Profiles :
              StartBrowser(r, purpose, x, p) => RequestsOK'
         /\ \A f \in Flows : Callback(r, f) \/ Redeem(r, f) => RequestsOK'
<1> USE DEF Inv
<1>1. ASSUME NEW purpose \in Purposes, NEW x \in Actors, NEW p \in Profiles,
             StartBrowser(r, purpose, x, p)
      PROVE  RequestsOK'
  <2> DEFINE q == [Idle EXCEPT
         !.at = "provider", !.kind = "browser", !.purpose = purpose,
         !.profile = p, !.actor = IF purpose = "link" THEN x ELSE Nil,
         !.web = IF purpose = "link" THEN ActorOf(x) ELSE Nil]
  <2>1. purpose = "link" => ActorOf(x) \in Accounts
    BY <1>1, ActorsAreAccounts DEF StartBrowser
  <2>2. "provider" \in Places /\ "browser" \in Kinds
    BY DEF Places, Kinds
  <2>3. q \in RequestStates
    BY ZenonT(60), <2>1, <2>2, IdleIsKnown DEF RequestStates
  <2>4. Known(q)
    BY <2>1 DEF Idle, Known
  <2> QED
    BY <1>1, <2>3, <2>4, MoveKeepsRequests DEF StartBrowser, Begin
<1>2. ASSUME NEW f \in Flows, Callback(r, f) \/ Redeem(r, f)
      PROVE  RequestsOK'
  <2> DEFINE q(kind) == [Idle EXCEPT
         !.at = "validate", !.kind = kind, !.purpose = proof[f].purpose,
         !.actor = proof[f].actor, !.web = proof[f].account,
         !.profile = proof[f].profile, !.proof = f]
  <2>1. PICK kind \in {"callback", "redeem"} :
          /\ req' = [req EXCEPT ![r] = q(kind)]
          /\ proof[f].status = IF kind = "callback" THEN "open" ELSE "ticket"
    BY <1>2 DEF Callback, Redeem, TakeFlow, Begin
  <2>2. /\ proof[f] \in ProofRows
        /\ kind = "redeem" => proof[f].profile \in Profiles
        /\ proof[f].purpose = "link" => proof[f].account \in Accounts
    BY <2>1 DEF ProofsOK
  <2>3. "validate" \in Places /\ kind \in Kinds
    BY DEF Places, Kinds
  <2>4. q(kind) \in RequestStates
    BY <2>2, <2>3, IdleIsKnown DEF RequestStates, ProofRows
  <2>5. Known(q(kind))
    BY <2>2 DEF Idle, Known, ProofRows
  <2> HIDE DEF q
  <2> QED
    BY <2>1, <2>4, <2>5, MoveKeepsRequests
<1> QED
  BY <1>1, <1>2

LEMMA BrowserKeepsRequests ==
  ASSUME Inv, NEW r \in Requests, BrowserStep(r)
  PROVE  RequestsOK'
<1> USE DEF Inv
<1>q. req[r] \in RequestStates /\ Known(req[r])
  BY DEF RequestsOK
<1> DEFINE Sent(place) == [req[r] EXCEPT !.at = place]
<1>1. CASE Validate(r)
  <2>1. First(r) = IF req[r].purpose = "link" THEN "finish" ELSE "owner"
    BY DEF First
  <2>2. req[r].at = "validate" /\ req[r].kind \in {"callback", "redeem"}
    BY <1>q, <1>1 DEF Validate, Known
  <2>3. CASE req[r].kind = "callback"
    <3>1. Known(Sent("network"))
      BY <1>q, <2>2, <2>3 DEF Known, RequestStates
    <3>2. End(r) \/ Go(r, "network")
      BY <1>1, <2>3 DEF Validate, Gate
    <3> QED
      BY <3>1, <3>2, EndKeepsRequests, GoKeepsRequests DEF Places
  <2>4. CASE req[r].kind = "redeem"
    <3>1. Known(Sent(First(r)))
      BY <1>q, <2>1, <2>2, <2>4 DEF Known, RequestStates
    <3>2. End(r) \/ Go(r, First(r))
      BY <1>1, <2>4 DEF Validate, Gate
    <3> QED
      BY <2>1, <3>1, <3>2, EndKeepsRequests, GoKeepsRequests DEF Places
  <2> QED
    BY <2>2, <2>3, <2>4
<1>2. ASSUME NEW p \in Profiles, StoreTicket(r, p)
      PROVE  RequestsOK'
  BY <1>2, EndKeepsRequests DEF StoreTicket
<1>3. CASE ProveProfile(r)
  <2>1. Known(Sent(First(r))) /\ First(r) \in Places
    BY <1>q, <1>3 DEF ProveProfile, At, First, Known, RequestStates, Places
  <2> QED
    BY <1>3, <2>1, GateKeepsRequests DEF ProveProfile
<1>4. CASE RecheckProvider(r)
  <2>1. CASE req[r].purpose = "link"
    <3>1. Known(Sent("webRole"))
      BY <1>q, <1>4, <2>1 DEF RecheckProvider, Known, RequestStates
    <3>2. End(r) \/ Go(r, "webRole")
      BY <1>4, <2>1 DEF RecheckProvider, Gate
    <3> QED
      BY <3>1, <3>2, EndKeepsRequests, GoKeepsRequests DEF Places
  <2>2. CASE req[r].purpose # "link"
    <3>1. Known(Sent("cloudRole"))
      BY <1>q, <1>4, <2>2 DEF RecheckProvider, Known, RequestStates
    <3>2. End(r) \/ Go(r, "cloudRole")
      BY <1>4, <2>2 DEF RecheckProvider, Gate
    <3> QED
      BY <3>1, <3>2, EndKeepsRequests, GoKeepsRequests DEF Places
  <2> QED
    BY <2>1, <2>2
<1>5. CASE WebRole(r)
  <2>1. Known(Sent("linked"))
    BY <1>q, <1>5 DEF WebRole, Known, RequestStates
  <2> QED
    BY <1>5, <2>1, GateKeepsRequests DEF WebRole, Places, Active
<1>6. CASE ReadLink(r)
  <2> DEFINE q == [req[r] EXCEPT !.at = "owner", !.cloud = LinkedCloud(req[r].web)]
  <2>1. req[r].web \in Accounts /\ LinkedCloud(req[r].web) \in Accounts
    BY <1>q, <1>6 DEF ReadLink, Known, LinkedCloud, IdentitiesOK
  <2>2. "owner" \in Places
    BY DEF Places
  <2>3. q \in RequestStates
    BY <1>q, <2>1, <2>2 DEF RequestStates
  <2>4. Known(q)
    BY <1>q, <2>1, <1>6 DEF ReadLink, Known, RequestStates
  <2> QED
    BY <1>6, <2>3, <2>4, MoveKeepsRequests DEF ReadLink
<1>7. CASE ReadOwner(r)
  <2> DEFINE q(a, place) == [req[r] EXCEPT !.cloud = a, !.at = place]
  <2>1. req[r].profile \in Profiles
    BY <1>q, <1>7 DEF ReadOwner, Known
  <2>2. \/ End(r)
        \/ req[r].purpose = "link" /\ Go(r, "cloudRole")
        \/ \E a \in owners[req[r].profile] :
             req' = [req EXCEPT ![r] =
                       q(a, IF req[r].purpose = "link" THEN "connect" ELSE "finish")]
    BY ZenonT(60), <1>7 DEF ReadOwner
  <2>3. Known(Sent("cloudRole")) \/ req[r].purpose # "link"
    BY <1>q, <1>7 DEF ReadOwner, Known, RequestStates
  <2>4. req[r].at = "owner" /\ "connect" \in Places /\ "finish" \in Places
        /\ "cloudRole" \in Places
    BY <1>7 DEF ReadOwner, Places
  <2>5. ASSUME NEW a \in Accounts, req[r].purpose = "link"
        PROVE  q(a, "connect") \in RequestStates /\ Known(q(a, "connect"))
    <3>1. q(a, "connect") \in RequestStates
      BY <1>q, <2>4 DEF RequestStates
    <3> QED
      BY <1>q, <2>4, <2>5, <3>1 DEF Known, RequestStates
  <2>6. ASSUME NEW a \in Accounts, req[r].purpose # "link"
        PROVE  q(a, "finish") \in RequestStates /\ Known(q(a, "finish"))
    <3>1. q(a, "finish") \in RequestStates
      BY <1>q, <2>4 DEF RequestStates
    <3> QED
      BY <1>q, <2>1, <2>4, <2>6, <3>1 DEF Known, RequestStates
  <2>7. owners[req[r].profile] \subseteq Accounts
    BY <2>1 DEF IdentitiesOK
  <2> HIDE DEF q
  <2>8. CASE End(r)
    BY <2>8, EndKeepsRequests
  <2>9. CASE req[r].purpose = "link" /\ Go(r, "cloudRole")
    BY <2>9, <2>3, <2>4, GoKeepsRequests
  <2>10. ASSUME NEW a \in owners[req[r].profile],
                req' = [req EXCEPT ![r] =
                          q(a, IF req[r].purpose = "link" THEN "connect" ELSE "finish")]
         PROVE  RequestsOK'
    <3>1. CASE req[r].purpose = "link"
      BY <2>5, <2>7, <2>10, <3>1, MoveKeepsRequests
    <3>2. CASE req[r].purpose # "link"
      BY <2>6, <2>7, <2>10, <3>2, MoveKeepsRequests
    <3> QED
      BY <3>1, <3>2
  <2> QED
    BY <2>2, <2>8, <2>9, <2>10
<1>8. CASE CloudRole(r)
  <2>1. CASE req[r].purpose = "link"
    <3>1. Known(Sent("link"))
      BY <1>q, <1>8, <2>1 DEF CloudRole, Known, RequestStates
    <3>2. End(r) \/ Go(r, "link")
      BY <1>8, <2>1 DEF CloudRole, Gate
    <3> QED
      BY <3>1, <3>2, EndKeepsRequests, GoKeepsRequests DEF Places
  <2>2. CASE req[r].purpose # "link"
    <3>1. Known(Sent("linkedWeb"))
      BY <1>q, <1>8, <2>2 DEF CloudRole, Known, RequestStates
    <3>2. End(r) \/ Go(r, "linkedWeb")
      BY <1>8, <2>2 DEF CloudRole, Gate
    <3> QED
      BY <3>1, <3>2, EndKeepsRequests, GoKeepsRequests DEF Places
  <2> QED
    BY <2>1, <2>2
<1>9. CASE LinkIdentity(r)
  <2>1. Known(Sent("issueRole"))
    BY <1>q, <1>9 DEF LinkIdentity, Known, RequestStates
  <2>2. End(r) \/ Go(r, "issueRole")
    BY <1>9 DEF LinkIdentity
  <2> QED
    BY <2>1, <2>2, EndKeepsRequests, GoKeepsRequests DEF Places
<1>10. CASE ReadWeb(r)
  <2> DEFINE q == [req[r] EXCEPT !.at = "issueRole", !.web = LinkedWeb(req[r].cloud)]
  <2>1. LinkedWeb(req[r].cloud) \in Accounts
    BY <1>q, <1>10 DEF ReadWeb, Known, LinkedWeb, Webs
  <2>2. "issueRole" \in Places
    BY DEF Places
  <2>3. q \in RequestStates
    BY <1>q, <2>1, <2>2 DEF RequestStates
  <2>4. Known(q)
    BY <1>q, <2>1, <1>10 DEF ReadWeb, Known, RequestStates
  <2> QED
    BY <1>10, <2>3, <2>4, MoveKeepsRequests DEF ReadWeb
<1>11. CASE IssueRole(r)
  <2>1. Known(Sent("issue"))
    BY <1>q, <1>11 DEF IssueRole, Known, RequestStates
  <2>2. End(r) \/ Go(r, "issue")
    BY <1>11 DEF IssueRole, Gate
  <2> QED
    BY <2>1, <2>2, EndKeepsRequests, GoKeepsRequests DEF Places
<1>12. ASSUME NEW s \in Sessions, Issue(r, s)
       PROVE  RequestsOK'
  BY <1>12, EndKeepsRequests DEF Issue
<1> QED
  BY <1>1, <1>2, <1>3, <1>4, <1>5, <1>6, <1>7, <1>8, <1>9, <1>10, <1>11, <1>12,
     BrowserStartsKeepRequests DEF BrowserStep

LEMMA RequestsKept ==
  ASSUME Inv, Next
  PROVE  RequestsOK'
<1>1. ASSUME NEW r \in Requests, NEW a \in Accounts, NEW n \in {"member", "admin"},
             CreateAccount(r, a, n)
      PROVE  RequestsOK'
  <2> DEFINE q == [Idle EXCEPT
         !.at = "create", !.kind = "create", !.web = a, !.grant = n]
  <2>1. "create" \in Places /\ "create" \in Kinds
    BY DEF Places, Kinds
  <2>2. q \in RequestStates
    BY <2>1, IdleIsKnown DEF RequestStates
  <2>3. Known(q)
    BY DEF Idle, Known
  <2> QED
    BY <1>1, <2>2, <2>3, MoveKeepsRequests DEF CreateAccount, Begin, Inv
<1>2. ASSUME NEW r \in Requests, GiveRole(r)
      PROVE  RequestsOK'
  BY <1>2, EndKeepsRequests DEF GiveRole, Inv
<1>3. UNCHANGED req => RequestsOK'
  BY DEF Inv, RequestsOK
<1>4. SessionStep => UNCHANGED req
  BY DEF SessionStep, Refresh, Logout, Expire, CreateChallenge, StartFlow, Lapse
<1>5. Administer => \/ UNCHANGED req
                    \/ \E r \in Requests, a \in Accounts, n \in {"member", "admin"} :
                         CreateAccount(r, a, n)
                    \/ \E r \in Requests : GiveRole(r)
  BY DEF Administer, Register, UpdateAccount, ToggleProvider
<1> QED
  BY <1>1, <1>2, <1>3, <1>4, <1>5, SignInKeepsRequests, ChallengeKeepsRequests,
     BrowserKeepsRequests DEF Next

----------------------------------------------------------------------------
(* The sessions.  A step leaves them alone, inserts a row, changes one       *)
(* without giving it life, refreshes one, or ends all those of an account.   *)
Inserted(s, a, since, by, out) ==
  /\ NewSession(s, a, since, by, s, out)
  /\ UNCHANGED updates
  /\ by = "signin" => since = updates[a]
(* What is left of the row: it lives only if it did, and then tells the same. *)
Narrowed(s, row) ==
  /\ session' = [session EXCEPT ![s] = row]
  /\ UNCHANGED updates
  /\ row.account = session[s].account
  /\ row.live => /\ session[s].live
                 /\ row.root = session[s].root /\ row.by = session[s].by
                 /\ row.since = session[s].since
Refreshed(s, t) ==
  /\ session[s].live /\ Unused(t)
  /\ session' = [session EXCEPT
       ![s] = Ended(@),
       ![t] = [session[s] EXCEPT !.fresh = TRUE]]
  /\ UNCHANGED updates
AllEnded(a) ==
  /\ RevokeAll(a)
  /\ updates' = [updates EXCEPT ![a] = @ + 1]
SessionChange ==
  \/ UNCHANGED <<session, updates>>
  \/ \E s \in Sessions, a \in Accounts, since \in Nat, by \in {"signin", "link"},
        out \in BOOLEAN : Inserted(s, a, since, by, out)
  \/ \E s \in Sessions, row \in SessionRows : Narrowed(s, row)
  \/ \E s, t \in Sessions : Refreshed(s, t)
  \/ \E a \in Accounts : AllEnded(a)

LEMMA RevokedIsNarrowed ==
  ASSUME SessionsOK, NEW s \in Sessions, Revoke(s), UNCHANGED updates
  PROVE  Narrowed(s, Ended(session[s])) /\ Ended(session[s]) \in SessionRows
<1>1. session[s] \in SessionRows
  BY DEF SessionsOK
<1>2. Ended(session[s]) \in SessionRows
  BY <1>1 DEF Ended, NoSession, SessionRows
<1>3. Ended(session[s]).account = session[s].account /\ ~Ended(session[s]).live
  BY DEF Ended, NoSession
<1> QED
  BY <1>2, <1>3 DEF Revoke, Narrowed

LEMMA SignedInIsInserted ==
  ASSUME AccountsOK, NEW s \in Sessions, NEW a \in Accounts, NEW out \in BOOLEAN,
         SignIn(s, a, out), UNCHANGED updates
  PROVE  SessionChange
<1>1. updates[a] \in Nat
  BY NamesAssumption DEF AccountsOK
<1>2. Inserted(s, a, updates[a], "signin", out)
  BY DEF SignIn, Inserted
<1> QED
  BY <1>1, <1>2 DEF SessionChange

LEMMA SessionSteps ==
  ASSUME Inv, Next
  PROVE  SessionChange
<1> USE DEF Inv
<1>q. \A r \in Requests : req[r] \in RequestStates /\ Known(req[r])
  BY DEF RequestsOK
<1>r. \A s \in Sessions : session[s] \in SessionRows
  BY DEF SessionsOK
<1>1. ASSUME NEW r \in Requests, NEW s \in Sessions, Verify(r, s)
      PROVE  SessionChange
  <2>1. req[r].at = "verify" /\ UNCHANGED updates
    BY <1>1 DEF Verify, accountVars
  <2>2. Claimant(r) \in Accounts
    BY <1>q, <2>1 DEF Known, Claimant
  <2>3. UNCHANGED session \/ SignIn(s, Claimant(r), req[r].kind = "api")
    BY <1>1 DEF Verify
  <2> QED
    BY <2>1, <2>2, <2>3, SignedInIsInserted DEF SessionChange
<1>2. ASSUME NEW r \in Requests, ReadRole(r)
      PROVE  SessionChange
  <2> DEFINE s == req[r].session
             row == [session[s] EXCEPT !.out = TRUE]
  <2>1. s \in Sessions /\ UNCHANGED updates
    BY <1>q, <1>2 DEF ReadRole, Known, accountVars
  <2>2. UNCHANGED session \/ session' = [session EXCEPT ![s] = row]
    BY <1>2 DEF ReadRole
  <2>3. row \in SessionRows
    BY ZenonT(60), <1>r, <2>1 DEF SessionRows
  <2>4. row.account = session[s].account /\ row.live = session[s].live
        /\ row.root = session[s].root /\ row.by = session[s].by
        /\ row.since = session[s].since
    BY <1>r, <2>1 DEF SessionRows
  <2> QED
    BY <2>1, <2>2, <2>3, <2>4 DEF SessionChange, Narrowed
<1>3. ASSUME NEW r \in Requests, RevokeIssued(r)
      PROVE  SessionChange
  <2>1. req[r].session \in Sessions /\ UNCHANGED updates /\ Revoke(req[r].session)
    BY <1>q, <1>3 DEF RevokeIssued, Known, accountVars
  <2> QED
    BY <2>1, RevokedIsNarrowed DEF SessionChange
<1>4. ASSUME NEW r \in Requests, NEW s \in Sessions, FinishLogin(r, s)
      PROVE  SessionChange
  <2>1. req[r].profile \in Profiles /\ UNCHANGED updates
    BY <1>q, <1>4 DEF FinishLogin, At, Known, accountVars
  <2>2. PICK a \in owners[req[r].profile] : SignIn(s, a, TRUE)
    BY <1>4 DEF FinishLogin
  <2>3. a \in Accounts
    BY <2>1, <2>2 DEF IdentitiesOK
  <2> QED
    BY <2>1, <2>2, <2>3, SignedInIsInserted
<1>5. ASSUME NEW r \in Requests, NEW s \in Sessions, Issue(r, s)
      PROVE  SessionChange
  <2>1. req[r].web \in Accounts /\ UNCHANGED updates
    BY <1>q, <1>5 DEF Issue, Known, accountVars
  <2>2. CASE req[r].actor \in Sessions
    <3>1. NewSession(s, req[r].web, session[req[r].actor].since, "link", s, TRUE)
      BY <1>5, <2>2 DEF Issue
    <3>2. session[req[r].actor].since \in Nat
      BY <1>r, <2>2 DEF SessionRows
    <3>3. Inserted(s, req[r].web, session[req[r].actor].since, "link", TRUE)
      BY <2>1, <3>1 DEF Inserted
    <3> QED
      BY <2>1, <3>2, <3>3 DEF SessionChange
  <2>3. CASE req[r].actor \notin Sessions
    BY <1>5, <2>1, <2>3, SignedInIsInserted DEF Issue
  <2> QED
    BY <2>2, <2>3
<1>6. ASSUME NEW s \in Sessions, Expire(s)
      PROVE  SessionChange
  <2> DEFINE row == IF session[s].fresh THEN [session[s] EXCEPT !.fresh = FALSE]
                                        ELSE Ended(session[s])
  <2>1. session' = [session EXCEPT ![s] = row] /\ UNCHANGED updates
    BY <1>6 DEF Expire, accountVars
  <2>2. row \in SessionRows
    BY <1>r DEF SessionRows, Ended, NoSession
  <2>3. row.account = session[s].account
        /\ (row.live => /\ session[s].live
                        /\ row.root = session[s].root /\ row.by = session[s].by
                        /\ row.since = session[s].since)
    BY <1>r DEF SessionRows, Ended, NoSession
  <2> QED
    BY <2>1, <2>2, <2>3 DEF SessionChange, Narrowed
<1>7. ASSUME NEW s \in Sessions, Logout(s)
      PROVE  SessionChange
  <2>1. Revoke(s) /\ UNCHANGED updates
    BY <1>7 DEF Logout, accountVars
  <2> QED
    BY <2>1, RevokedIsNarrowed DEF SessionChange
<1>8. ASSUME NEW s \in Sessions, NEW t \in Sessions, Refresh(s, t)
      PROVE  SessionChange
  BY <1>8 DEF Refresh, Refreshed, SessionChange, accountVars
<1>9. ASSUME NEW a \in Accounts, NEW n, NEW off, NEW reset, SetAccount(a, n, off, reset)
      PROVE  SessionChange
  BY <1>9 DEF SetAccount, AllEnded, SessionChange
<1>10. ASSUME NEW r \in Requests, GiveRole(r)
       PROVE  SessionChange
  <2>1. req[r].web \in Accounts
    BY <1>q, <1>10 DEF GiveRole, Known
  <2> QED
    BY <1>9, <1>10, <2>1 DEF GiveRole
<1>11. Administer => SessionChange
  BY <1>9, <1>10 DEF Administer, Register, UpdateAccount, CreateAccount,
     ToggleProvider, SessionChange, accountVars
<1>12. SessionStep => SessionChange
  BY <1>6, <1>7, <1>8 DEF SessionStep, CreateChallenge, StartFlow, Lapse,
     SessionChange, accountVars
<1>13. ASSUME NEW r \in Requests, SignInStep(r)
       PROVE  SessionChange
  BY ZenonT(60), <1>1, <1>2, <1>3, <1>13 DEF SignInStep, StartSignIn, StartConnect,
     CheckDisabled, Gate, Connect, Withdraw, SessionChange, accountVars
<1>14. ASSUME NEW r \in Requests, ChallengeStep(r)
       PROVE  SessionChange
  BY ZenonT(60), <1>4, <1>14 DEF ChallengeStep, Claim, FindProvider, Gate,
     FinishLink,
     SessionChange, accountVars
<1>15. ASSUME NEW r \in Requests, BrowserStep(r)
       PROVE  SessionChange
  BY ZenonT(60), <1>5, <1>15 DEF BrowserStep, StartBrowser, Callback, Redeem,
     TakeFlow,
     Validate, StoreTicket, ProveProfile, RecheckProvider, WebRole, ReadLink,
     ReadOwner, CloudRole, LinkIdentity, ReadWeb, IssueRole, Gate,
     SessionChange, accountVars
<1> QED
  BY <1>11, <1>12, <1>13, <1>14, <1>15 DEF Next

LEMMA SessionsKept ==
  ASSUME Inv, Next
  PROVE  SessionsOK'
<1> USE DEF Inv
<1>1. CASE UNCHANGED session
  BY <1>1 DEF SessionsOK
<1>2. ASSUME NEW s \in Sessions, NEW a \in Accounts, NEW since \in Nat,
             NEW by \in {"signin", "link"}, NEW out \in BOOLEAN,
             Inserted(s, a, since, by, out)
      PROVE  SessionsOK'
  <2> DEFINE row == [account |-> a, live |-> TRUE, fresh |-> TRUE, since |-> since,
                     by |-> by, root |-> s, out |-> out]
  <2>1. session' = [session EXCEPT ![s] = row] /\ session[s].account = Nil
    BY <1>2 DEF Inserted, NewSession, Unused
  <2>2. row \in SessionRows /\ row.account # Nil
    BY NamesAssumption DEF SessionRows
  <2>3. row.account \in Accounts /\ row.root = s
    OBVIOUS
  <2> HIDE DEF row
  <2> QED
    BY <2>1, <2>2, <2>3 DEF SessionsOK
<1>3. ASSUME NEW s \in Sessions, NEW row \in SessionRows, Narrowed(s, row)
      PROVE  SessionsOK'
  BY <1>3 DEF SessionsOK, Narrowed
<1>4. ASSUME NEW s \in Sessions, NEW t \in Sessions, Refreshed(s, t)
      PROVE  SessionsOK'
  <2> DEFINE old == Ended(session[s])
             new == [session[s] EXCEPT !.fresh = TRUE]
  <2>1. session' = [session EXCEPT ![s] = old, ![t] = new]
        /\ session[s].live /\ session[t].account = Nil
    BY <1>4 DEF Refreshed, Unused
  <2>2. session[s] \in SessionRows /\ session[s].account # Nil /\ s # t
    BY <2>1, NamesAssumption DEF SessionsOK
  <2>3. /\ old \in SessionRows /\ ~old.live /\ old.account = session[s].account
        /\ new \in SessionRows /\ new.account = session[s].account
        /\ new.root = session[s].root
    BY <2>2 DEF Ended, NoSession, SessionRows
  <2> HIDE DEF old, new
  <2> QED
    BY <2>1, <2>2, <2>3 DEF SessionsOK
<1>5. ASSUME NEW a \in Accounts, AllEnded(a)
      PROVE  SessionsOK'
  <2>1. \A s \in Sessions : session[s] \in SessionRows
    BY DEF SessionsOK
  <2>2. \A s \in Sessions : /\ Ended(session[s]) \in SessionRows
                            /\ ~Ended(session[s]).live
                            /\ Ended(session[s]).account = session[s].account
    BY <2>1 DEF Ended, NoSession, SessionRows
  <2>3. \A s \in Sessions : /\ session'[s] \in SessionRows
                            /\ session'[s].account = session[s].account
                            /\ session'[s].live => session'[s] = session[s]
    BY <1>5, <2>1, <2>2 DEF AllEnded, RevokeAll
  <2>4. session' \in [Sessions -> SessionRows]
    BY <1>5, <2>3 DEF AllEnded, RevokeAll
  <2> QED
    BY <2>3, <2>4 DEF SessionsOK
<1> QED
  BY <1>1, <1>2, <1>3, <1>4, <1>5, SessionSteps DEF SessionChange

LEMMA UpdatesEndSignInsStep ==
  ASSUME Inv, UpdatesEndSignIns, Next
  PROVE  UpdatesEndSignIns'
<1> USE DEF Inv
<1>r. /\ session \in [Sessions -> SessionRows]
      /\ updates \in [Accounts -> 0..MaxUpdates]
  BY DEF SessionsOK, AccountsOK
<1>1. CASE UNCHANGED <<session, updates>>
  BY <1>1 DEF UpdatesEndSignIns
<1>2. ASSUME NEW s \in Sessions, NEW a \in Accounts, NEW since \in Nat,
             NEW by \in {"signin", "link"}, NEW out \in BOOLEAN,
             Inserted(s, a, since, by, out)
      PROVE  UpdatesEndSignIns'
  BY <1>r, <1>2 DEF Inserted, NewSession, UpdatesEndSignIns
<1>3. ASSUME NEW s \in Sessions, NEW row \in SessionRows, Narrowed(s, row)
      PROVE  UpdatesEndSignIns'
  BY <1>r, <1>3 DEF Narrowed, UpdatesEndSignIns
<1>4. ASSUME NEW s \in Sessions, NEW t \in Sessions, Refreshed(s, t)
      PROVE  UpdatesEndSignIns'
  <2>1. ~Ended(session[s]).live
    BY DEF Ended, NoSession
  <2> QED
    BY <1>r, <1>4, <2>1 DEF Refreshed, SessionRows, UpdatesEndSignIns
<1>5. ASSUME NEW a \in Accounts, AllEnded(a)
      PROVE  UpdatesEndSignIns'
  <2>1. ASSUME NEW s \in Sessions, session'[s].live
        PROVE  session'[s] = session[s] /\ session[s].account # a
    BY <1>r, <1>5, <2>1 DEF AllEnded, RevokeAll, Ended, NoSession
  <2>2. \A b \in Accounts : b # a => updates'[b] = updates[b]
    BY <1>r, <1>5 DEF AllEnded
  <2>3. \A s \in Sessions : session[s].live => session[s].account \in Accounts
    BY DEF SessionsOK
  <2> QED
    BY <2>1, <2>2, <2>3 DEF UpdatesEndSignIns
<1> QED
  BY <1>1, <1>2, <1>3, <1>4, <1>5, SessionSteps DEF SessionChange

LEMMA OneSessionPerSignInStep ==
  ASSUME Inv, OneSessionPerSignIn, Next
  PROVE  OneSessionPerSignIn'
<1> USE DEF Inv
<1>r. session \in [Sessions -> SessionRows]
  BY DEF SessionsOK
<1>1. CASE UNCHANGED <<session, updates>>
  BY <1>1 DEF OneSessionPerSignIn
<1>2. ASSUME NEW s \in Sessions, NEW a \in Accounts, NEW since \in Nat,
             NEW by \in {"signin", "link"}, NEW out \in BOOLEAN,
             Inserted(s, a, since, by, out)
      PROVE  OneSessionPerSignIn'
  <2>1. /\ session'[s].root = s
        /\ \A t \in Sessions : t # s => session'[t] = session[t]
    BY <1>r, <1>2 DEF Inserted, NewSession
  <2>2. session[s].account = Nil
    BY <1>2 DEF Inserted, NewSession, Unused
  <2>3. \A t \in Sessions : session[t].live => session[t].root # s
    BY <2>2 DEF SessionsOK
  <2> QED
    BY <2>1, <2>3 DEF OneSessionPerSignIn
<1>3. ASSUME NEW s \in Sessions, NEW row \in SessionRows, Narrowed(s, row)
      PROVE  OneSessionPerSignIn'
  BY <1>r, <1>3 DEF Narrowed, OneSessionPerSignIn
<1>4. ASSUME NEW s \in Sessions, NEW t \in Sessions, Refreshed(s, t)
      PROVE  OneSessionPerSignIn'
  <2>1. ~Ended(session[s]).live
    BY DEF Ended, NoSession
  <2> QED
    BY <1>r, <1>4, <2>1 DEF Refreshed, SessionRows, OneSessionPerSignIn
<1>5. ASSUME NEW a \in Accounts, AllEnded(a)
      PROVE  OneSessionPerSignIn'
  <2>1. ASSUME NEW s \in Sessions, session'[s].live
        PROVE  session'[s] = session[s]
    BY <1>r, <1>5, <2>1 DEF AllEnded, RevokeAll, Ended, NoSession
  <2> QED
    BY <2>1 DEF OneSessionPerSignIn
<1> QED
  BY <1>1, <1>2, <1>3, <1>4, <1>5, SessionSteps DEF SessionChange

----------------------------------------------------------------------------
(* The identities and the links.  Three actions change them, in two ways.    *)
Connected(web, cloud) ==
  /\ web # cloud /\ MayConnect(web, cloud)
  /\ link' = [link EXCEPT ![web] = cloud] /\ MoveIdentities(web, cloud)
Linked(a, p) == MayLink(a, p) /\ LinkProfile(a, p) /\ UNCHANGED link
IdentityChange ==
  \/ UNCHANGED identityVars
  \/ \E web, cloud \in Accounts : Connected(web, cloud)
  \/ \E a \in Accounts, p \in Profiles : Linked(a, p)

LEMMA IdentitySteps ==
  ASSUME Inv, Next
  PROVE  IdentityChange
<1> USE DEF Inv
<1>q. \A r \in Requests : req[r] \in RequestStates /\ Known(req[r])
  BY DEF RequestsOK
<1>1. ASSUME NEW r \in Requests, Connect(r)
      PROVE  IdentityChange
  <2>1. req[r].web \in Accounts /\ req[r].cloud \in Accounts
    BY <1>q, <1>1 DEF Connect, Known
  <2>2. UNCHANGED identityVars \/ Connected(req[r].web, req[r].cloud)
    BY <1>1 DEF Connect, Connected
  <2> QED
    BY <2>1, <2>2 DEF IdentityChange
<1>2. ASSUME NEW r \in Requests, FinishLink(r)
      PROVE  IdentityChange
  <2>1. req[r].web \in Accounts /\ req[r].profile \in Profiles
    BY <1>q, <1>2 DEF FinishLink, At, Known
  <2>2. UNCHANGED identityVars \/ Linked(req[r].web, req[r].profile)
    BY <1>2 DEF FinishLink, Linked, identityVars
  <2> QED
    BY <2>1, <2>2 DEF IdentityChange
<1>3. ASSUME NEW r \in Requests, LinkIdentity(r)
      PROVE  IdentityChange
  <2>1. req[r].cloud \in Accounts /\ req[r].profile \in Profiles
    BY <1>q, <1>3 DEF LinkIdentity, Known
  <2>2. UNCHANGED identityVars \/ Linked(req[r].cloud, req[r].profile)
    BY SMTT(40), <1>3 DEF LinkIdentity, Linked, identityVars
  <2> QED
    BY <2>1, <2>2 DEF IdentityChange
<1>4. Administer \/ SessionStep => UNCHANGED identityVars
  BY ZenonT(60) DEF Administer, Register, UpdateAccount, CreateAccount, GiveRole,
     SetAccount,
     ToggleProvider, SessionStep, Refresh, Logout, Expire, CreateChallenge,
     StartFlow, Lapse
<1>5. ASSUME NEW r \in Requests, SignInStep(r)
      PROVE  IdentityChange
  BY ZenonT(60), <1>1, <1>5 DEF SignInStep, StartSignIn, StartConnect,
     CheckDisabled, Gate,
     Verify, ReadRole, RevokeIssued, Withdraw, IdentityChange
<1>6. ASSUME NEW r \in Requests, ChallengeStep(r)
      PROVE  IdentityChange
  BY ZenonT(60), <1>2, <1>6 DEF ChallengeStep, Claim, FindProvider, Gate,
     FinishLogin,
     IdentityChange
<1>7. ASSUME NEW r \in Requests, BrowserStep(r)
      PROVE  IdentityChange
  BY ZenonT(60), <1>3, <1>7 DEF BrowserStep, StartBrowser, Callback, Redeem,
     TakeFlow,
     Validate, StoreTicket, ProveProfile, RecheckProvider, WebRole, ReadLink,
     ReadOwner, CloudRole, ReadWeb, IssueRole, Issue, Gate, IdentityChange
<1> QED
  BY <1>4, <1>5, <1>6, <1>7 DEF Next, IdentityChange

LEMMA EnabledSteps ==
  ASSUME Inv, Next
  PROVE  enabled' \in SUBSET Providers
<1>1. Administer => UNCHANGED enabled \/ \E i \in Providers : ToggleProvider(i)
  BY ZenonT(60) DEF Administer, Register, UpdateAccount, CreateAccount, GiveRole,
     SetAccount
<1>2. SessionStep => UNCHANGED enabled
  BY DEF SessionStep, Refresh, Logout, Expire, CreateChallenge, StartFlow, Lapse
<1>3. \A r \in Requests : SignInStep(r) => UNCHANGED enabled
  BY ZenonT(60) DEF SignInStep, StartSignIn, StartConnect, CheckDisabled, Gate,
     Verify,
     ReadRole, RevokeIssued, Connect, Withdraw
<1>4. \A r \in Requests : ChallengeStep(r) => UNCHANGED enabled
  BY ZenonT(60) DEF ChallengeStep, Claim, FindProvider, Gate, FinishLink,
     FinishLogin
<1>5. \A r \in Requests : BrowserStep(r) => UNCHANGED enabled
  BY ZenonT(60) DEF BrowserStep, StartBrowser, Callback, Redeem, TakeFlow, Validate,
     StoreTicket, ProveProfile, RecheckProvider, WebRole, ReadLink, ReadOwner,
     CloudRole, LinkIdentity, ReadWeb, IssueRole, Issue, Gate
<1> QED
  BY SMTT(40), <1>1, <1>2, <1>3, <1>4, <1>5 DEF Next, Inv, IdentitiesOK,
     ToggleProvider

LEMMA IdentitiesKept ==
  ASSUME Inv, Next
  PROVE  IdentitiesOK'
<1> USE DEF Inv
<1>1. CASE UNCHANGED identityVars
  BY <1>1, EnabledSteps DEF IdentitiesOK, identityVars
<1>2. ASSUME NEW web \in Accounts, NEW cloud \in Accounts, Connected(web, cloud)
      PROVE  IdentitiesOK'
  BY <1>2, EnabledSteps DEF Connected, MoveIdentities, IdentitiesOK
<1>3. ASSUME NEW a \in Accounts, NEW p \in Profiles, Linked(a, p)
      PROVE  IdentitiesOK'
  BY <1>3, EnabledSteps DEF Linked, LinkProfile, IdentitiesOK
<1> QED
  BY <1>1, <1>2, <1>3, IdentitySteps DEF IdentityChange

LEMMA OneOwnerStep ==
  ASSUME Inv, OneOwner, Next
  PROVE  OneOwner'
<1> USE DEF Inv
<1>1. CASE UNCHANGED identityVars
  BY <1>1 DEF OneOwner, identityVars
<1>2. ASSUME NEW web \in Accounts, NEW cloud \in Accounts, Connected(web, cloud)
      PROVE  OneOwner'
  BY <1>2 DEF Connected, MoveIdentities, IdentitiesOK, OneOwner
<1>3. ASSUME NEW a \in Accounts, NEW p \in Profiles, Linked(a, p)
      PROVE  OneOwner'
  BY <1>3 DEF Linked, MayLink, LinkProfile, IdentitiesOK, OneOwner
<1> QED
  BY <1>1, <1>2, <1>3, IdentitySteps DEF IdentityChange

LEMMA BindingsStayStep ==
  ASSUME Inv, OneOwner, Next, NEW p \in Profiles, NEW a \in owners[p]
  PROVE  a \in owners'[p] \/ (link'[a] # Nil /\ owners'[p] = {link'[a]})
<1> USE DEF Inv
<1>1. CASE UNCHANGED identityVars
  BY <1>1 DEF identityVars
<1>2. ASSUME NEW web \in Accounts, NEW cloud \in Accounts, Connected(web, cloud)
      PROVE  a \in owners'[p] \/ (link'[a] # Nil /\ owners'[p] = {link'[a]})
  <2>1. owners[p] = {a} /\ a \in Accounts
    BY DEF OneOwner, IdentitiesOK
  <2>2. owners'[p] = IF a = web THEN {cloud} ELSE {a}
    BY <1>2, <2>1 DEF Connected, MoveIdentities
  <2>3. link'[web] = cloud /\ cloud # Nil
    BY <1>2, NamesAssumption DEF Connected, IdentitiesOK
  <2> QED
    BY <2>2, <2>3
<1>3. ASSUME NEW b \in Accounts, NEW q \in Profiles, Linked(b, q)
      PROVE  a \in owners'[p]
  BY <1>3 DEF Linked, LinkProfile, IdentitiesOK
<1> QED
  BY <1>1, <1>2, <1>3, IdentitySteps DEF IdentityChange

LEMMA LinksPairAccountsStep ==
  ASSUME Inv, LinksPairAccounts, Next
  PROVE  LinksPairAccounts'
<1> USE DEF Inv
<1>1. CASE UNCHANGED link
  BY <1>1 DEF LinksPairAccounts
<1>2. ASSUME NEW web \in Accounts, NEW cloud \in Accounts, Connected(web, cloud)
      PROVE  LinksPairAccounts'
  <2>1. link \in [Accounts -> Accounts \cup {Nil}] /\ cloud # Nil
    BY NamesAssumption DEF IdentitiesOK
  <2>2. /\ web # cloud /\ link[cloud] = Nil
        /\ \A a \in Accounts : link[a] # web
        /\ \A a \in Accounts : link[a] = cloud => a = web
    BY <1>2 DEF Connected, MayConnect, Conflict, Webs
  <2>3. link' = [link EXCEPT ![web] = cloud]
    BY <1>2 DEF Connected
  <2> QED
    BY <2>1, <2>2, <2>3 DEF LinksPairAccounts
<1> QED
  BY <1>1, <1>2, IdentitySteps DEF IdentityChange, Linked, identityVars

----------------------------------------------------------------------------
(* The challenges and the flows, and who carries them.                       *)
NoneTaken ==
  UNCHANGED proofVars /\ \A q \in Requests : req'[q].proof \in {req[q].proof, Nil}
Opened(x, row) ==
  /\ proof[x] = NoProof /\ row.status = "open"
  /\ row.purpose = "link" => row.account \in Accounts
  /\ x \in Challenges => row.profile \in Profiles
  /\ proof' = [proof EXCEPT ![x] = row]
  /\ UNCHANGED <<uses, req>>
Taken(r, x, status) ==
  /\ proof[x].status \in {"open", "ticket"} /\ Settle(x, status) /\ UNCHANGED uses
  /\ req'[r].proof = x /\ \A q \in Requests \ {r} : req'[q] = req[q]
Lapsed(x) ==
  /\ proof[x].status \in {"open", "ticket"} /\ Settle(x, "lapsed")
  /\ UNCHANGED <<uses, req>>
Ticketed(r, row) ==
  /\ row.status = "ticket" /\ row.profile \in Profiles
  /\ row.purpose = "link" => row.account \in Accounts
  /\ req[r].proof \in Flows
  /\ proof' = [proof EXCEPT ![req[r].proof] = row] /\ UNCHANGED uses
  /\ End(r)
Spent(r) == UNCHANGED proof /\ Used(r) /\ End(r)
ProofChange ==
  \/ NoneTaken
  \/ \E x \in Challenges \cup Flows, row \in ProofRows : Opened(x, row)
  \/ \E r \in Requests, x \in Challenges \cup Flows, status \in {"consumed", "taken"} :
       Taken(r, x, status)
  \/ \E x \in Challenges \cup Flows : Lapsed(x)
  \/ \E r \in Requests, row \in ProofRows : Ticketed(r, row)
  \/ \E r \in Requests : Spent(r)

LEMMA MoveTakesNone ==
  ASSUME RequestsOK, UNCHANGED proofVars, NEW r \in Requests, NEW q,
         req' = [req EXCEPT ![r] = q], q.proof \in {req[r].proof, Nil}
  PROVE  NoneTaken
  BY DEF RequestsOK, NoneTaken

LEMMA EndTakesNone ==
  ASSUME RequestsOK, UNCHANGED proofVars, NEW r \in Requests, End(r)
  PROVE  NoneTaken
  BY MoveTakesNone DEF End, Idle

LEMMA GoTakesNone ==
  ASSUME RequestsOK, UNCHANGED proofVars, NEW r \in Requests, NEW place, Go(r, place)
  PROVE  NoneTaken
<1>1. req' = [req EXCEPT ![r] = [req[r] EXCEPT !.at = place]]
  BY DEF Go
<1>2. [req[r] EXCEPT !.at = place].proof = req[r].proof
  BY DEF RequestsOK, RequestStates
<1> QED
  BY <1>1, <1>2, MoveTakesNone

LEMMA GateTakesNone ==
  ASSUME RequestsOK, NEW r \in Requests, NEW passed, NEW place, Gate(r, passed, place)
  PROVE  NoneTaken
<1>1. UNCHANGED proofVars
  BY DEF Gate
<1>2. End(r) \/ Go(r, place)
  BY DEF Gate
<1> QED
  BY <1>1, <1>2, EndTakesNone, GoTakesNone

LEMMA SignInTakesNone ==
  ASSUME Inv, NEW r \in Requests, SignInStep(r)
  PROVE  NoneTaken
<1> USE DEF Inv
<1>q. req[r] \in RequestStates
  BY DEF RequestsOK
<1>p. UNCHANGED proofVars
  BY DEF SignInStep, StartSignIn, StartConnect, CheckDisabled, Gate, Verify,
     ReadRole, RevokeIssued, Connect, Withdraw
<1>1. ASSUME NEW kind \in {"api", "account", "console"}, NEW a \in Accounts,
             StartSignIn(r, kind, a)
      PROVE  NoneTaken
  <2> DEFINE q == [Idle EXCEPT !.at = "check", !.kind = kind, !.web = a,
                               !.password = password[a]]
  <2>1. q.proof = Nil
    BY DEF Idle
  <2> QED
    BY <1>p, <1>1, <2>1, MoveTakesNone DEF StartSignIn, Begin
<1>2. ASSUME NEW x \in Actors, NEW a \in Accounts, StartConnect(r, x, a)
      PROVE  NoneTaken
  <2> DEFINE q == [Idle EXCEPT !.at = "check", !.kind = "connect", !.actor = x,
                     !.web = ActorOf(x), !.cloud = a, !.password = password[a]]
  <2>1. q.proof = Nil
    BY DEF Idle
  <2> QED
    BY <1>p, <1>2, <2>1, MoveTakesNone DEF StartConnect, Begin
<1>3. CASE CheckDisabled(r)
  BY <1>3, GateTakesNone DEF CheckDisabled
<1>4. ASSUME NEW s \in Sessions, Verify(r, s)
      PROVE  NoneTaken
  <2> DEFINE q(place) == [req[r] EXCEPT !.at = place, !.session = s]
  <2>1. q("revoke").proof = req[r].proof /\ q("role").proof = req[r].proof
    BY <1>q DEF RequestStates
  <2>2. \/ End(r)
        \/ req' = [req EXCEPT ![r] = q("revoke")]
        \/ req' = [req EXCEPT ![r] = q("role")]
    BY <1>4 DEF Verify
  <2> QED
    BY <1>p, <2>1, <2>2, EndTakesNone, MoveTakesNone
<1>5. CASE ReadRole(r)
  <2>1. End(r) \/ Go(r, "revoke")
    BY <1>5 DEF ReadRole
  <2> QED
    BY <1>p, <2>1, EndTakesNone, GoTakesNone
<1>6. CASE RevokeIssued(r)
  <2> DEFINE q == [req[r] EXCEPT !.at = "connect", !.session = Nil]
  <2>1. q.proof = req[r].proof
    BY <1>q DEF RequestStates
  <2>2. End(r) \/ req' = [req EXCEPT ![r] = q]
    BY <1>6 DEF RevokeIssued
  <2> QED
    BY <1>p, <2>1, <2>2, EndTakesNone, MoveTakesNone
<1>7. CASE Connect(r)
  <2>1. End(r) \/ Go(r, "cloudRole")
    BY <1>7 DEF Connect
  <2> QED
    BY <1>p, <2>1, EndTakesNone, GoTakesNone
<1>8. CASE Withdraw(r)
  BY <1>p, <1>8, EndTakesNone DEF Withdraw
<1> QED
  BY <1>1, <1>2, <1>3, <1>4, <1>5, <1>6, <1>7, <1>8 DEF SignInStep

LEMMA ChallengeProofs ==
  ASSUME Inv, NEW r \in Requests, ChallengeStep(r)
  PROVE  ProofChange
<1> USE DEF Inv
<1>1. ASSUME NEW c \in Challenges, NEW x \in Actors, Claim(r, c, x)
      PROVE  ProofChange
  <2>1. req'[r].proof = c
    BY <1>1 DEF Claim, Begin, Idle, RequestsOK
  <2>2. \A q \in Requests \ {r} : req'[q] = req[q]
    BY <1>1 DEF Claim, Begin, RequestsOK
  <2>3. Taken(r, c, "consumed")
    BY <1>1, <2>1, <2>2 DEF Claim, Taken
  <2> QED
    BY <2>3 DEF ProofChange
<1>2. CASE FindProvider(r)
  BY <1>2, GateTakesNone DEF FindProvider, ProofChange
<1>3. CASE FinishLink(r)
  <2>1. Spent(r) \/ (UNCHANGED proofVars /\ End(r))
    BY <1>3 DEF FinishLink, Spent, proofVars
  <2> QED
    BY <2>1, EndTakesNone DEF ProofChange
<1>4. ASSUME NEW s \in Sessions, FinishLogin(r, s)
      PROVE  ProofChange
  BY <1>4 DEF FinishLogin, Spent, ProofChange
<1> QED
  BY <1>1, <1>2, <1>3, <1>4 DEF ChallengeStep

LEMMA BrowserProofs ==
  ASSUME Inv, NEW r \in Requests, BrowserStep(r)
  PROVE  ProofChange
<1> USE DEF Inv
<1>q. req[r] \in RequestStates /\ Known(req[r])
  BY DEF RequestsOK
<1>1. ASSUME NEW purpose \in Purposes, NEW x \in Actors, NEW p \in Profiles,
             StartBrowser(r, purpose, x, p)
      PROVE  ProofChange
  <2> DEFINE q == [Idle EXCEPT
         !.at = "provider", !.kind = "browser", !.purpose = purpose,
         !.profile = p, !.actor = IF purpose = "link" THEN x ELSE Nil,
         !.web = IF purpose = "link" THEN ActorOf(x) ELSE Nil]
  <2>1. q.proof = Nil
    BY DEF Idle
  <2>2. req' = [req EXCEPT ![r] = q] /\ UNCHANGED proofVars
    BY <1>1 DEF StartBrowser, Begin
  <2> QED
    BY <2>1, <2>2, MoveTakesNone DEF ProofChange
<1>2. ASSUME NEW f \in Flows, Callback(r, f) \/ Redeem(r, f)
      PROVE  ProofChange
  <2>1. req'[r].proof = f
    BY ZenonT(60), <1>2 DEF Callback, Redeem, TakeFlow, Begin, Idle, RequestsOK
  <2>2. \A q \in Requests \ {r} : req'[q] = req[q]
    BY <1>2 DEF Callback, Redeem, TakeFlow, Begin, RequestsOK
  <2>3. Taken(r, f, "taken")
    BY <1>2, <2>1, <2>2 DEF Callback, Redeem, TakeFlow, Taken
  <2> QED
    BY <2>3 DEF ProofChange
<1>3. ASSUME NEW p \in Profiles, StoreTicket(r, p)
      PROVE  ProofChange
  <2> DEFINE row == [status |-> "ticket", purpose |-> req[r].purpose,
                     actor |-> req[r].actor, account |-> req[r].web, profile |-> p]
  <2>1. req[r].kind = "callback" /\ req[r].proof \in Flows
    BY <1>q, <1>3 DEF StoreTicket, At, Known
  <2>2. row \in ProofRows
    BY <1>q DEF RequestStates, ProofRows
  <2>3. row.purpose = "link" => row.account \in Accounts
    BY <1>q DEF Known
  <2>4. Ticketed(r, row)
    BY <1>3, <2>1, <2>3 DEF StoreTicket, Ticketed
  <2> QED
    BY <2>2, <2>4 DEF ProofChange
<1>4. ASSUME NEW s \in Sessions, Issue(r, s)
      PROVE  ProofChange
  BY <1>4 DEF Issue, Spent, ProofChange
<1>5. CASE \/ Validate(r) \/ ProveProfile(r) \/ RecheckProvider(r) \/ WebRole(r)
           \/ CloudRole(r) \/ IssueRole(r)
  BY <1>5, GateTakesNone DEF Validate, ProveProfile, RecheckProvider, WebRole,
     CloudRole, IssueRole, ProofChange
<1>6. CASE ReadLink(r)
  <2> DEFINE q == [req[r] EXCEPT !.at = "owner", !.cloud = LinkedCloud(req[r].web)]
  <2>1. q.proof = req[r].proof
    BY <1>q DEF RequestStates
  <2> QED
    BY ZenonT(60), <1>6, <2>1, MoveTakesNone DEF ReadLink, ProofChange
<1>7. CASE ReadOwner(r)
  <2> DEFINE q(a, place) == [req[r] EXCEPT !.cloud = a, !.at = place]
  <2>1. \A a, place : q(a, place).proof = req[r].proof
    BY <1>q DEF RequestStates
  <2>2. UNCHANGED proofVars
    BY SMTT(40), <1>7 DEF ReadOwner
  <2>3. \/ End(r)
        \/ Go(r, "cloudRole")
        \/ \E a \in owners[req[r].profile] :
             req' = [req EXCEPT ![r] =
                       q(a, IF req[r].purpose = "link" THEN "connect" ELSE "finish")]
    BY ZenonT(60), <1>7 DEF ReadOwner
  <2> HIDE DEF q
  <2> QED
    BY <2>1, <2>2, <2>3, EndTakesNone, GoTakesNone, MoveTakesNone DEF ProofChange
<1>8. CASE LinkIdentity(r)
  <2>1. UNCHANGED proofVars /\ (End(r) \/ Go(r, "issueRole"))
    BY <1>8 DEF LinkIdentity
  <2> QED
    BY <2>1, EndTakesNone, GoTakesNone DEF ProofChange
<1>9. CASE ReadWeb(r)
  <2> DEFINE q == [req[r] EXCEPT !.at = "issueRole", !.web = LinkedWeb(req[r].cloud)]
  <2>1. q.proof = req[r].proof
    BY <1>q DEF RequestStates
  <2> QED
    BY ZenonT(60), <1>9, <2>1, MoveTakesNone DEF ReadWeb, ProofChange
<1> QED
  BY <1>1, <1>2, <1>3, <1>4, <1>5, <1>6, <1>7, <1>8, <1>9 DEF BrowserStep

LEMMA ProofSteps ==
  ASSUME Inv, Next
  PROVE  ProofChange
<1> USE DEF Inv
<1>1. UNCHANGED <<proofVars, req>> => ProofChange
  BY DEF RequestsOK, NoneTaken, ProofChange
<1>2. ASSUME NEW r \in Requests, NEW a \in Accounts, NEW n, CreateAccount(r, a, n)
      PROVE  ProofChange
  <2> DEFINE q == [Idle EXCEPT
         !.at = "create", !.kind = "create", !.web = a, !.grant = n]
  <2>1. q.proof = Nil
    BY DEF Idle
  <2> QED
    BY <1>2, <2>1, MoveTakesNone DEF CreateAccount, Begin, ProofChange
<1>3. ASSUME NEW r \in Requests, GiveRole(r)
      PROVE  ProofChange
  BY <1>3, EndTakesNone DEF GiveRole, SetAccount, ProofChange
<1>4. CASE Administer
  BY <1>1, <1>2, <1>3, <1>4 DEF Administer, Register, UpdateAccount, SetAccount,
     ToggleProvider
<1>5. ASSUME NEW c \in Challenges, NEW purpose \in {"login", "link"},
             NEW x \in Actors, NEW p \in Profiles, CreateChallenge(c, purpose, x, p)
      PROVE  ProofChange
  <2> DEFINE row == [status |-> "open", purpose |-> purpose, actor |-> Nil, profile |-> p,
                     account |-> IF purpose = "link" THEN ActorOf(x) ELSE Nil]
  <2>1. purpose = "link" => ActorOf(x) \in Accounts
    BY <1>5, ActorsAreAccounts DEF CreateChallenge
  <2>2. row \in ProofRows
    BY <2>1 DEF ProofRows, Purposes
  <2>3. Opened(c, row)
    BY <1>5, <2>1 DEF CreateChallenge, Opened
  <2> QED
    BY <2>2, <2>3 DEF ProofChange
<1>6. ASSUME NEW f \in Flows, NEW purpose \in Purposes, NEW x \in Actors,
             StartFlow(f, purpose, x)
      PROVE  ProofChange
  <2> DEFINE row == [status |-> "open", purpose |-> purpose, profile |-> Nil,
                     actor |-> IF purpose = "link" THEN x ELSE Nil,
                     account |-> IF purpose = "link" THEN ActorOf(x) ELSE Nil]
  <2>1. purpose = "link" => ActorOf(x) \in Accounts
    BY <1>6, ActorsAreAccounts DEF StartFlow
  <2>2. row \in ProofRows
    BY <2>1 DEF ProofRows, Purposes
  <2>3. Opened(f, row)
    BY <1>6, <2>1, NamesAssumption DEF StartFlow, Opened
  <2> QED
    BY <2>2, <2>3 DEF ProofChange
<1>7. CASE SessionStep
  BY <1>1, <1>5, <1>6, <1>7 DEF SessionStep, Refresh, Logout, Expire, Lapse,
     Lapsed, ProofChange
<1>8. ASSUME NEW r \in Requests, SignInStep(r)
      PROVE  ProofChange
  BY <1>8, SignInTakesNone DEF ProofChange
<1> QED
  BY <1>4, <1>7, <1>8, ChallengeProofs, BrowserProofs DEF Next

LEMMA ProofsKept ==
  ASSUME Inv, Next
  PROVE  ProofsOK'
<1> USE DEF Inv
<1>n. \A status \in {"consumed", "taken", "lapsed"} :
        [NoProof EXCEPT !.status = status] \in ProofRows
  BY DEF NoProof, ProofRows, Purposes
<1>1. CASE NoneTaken
  BY <1>1 DEF NoneTaken, proofVars, ProofsOK
<1>2. ASSUME NEW x \in Challenges \cup Flows, NEW row \in ProofRows, Opened(x, row)
      PROVE  ProofsOK'
  BY <1>2 DEF Opened, ProofsOK
<1>3. ASSUME NEW x \in Challenges \cup Flows,
             NEW status \in {"consumed", "taken", "lapsed"},
             Settle(x, status), UNCHANGED uses
      PROVE  ProofsOK'
  <2> DEFINE row == [NoProof EXCEPT !.status = status]
  <2>1. row \in ProofRows /\ row.status \notin {"open", "ticket"}
    BY <1>n DEF NoProof
  <2>2. proof' = [proof EXCEPT ![x] = row]
    BY <1>3 DEF Settle
  <2> HIDE DEF row
  <2> QED
    BY <1>3, <2>1, <2>2 DEF ProofsOK
<1>4. ASSUME NEW r \in Requests, NEW row \in ProofRows, Ticketed(r, row)
      PROVE  ProofsOK'
  BY <1>4 DEF Ticketed, ProofsOK
<1>5. ASSUME NEW r \in Requests, Spent(r)
      PROVE  ProofsOK'
  <2>1. req[r].proof \in Challenges \cup Flows \cup {Nil}
    BY DEF RequestsOK, RequestStates
  <2>2. uses' \in [Challenges \cup Flows -> Nat]
    BY <1>5, <2>1 DEF Spent, Used, ProofsOK
  <2> QED
    BY <1>5, <2>2 DEF Spent, ProofsOK
<1> QED
  BY <1>1, <1>2, <1>3, <1>4, <1>5, ProofSteps DEF ProofChange, Taken, Lapsed

LEMMA ProofsHeldOnceStep ==
  ASSUME Inv, ProofsHeldOnce, Next
  PROVE  ProofsHeldOnce'
<1> USE DEF Inv
<1>t. /\ proof \in [Challenges \cup Flows -> ProofRows]
      /\ uses \in [Challenges \cup Flows -> Nat]
      /\ req \in [Requests -> RequestStates] /\ Nil \notin Challenges \cup Flows
  BY NamesAssumption DEF ProofsOK, RequestsOK
<1>e. \A r \in Requests : End(r) => /\ req'[r].proof = Nil
                                    /\ \A q \in Requests \ {r} : req'[q] = req[q]
  BY <1>t DEF End, Idle
<1>1. CASE NoneTaken
  BY <1>1, <1>t DEF NoneTaken, proofVars, ProofsHeldOnce
<1>2. ASSUME NEW x \in Challenges \cup Flows, NEW row \in ProofRows, Opened(x, row)
      PROVE  ProofsHeldOnce'
  BY <1>2, <1>t DEF Opened, NoProof, ProofsHeldOnce
<1>3. ASSUME NEW r \in Requests, NEW x \in Challenges \cup Flows,
             NEW status \in {"consumed", "taken"}, Taken(r, x, status)
      PROVE  ProofsHeldOnce'
  <2>1. proof'[x].status = status
    BY <1>3, <1>t DEF Taken, Settle, NoProof
  <2>2. \A y \in Challenges \cup Flows : y # x => proof'[y] = proof[y]
    BY <1>3, <1>t DEF Taken, Settle
  <2> QED
    BY <1>3, <1>t, <2>1, <2>2 DEF Taken, ProofsHeldOnce
<1>4. ASSUME NEW x \in Challenges \cup Flows, Lapsed(x)
      PROVE  ProofsHeldOnce'
  <2>1. \A y \in Challenges \cup Flows :
          proof'[y].status = IF y = x THEN "lapsed" ELSE proof[y].status
    BY <1>4, <1>t DEF Lapsed, Settle, NoProof
  <2> QED
    BY <1>4, <1>t, <2>1 DEF Lapsed, ProofsHeldOnce
<1>5. ASSUME NEW r \in Requests, NEW row \in ProofRows, Ticketed(r, row)
      PROVE  ProofsHeldOnce'
  BY <1>5, <1>t, <1>e DEF Ticketed, ProofsHeldOnce
<1>6. ASSUME NEW r \in Requests, Spent(r)
      PROVE  ProofsHeldOnce'
  <2>1. CASE req[r].proof = Nil
    BY <1>6, <1>t, <1>e, <2>1 DEF Spent, Used, ProofsHeldOnce
  <2>2. CASE req[r].proof # Nil
    <3>1. req[r].proof \in Challenges \cup Flows
      BY <1>t, <2>2 DEF RequestStates
    <3>2. uses[req[r].proof] = 0 /\ uses'[req[r].proof] = 1
      BY <1>6, <1>t, <2>2, <3>1 DEF Spent, Used, ProofsHeldOnce
    <3>3. \A y \in Challenges \cup Flows :
            y # req[r].proof => uses'[y] = uses[y]
      BY <1>6, <1>t, <2>2 DEF Spent, Used
    <3> QED
      BY <1>6, <1>t, <1>e, <3>1, <3>2, <3>3 DEF Spent, ProofsHeldOnce
  <2> QED
    BY <2>1, <2>2
<1> QED
  BY <1>1, <1>2, <1>3, <1>4, <1>5, <1>6, ProofSteps DEF ProofChange

----------------------------------------------------------------------------
(* The invariant, and what follows from it.                                  *)
LEMMA Initially ==
  ASSUME Init
  PROVE  Inv /\ ProofsHeldOnce
<1> USE DEF Init
<1>1. AccountsOK
  BY NamesAssumption DEF AccountsOK
<1>2. SessionsOK
  BY DEF NoSession, SessionRows, SessionsOK
<1>3. IdentitiesOK
  BY DEF IdentitiesOK
<1>4. ProofsOK
  BY DEF NoProof, ProofRows, Purposes, ProofsOK
<1>5. RequestsOK
  BY IdleIsKnown DEF RequestsOK
<1>6. ProofsHeldOnce
  BY NamesAssumption DEF Idle, NoProof, ProofsHeldOnce
<1> QED
  BY <1>1, <1>2, <1>3, <1>4, <1>5, <1>6 DEF Inv

LEMMA StutteringKeeps ==
  ASSUME UNCHANGED vars
  PROVE  /\ Inv => Inv'
         /\ ProofsHeldOnce => ProofsHeldOnce'
         /\ UpdatesEndSignIns => UpdatesEndSignIns'
         /\ OneSessionPerSignIn => OneSessionPerSignIn'
         /\ OneOwner => OneOwner'
         /\ LinksPairAccounts => LinksPairAccounts'
<1> USE DEF vars
<1>1. AccountsOK => AccountsOK'
  BY DEF AccountsOK
<1>2. SessionsOK => SessionsOK'
  BY DEF SessionsOK
<1>3. IdentitiesOK => IdentitiesOK'
  BY DEF IdentitiesOK
<1>4. ProofsOK => ProofsOK'
  BY DEF ProofsOK
<1>5. RequestsOK => RequestsOK'
  BY DEF RequestsOK
<1>6. ProofsHeldOnce => ProofsHeldOnce'
  BY DEF ProofsHeldOnce
<1>7. /\ UpdatesEndSignIns => UpdatesEndSignIns'
      /\ OneSessionPerSignIn => OneSessionPerSignIn'
  BY DEF UpdatesEndSignIns, OneSessionPerSignIn
<1>8. OneOwner => OneOwner'
  BY DEF OneOwner
<1>9. LinksPairAccounts => LinksPairAccounts'
  BY DEF LinksPairAccounts
<1> QED
  BY <1>1, <1>2, <1>3, <1>4, <1>5, <1>6, <1>7, <1>8, <1>9 DEF Inv

(* Inv is inductive. *)
THEOREM Invariant == Spec => []Inv
<1>1. Init => Inv
  BY Initially
<1>2. Inv /\ [Next]_vars => Inv'
  <2>1. CASE UNCHANGED vars
    BY <2>1, StutteringKeeps
  <2>2. ASSUME Inv, Next
        PROVE  Inv'
    BY <2>2, AccountsKept, SessionsKept, IdentitiesKept, ProofsKept, RequestsKept
       DEF Inv
  <2> QED
    BY <2>1, <2>2
<1> QED
  BY <1>1, <1>2, PTL DEF Spec

(* The tables and the requests keep their types, whatever is interleaved.    *)
THEOREM TypeCorrect == Spec => []TypeOK
<1>1. Inv => TypeOK
  BY DEF Inv, AccountsOK, SessionsOK, IdentitiesOK, ProofsOK, RequestsOK, TypeOK
<1> QED
  BY <1>1, Invariant, PTL

(* An update of an account ends every session whose sign-in came before it.  *)
THEOREM UpdatesEndSignInsAlways == Spec => []UpdatesEndSignIns
<1>1. Init => UpdatesEndSignIns
  BY DEF Init, NoSession, UpdatesEndSignIns
<1>2. Inv /\ UpdatesEndSignIns /\ [Next]_vars => UpdatesEndSignIns'
  BY UpdatesEndSignInsStep, StutteringKeeps
<1> QED
  BY <1>1, <1>2, Invariant, PTL DEF Spec

(* Refreshing keeps one session of a sign-in alive at most.                  *)
THEOREM OneSessionPerSignInAlways == Spec => []OneSessionPerSignIn
<1>1. Init => OneSessionPerSignIn
  BY DEF Init, NoSession, OneSessionPerSignIn
<1>2. Inv /\ OneSessionPerSignIn /\ [Next]_vars => OneSessionPerSignIn'
  BY OneSessionPerSignInStep, StutteringKeeps
<1> QED
  BY <1>1, <1>2, Invariant, PTL DEF Spec

(* No interleaving of links and connections gives a profile a second owner.  *)
THEOREM OneOwnerAlways == Spec => []OneOwner
<1>1. Init => OneOwner
  BY DEF Init, OneOwner
<1>2. Inv /\ OneOwner /\ [Next]_vars => OneOwner'
  BY OneOwnerStep, StutteringKeeps
<1> QED
  BY <1>1, <1>2, Invariant, PTL DEF Spec

(* No interleaving of connections puts an account into two links.            *)
THEOREM LinksPairAccountsAlways == Spec => []LinksPairAccounts
<1>1. Init => LinksPairAccounts
  BY DEF Init, LinksPairAccounts
<1>2. Inv /\ LinksPairAccounts /\ [Next]_vars => LinksPairAccounts'
  BY LinksPairAccountsStep, StutteringKeeps
<1> QED
  BY <1>1, <1>2, Invariant, PTL DEF Spec

(* A challenge and a Microsoft sign-in are each good for one use.            *)
THEOREM ProofsUsedOnceAlways == Spec => []ProofsUsedOnce
<1>1. Init => ProofsHeldOnce
  BY Initially
<1>2. Inv /\ ProofsHeldOnce /\ [Next]_vars => ProofsHeldOnce'
  BY ProofsHeldOnceStep, StutteringKeeps
<1>3. ProofsHeldOnce => ProofsUsedOnce
  BY DEF ProofsHeldOnce, ProofsUsedOnce
<1> QED
  BY <1>1, <1>2, <1>3, Invariant, PTL DEF Spec

(* A verified profile leaves its account only for the linked Cloud account.  *)
THEOREM BindingsStayAlways == Spec => BindingsStay
<1> DEFINE Stays == \A p \in Profiles : \A a \in owners[p] :
       a \in owners'[p] \/ (link'[a] # Nil /\ owners'[p] = {link'[a]})
<1>1. Inv /\ OneOwner /\ [Next]_vars => [Stays]_vars
  BY BindingsStayStep
<1> QED
  BY <1>1, Invariant, OneOwnerAlways, PTL DEF Spec, BindingsStay

----------------------------------------------------------------------------
(* The refinement of SignIns.  A step is of sessions or of identities, never *)
(* of both, and where it spends a proof, it issues a session or links a      *)
(* profile.                                                                   *)
Issues ==
  /\ UNCHANGED identityVars
  /\ \E s \in Sessions, a \in Accounts, since \in Nat, by \in {"signin", "link"},
        out \in BOOLEAN : Inserted(s, a, since, by, out)
Links ==
  /\ UNCHANGED <<session, updates>>
  /\ \E a \in Accounts, p \in Profiles : Linked(a, p)
Spends(r) == Used(r) /\ (Issues \/ Links)

LEMMA ApartSteps ==
  ASSUME Next
  PROVE  UNCHANGED identityVars \/ UNCHANGED <<session, updates>>
<1>1. Administer \/ SessionStep => UNCHANGED identityVars
  BY ZenonT(60) DEF Administer, Register, UpdateAccount, CreateAccount, GiveRole,
     SetAccount, ToggleProvider, SessionStep, Refresh, Logout, Expire,
     CreateChallenge, StartFlow, Lapse
<1>2. ASSUME NEW r \in Requests, SignInStep(r)
      PROVE  UNCHANGED identityVars \/ UNCHANGED <<session, updates>>
  BY ZenonT(60), <1>2 DEF SignInStep, StartSignIn, StartConnect, CheckDisabled,
     Gate, Verify, ReadRole, RevokeIssued, Connect, Withdraw, accountVars
<1>3. ASSUME NEW r \in Requests, ChallengeStep(r)
      PROVE  UNCHANGED identityVars \/ UNCHANGED <<session, updates>>
  BY ZenonT(60), <1>3 DEF ChallengeStep, Claim, FindProvider, Gate, FinishLink,
     FinishLogin, accountVars
<1>4. ASSUME NEW r \in Requests, BrowserStep(r)
      PROVE  UNCHANGED identityVars \/ UNCHANGED <<session, updates>>
  BY ZenonT(60), <1>4 DEF BrowserStep, StartBrowser, Callback, Redeem, TakeFlow,
     Validate, StoreTicket, ProveProfile, RecheckProvider, WebRole, ReadLink,
     ReadOwner, CloudRole, LinkIdentity, ReadWeb, IssueRole, Issue, Gate,
     accountVars
<1> QED
  BY <1>1, <1>2, <1>3, <1>4 DEF Next

LEMMA SpendingSteps ==
  ASSUME Inv, Next
  PROVE  UNCHANGED uses \/ \E r \in Requests : Spends(r)
<1> USE DEF Inv
<1>q. \A r \in Requests : req[r] \in RequestStates /\ Known(req[r])
  BY DEF RequestsOK
<1>u. \A a \in Accounts : updates[a] \in Nat
  BY NamesAssumption DEF AccountsOK
<1>1. ASSUME NEW r \in Requests, FinishLink(r)
      PROVE  UNCHANGED uses \/ Spends(r)
  <2>1. req[r].web \in Accounts /\ req[r].profile \in Profiles
    BY <1>q, <1>1 DEF FinishLink, At, Known
  <2>2. UNCHANGED uses \/ (Used(r) /\ Linked(req[r].web, req[r].profile))
    BY <1>1 DEF FinishLink, Linked
  <2>3. UNCHANGED <<session, updates>>
    BY <1>1 DEF FinishLink, accountVars
  <2> QED
    BY <2>1, <2>2, <2>3 DEF Spends, Links
<1>2. ASSUME NEW r \in Requests, NEW s \in Sessions, FinishLogin(r, s)
      PROVE  Spends(r)
  <2>1. req[r].profile \in Profiles
    BY <1>q, <1>2 DEF FinishLogin, At, Known
  <2>2. PICK a \in owners[req[r].profile] : SignIn(s, a, TRUE)
    BY <1>2 DEF FinishLogin
  <2>3. a \in Accounts
    BY <2>1 DEF IdentitiesOK
  <2>4. Inserted(s, a, updates[a], "signin", TRUE)
    BY <1>2, <2>2 DEF FinishLogin, SignIn, Inserted, accountVars
  <2>5. Used(r) /\ UNCHANGED identityVars
    BY <1>2 DEF FinishLogin
  <2> QED
    BY <1>u, <2>3, <2>4, <2>5 DEF Spends, Issues
<1>3. ASSUME NEW r \in Requests, NEW s \in Sessions, Issue(r, s)
      PROVE  Spends(r)
  <2>1. req[r].web \in Accounts
    BY <1>q, <1>3 DEF Issue, Known
  <2>2. Used(r) /\ UNCHANGED identityVars /\ UNCHANGED updates
    BY <1>3 DEF Issue, accountVars
  <2>3. CASE req[r].actor \in Sessions
    <3>1. session[req[r].actor].since \in Nat
      BY <2>3 DEF SessionsOK, SessionRows
    <3>2. Inserted(s, req[r].web, session[req[r].actor].since, "link", TRUE)
      BY <1>3, <2>2, <2>3 DEF Issue, Inserted
    <3> QED
      BY <2>1, <2>2, <3>1, <3>2 DEF Spends, Issues
  <2>4. CASE req[r].actor \notin Sessions
    <3>1. Inserted(s, req[r].web, updates[req[r].web], "signin", TRUE)
      BY <1>3, <2>2, <2>4 DEF Issue, SignIn, Inserted
    <3> QED
      BY <1>u, <2>1, <2>2, <3>1 DEF Spends, Issues
  <2> QED
    BY <2>3, <2>4
<1>4. Administer \/ SessionStep => UNCHANGED uses
  BY ZenonT(60) DEF Administer, Register, UpdateAccount, CreateAccount, GiveRole,
     SetAccount, ToggleProvider, SessionStep, Refresh, Logout, Expire,
     CreateChallenge, StartFlow, Lapse, proofVars
<1>5. ASSUME NEW r \in Requests, SignInStep(r)
      PROVE  UNCHANGED uses
  BY ZenonT(60), <1>5 DEF SignInStep, StartSignIn, StartConnect, CheckDisabled,
     Gate, Verify, ReadRole, RevokeIssued, Connect, Withdraw, proofVars
<1>6. ASSUME NEW r \in Requests, ChallengeStep(r)
      PROVE  UNCHANGED uses \/ Spends(r)
  BY ZenonT(60), <1>1, <1>2, <1>6 DEF ChallengeStep, Claim, FindProvider, Gate,
     proofVars
<1>7. ASSUME NEW r \in Requests, BrowserStep(r)
      PROVE  UNCHANGED uses \/ Spends(r)
  BY ZenonT(60), <1>3, <1>7 DEF BrowserStep, StartBrowser, Callback, Redeem,
     TakeFlow, Validate, StoreTicket, ProveProfile, RecheckProvider, WebRole,
     ReadLink, ReadOwner, CloudRole, LinkIdentity, ReadWeb, IssueRole, Gate,
     proofVars
<1> QED
  BY <1>4, <1>5, <1>6, <1>7 DEF Next

(* A proof that a request carries is spent for the first time.               *)
LEMMA SpendingPays ==
  ASSUME Inv, ProofsHeldOnce, NEW r \in Requests, Used(r)
  PROVE  People!Paid
<1>1. req[r].proof \in Challenges \cup Flows \cup {Nil}
  BY DEF Inv, RequestsOK, RequestStates
<1>2. CASE req[r].proof = Nil
  BY <1>2 DEF Used, People!Paid
<1>3. CASE req[r].proof # Nil
  <2>1. uses[req[r].proof] = 0
    BY <1>1, <1>3 DEF ProofsHeldOnce
  <2>2. uses' = [uses EXCEPT ![req[r].proof] = 1]
    BY <1>3, <2>1 DEF Used
  <2> QED
    BY <1>1, <1>3, <2>1, <2>2 DEF People!Paid
<1> QED
  BY <1>2, <1>3

LEMMA SessionsRest ==
  ASSUME UNCHANGED <<session, updates>>
  PROVE  UNCHANGED People!sessionVars
BY DEF People!sessionVars, IssuedTo, Holding

LEMMA IdentitiesRest ==
  ASSUME UNCHANGED identityVars
  PROVE  UNCHANGED People!profileVars
BY DEF People!profileVars, identityVars

LEMMA InsertedIsSignIn ==
  ASSUME Inv, People!Paid, UNCHANGED identityVars,
         NEW s \in Sessions, NEW a \in Accounts, NEW since \in Nat,
         NEW by \in {"signin", "link"}, NEW out \in BOOLEAN,
         Inserted(s, a, since, by, out)
  PROVE  People!SignIn(s, a)
<1> DEFINE row == [account |-> a, live |-> TRUE, fresh |-> TRUE, since |-> since,
                   by |-> by, root |-> s, out |-> out]
<1>1. session' = [session EXCEPT ![s] = row] /\ session[s].account = Nil
  BY DEF Inserted, NewSession, Unused
<1>2. row.account = a /\ row.live /\ row.root = s
  OBVIOUS
<1> HIDE DEF row
<1>3. session \in [Sessions -> SessionRows]
  BY DEF Inv, SessionsOK
<1>4. IssuedTo' = [IssuedTo EXCEPT ![s] = a]
  BY <1>1, <1>2, <1>3 DEF IssuedTo
<1>5. Holding' = [Holding EXCEPT ![s] = s]
  BY <1>1, <1>2, <1>3 DEF Holding
<1>6. IssuedTo[s] = Nil /\ UNCHANGED updates
  BY <1>1 DEF IssuedTo, Inserted
<1> QED
  BY <1>4, <1>5, <1>6, IdentitiesRest DEF People!SignIn

(* A row that is narrowed is the end of its sign-in, or nothing to see.      *)
LEMMA NarrowedIsEnd ==
  ASSUME Inv, UNCHANGED <<identityVars, uses>>,
         NEW s \in Sessions, NEW row \in SessionRows, Narrowed(s, row)
  PROVE  People!End(s) \/ UNCHANGED People!signInVars
<1>1. session \in [Sessions -> SessionRows]
  BY DEF Inv, SessionsOK
<1>2. /\ session' = [session EXCEPT ![s] = row] /\ row.account = session[s].account
      /\ UNCHANGED updates
  BY DEF Narrowed
<1>3. IssuedTo' = IssuedTo
  BY <1>1, <1>2 DEF IssuedTo
<1>4. CASE session[s].live <=> row.live
  <2>1. Holding' = Holding
    BY <1>1, <1>2, <1>4 DEF Holding, Narrowed
  <2> QED
    BY <1>2, <1>3, <2>1, IdentitiesRest DEF People!signInVars, People!sessionVars
<1>5. CASE session[s].live /\ ~row.live
  <2>1. Holding' = [Holding EXCEPT ![s] = Nil]
    BY <1>1, <1>2, <1>5 DEF Holding
  <2>2. Holding[s] # Nil
    BY <1>5, NamesAssumption DEF Holding, Inv, SessionsOK
  <2> QED
    BY <1>2, <1>3, <2>1, <2>2, IdentitiesRest DEF People!End
<1> QED
  BY <1>4, <1>5 DEF Narrowed

LEMMA RefreshedIsRenewed ==
  ASSUME Inv, UNCHANGED <<identityVars, uses>>,
         NEW s \in Sessions, NEW t \in Sessions, Refreshed(s, t)
  PROVE  People!Renew(s, t)
<1> DEFINE gone == Ended(session[s])
           row == [session[s] EXCEPT !.fresh = TRUE]
<1>1. session \in [Sessions -> SessionRows]
  BY DEF Inv, SessionsOK
<1>2. gone.account = session[s].account /\ ~gone.live
  BY DEF Ended, NoSession
<1>3. /\ row.account = session[s].account /\ row.root = session[s].root
      /\ row.live = session[s].live
  BY <1>1 DEF SessionRows
<1>4. /\ session' = [session EXCEPT ![s] = gone, ![t] = row]
      /\ session[s].live /\ session[t].account = Nil /\ UNCHANGED updates
  BY DEF Refreshed, Unused
<1> HIDE DEF gone, row
<1>5. s # t
  BY <1>4, NamesAssumption DEF Inv, SessionsOK
<1>6. IssuedTo' = [IssuedTo EXCEPT ![t] = IssuedTo[s]]
  BY <1>1, <1>2, <1>3, <1>4, <1>5 DEF IssuedTo
<1>7. Holding' = [Holding EXCEPT ![s] = Nil, ![t] = Holding[s]]
  BY <1>1, <1>2, <1>3, <1>4, <1>5 DEF Holding
<1>8. Holding[s] # Nil /\ IssuedTo[t] = Nil
  BY <1>4, NamesAssumption DEF Holding, IssuedTo, Inv, SessionsOK
<1> QED
  BY <1>4, <1>6, <1>7, <1>8, IdentitiesRest DEF People!Renew

LEMMA AllEndedIsUpdate ==
  ASSUME Inv, UNCHANGED <<identityVars, uses>>, NEW a \in Accounts, AllEnded(a)
  PROVE  People!Update(a)
<1>1. session \in [Sessions -> SessionRows]
  BY DEF Inv, SessionsOK
<1>2. \A s \in Sessions : /\ Ended(session[s]).account = session[s].account
                          /\ ~Ended(session[s]).live
  BY DEF Ended, NoSession
<1>3. session' = [s \in Sessions |->
        IF session[s].account = a THEN Ended(session[s]) ELSE session[s]]
  BY DEF AllEnded, RevokeAll
<1>4. IssuedTo' = IssuedTo
  BY <1>1, <1>2, <1>3 DEF IssuedTo
<1>5. Holding' = [s \in Sessions |->
                    IF IssuedTo[s] = a THEN Nil ELSE Holding[s]]
  BY <1>1, <1>2, <1>3 DEF Holding, IssuedTo
<1> QED
  BY <1>4, <1>5, IdentitiesRest DEF AllEnded, People!Update

LEMMA LinkedIsOwn ==
  ASSUME Inv, People!Paid, UNCHANGED <<session, updates>>,
         NEW a \in Accounts, NEW p \in Profiles, Linked(a, p)
  PROVE  People!Own(p, a)
<1>1. owners \in [Profiles -> SUBSET Accounts] /\ owners[p] \subseteq {a}
  BY DEF Inv, IdentitiesOK, Linked, MayLink
<1>2. owners' = [owners EXCEPT ![p] = {a}]
  BY <1>1 DEF Linked, LinkProfile
<1> QED
  BY <1>1, <1>2, SessionsRest DEF Linked, People!Own

LEMMA ConnectedIsPair ==
  ASSUME Inv, OneOwner, UNCHANGED <<session, updates, uses>>,
         NEW web \in Accounts, NEW cloud \in Accounts, Connected(web, cloud)
  PROVE  People!Pair(web, cloud)
<1>1. /\ web # cloud /\ link[web] \in {Nil, cloud} /\ link[cloud] = Nil
      /\ \A b \in Accounts : link[b] # web
      /\ \A b \in Accounts : link[b] = cloud => b = web
  BY DEF Connected, MayConnect, Conflict, Webs
<1>2. link[web] = cloud \/ ~(People!Paired(web) \/ People!Paired(cloud))
  BY <1>1 DEF People!Paired
<1>3. owners' = [p \in Profiles |->
                   IF owners[p] = {web} THEN {cloud} ELSE owners[p]]
  <2>1. ASSUME NEW p \in Profiles
        PROVE  (IF web \in owners[p] THEN (owners[p] \ {web}) \cup {cloud}
                                     ELSE owners[p])
               = IF owners[p] = {web} THEN {cloud} ELSE owners[p]
    <3>1. web \in owners[p] => owners[p] = {web}
      BY DEF OneOwner
    <3> QED
      BY <3>1
  <2> QED
    BY <2>1 DEF Connected, MoveIdentities
<1> QED
  BY <1>1, <1>2, <1>3, SessionsRest DEF Connected, People!Pair

LEMMA StepsArePeoples ==
  ASSUME Inv, ProofsHeldOnce, OneOwner, [Next]_vars
  PROVE  [People!Next]_(People!signInVars)
<1> DEFINE Done == People!Next \/ UNCHANGED People!signInVars
<1>1. CASE UNCHANGED vars
  BY <1>1, SessionsRest, IdentitiesRest DEF vars, accountVars, identityVars,
     proofVars, People!signInVars
<1>2. ASSUME NEW s \in Sessions, NEW a \in Accounts, NEW since \in Nat,
             NEW by \in {"signin", "link"}, NEW out \in BOOLEAN,
             Inserted(s, a, since, by, out), People!Paid, UNCHANGED identityVars
      PROVE  People!Next
  BY <1>2, InsertedIsSignIn DEF People!Next
<1>3. ASSUME NEW a \in Accounts, NEW p \in Profiles, Linked(a, p),
             People!Paid, UNCHANGED <<session, updates>>
      PROVE  People!Next
  BY <1>3, LinkedIsOwn DEF People!Next
<1>4. ASSUME NEW r \in Requests, Spends(r)
      PROVE  People!Next
  <2>1. People!Paid
    BY <1>4, SpendingPays DEF Spends
  <2> QED
    BY <1>2, <1>3, <1>4, <2>1 DEF Spends, Issues, Links
<1>5. ASSUME UNCHANGED uses, UNCHANGED identityVars, SessionChange
      PROVE  Done
  <2>1. People!Paid
    BY <1>5 DEF People!Paid
  <2>2. CASE UNCHANGED <<session, updates>>
    BY <1>5, <2>2, SessionsRest, IdentitiesRest DEF People!signInVars
  <2>3. ASSUME NEW s \in Sessions, NEW row \in SessionRows, Narrowed(s, row)
        PROVE  Done
    BY <1>5, <2>3, NarrowedIsEnd DEF People!Next
  <2>4. ASSUME NEW s \in Sessions, NEW t \in Sessions, Refreshed(s, t)
        PROVE  Done
    BY <1>5, <2>4, RefreshedIsRenewed DEF People!Next
  <2>5. ASSUME NEW a \in Accounts, AllEnded(a)
        PROVE  Done
    BY <1>5, <2>5, AllEndedIsUpdate DEF People!Next
  <2> QED
    BY <1>2, <1>5, <2>1, <2>2, <2>3, <2>4, <2>5 DEF SessionChange
<1>6. ASSUME UNCHANGED uses, UNCHANGED <<session, updates>>, IdentityChange
      PROVE  Done
  <2>1. People!Paid
    BY <1>6 DEF People!Paid
  <2>2. CASE UNCHANGED identityVars
    BY <1>6, <2>2, SessionsRest, IdentitiesRest DEF People!signInVars
  <2>3. ASSUME NEW web \in Accounts, NEW cloud \in Accounts, Connected(web, cloud)
        PROVE  Done
    BY <1>6, <2>3, ConnectedIsPair DEF People!Next
  <2> QED
    BY <1>3, <1>6, <2>1, <2>2, <2>3 DEF IdentityChange
<1> HIDE DEF Done
<1>7. CASE Next
  <2>1. Done
    BY <1>4, <1>5, <1>6, <1>7, SpendingSteps, ApartSteps, SessionSteps,
       IdentitySteps DEF Done
  <2> QED
    BY <2>1 DEF Done
<1> QED
  BY <1>1, <1>7

(* Whatever requests, updates and expiries are interleaved between the holds *)
(* of the lock, accounts and clients see sign-ins that are held by one        *)
(* session at a time and end with an update of the account, profiles that    *)
(* have one owner, and proofs that are spent once.                            *)
THEOREM SessionsImplementSignIns == Spec => ImplementsSignIns
<1>1. Init => People!Init
  BY DEF Init, NoSession, IssuedTo, Holding, People!Init
<1>2. Inv /\ ProofsHeldOnce /\ OneOwner /\ [Next]_vars
        => [People!Next]_(People!signInVars)
  BY StepsArePeoples
<1>3. Init => ProofsHeldOnce
  BY Initially
<1>4. Inv /\ ProofsHeldOnce /\ [Next]_vars => ProofsHeldOnce'
  BY ProofsHeldOnceStep, StutteringKeeps
<1> QED
  BY <1>1, <1>2, <1>3, <1>4, Invariant, OneOwnerAlways, PTL
     DEF Spec, ImplementsSignIns, People!Spec
=============================================================================
