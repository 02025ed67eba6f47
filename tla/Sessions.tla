------------------------------ MODULE Sessions ------------------------------
(* Accounts, sessions and game identities: password sign-in, refresh and     *)
(* sign-out (store.rs, api.rs), the owner's updates of accounts (admin.rs),  *)
(* game challenges (game_auth.rs), browser sign-in with a game account or    *)
(* with Microsoft (browser_auth.rs), and the links between web and Cloud     *)
(* accounts (account_links.rs).  An action is one hold of the connection's   *)
(* lock; a request that takes the lock several times is interleaved there    *)
(* and at its awaits.                                                        *)
EXTENDS Integers, FiniteSets

CONSTANTS
  Accounts, Owner,
  Providers, Official, Uuids,
  Sessions,     \* the rows that may be inserted into sessions
  Challenges,   \* game challenges that may be created
  Flows,        \* Microsoft flows that may be started
  Requests,     \* requests that may be in flight at once
  Token,        \* the bootstrap token
  Nil,
  MaxUpdates    \* bound on the owner's updates of one account

Profiles == Providers \X Uuids
Provider(p) == p[1]

ASSUME NamesAssumption ==
  /\ Owner \in Accounts /\ Nil \notin Accounts
  /\ Official \in Providers
  /\ Token \notin Sessions /\ Nil \notin Sessions /\ Nil # Token
  /\ Nil \notin Profiles /\ Nil \notin Challenges \cup Flows
  /\ Challenges \cap Flows = {}
  /\ MaxUpdates \in Nat

VARIABLES
  role,       \* "none" where there is no such account
  disabled,
  password,   \* the version of each account's password
  updates,    \* how often the owner updated each account
  session,    \* rows of sessions; `since' and `root' tell of the sign-in
  link,       \* web_cloud_links
  owners,     \* the accounts with a verified identity for each profile
  enabled,    \* identity providers
  proof,      \* game_auth_challenges and browser_auth_flows
  uses,       \* what each proof was good for: sign-ins and links made with it
  req         \* where each request is, and what it has read

accountVars == <<role, disabled, password, updates>>
identityVars == <<link, owners>>
proofVars == <<proof, uses>>
vars == <<role, disabled, password, updates, session, link, owners, enabled,
          proof, uses, req>>

----------------------------------------------------------------------------
Purposes == {"login", "admin", "link"}   \* admin: sign in to the console
Kinds == {"none", "api", "account", "console", "connect", "create",
          "game", "browser", "callback", "redeem"}
Places == {"idle", "check", "verify", "role", "revoke", "connect", "create",
           "provider", "network", "validate", "finish", "webRole", "linked",
           "owner", "cloudRole", "link", "linkedWeb", "issueRole", "issue"}

NoSession == [account |-> Nil, live |-> FALSE, fresh |-> FALSE, since |-> 0,
              by |-> "signin", root |-> Nil, out |-> FALSE]
NoProof == [status |-> "none", purpose |-> "login", actor |-> Nil,
            account |-> Nil, profile |-> Nil]
Idle == [at |-> "idle", kind |-> "none", purpose |-> "login", actor |-> Nil,
         web |-> Nil, cloud |-> Nil, password |-> 0, profile |-> Nil,
         proof |-> Nil, session |-> Nil, grant |-> "member"]

Init ==
  /\ role = [a \in Accounts |-> IF a = Owner THEN "member" ELSE "none"]
  /\ disabled = {}
  /\ password = [a \in Accounts |-> 0]
  /\ updates = [a \in Accounts |-> 0]
  /\ session = [s \in Sessions |-> NoSession]
  /\ link = [a \in Accounts |-> Nil]
  /\ owners = [p \in Profiles |-> {}]
  /\ enabled = Providers
  /\ proof = [c \in Challenges \cup Flows |-> NoProof]
  /\ uses = [c \in Challenges \cup Flows |-> 0]
  /\ req = [r \in Requests |-> Idle]

Exists(a) == role[a] # "none"
Manages(a) == a = Owner \/ role[a] = "admin"
Active(a) == a \notin disabled

At(r, kinds, place) == req[r].at = place /\ req[r].kind \in kinds
Begin(r, q) == req[r] = Idle /\ req' = [req EXCEPT ![r] = q]
Go(r, place) == req' = [req EXCEPT ![r].at = place]
End(r) == req' = [req EXCEPT ![r] = Idle]
(* A check that only lets the request go on or refuses it. *)
Gate(r, passed, place) ==
  /\ IF passed THEN Go(r, place) ELSE End(r)
  /\ UNCHANGED <<accountVars, session, identityVars, enabled, proofVars>>

Unused(s) == session[s].account = Nil
NewSession(s, a, since, by, root, out) ==
  /\ Unused(s)
  /\ session' = [session EXCEPT ![s] =
       [account |-> a, live |-> TRUE, fresh |-> TRUE, since |-> since,
        by |-> by, root |-> root, out |-> out]]
SignIn(s, a, out) == NewSession(s, a, updates[a], "signin", s, out)
(* All that a session that ended is still good for is to tell what it was. *)
Ended(row) == [NoSession EXCEPT !.account = row.account, !.since = row.since]
Revoke(s) == session' = [session EXCEPT ![s] = Ended(@)]

(* The actor of a request: the bootstrap token, or a session's access token. *)
ActorOf(x) == IF x = Token THEN Owner ELSE session[x].account
Valid(s) == session[s].live /\ session[s].fresh
Authentic(x) ==
  x \in Sessions => session[x].out /\ Valid(x) /\ Active(session[x].account)
Actors == Sessions \cup {Token}

----------------------------------------------------------------------------
(* Sign-in with a password, and what is done with the session it issues.     *)

Register(a) ==
  /\ ~Exists(a)
  /\ role' = [role EXCEPT ![a] = "member"]
  /\ UNCHANGED <<disabled, password, updates, session, identityVars, enabled,
                 proofVars, req>>

(* A request with a password that is wrong from the start changes nothing. *)
StartSignIn(r, kind, a) ==
  /\ Exists(a)
  /\ Begin(r, [Idle EXCEPT
         !.at = "check", !.kind = kind, !.web = a,
         !.password = password[a]])
  /\ UNCHANGED <<accountVars, session, identityVars, enabled, proofVars>>

StartConnect(r, x, a) ==
  /\ Exists(a) /\ Authentic(x)
  /\ Begin(r, [Idle EXCEPT
         !.at = "check", !.kind = "connect", !.actor = x,
         !.web = ActorOf(x), !.cloud = a, !.password = password[a]])
  /\ UNCHANGED <<accountVars, session, identityVars, enabled, proofVars>>

(* The account whose password is presented. *)
Claimant(r) == IF req[r].kind = "connect" THEN req[r].cloud ELSE req[r].web

CheckDisabled(r) ==
  /\ req[r].at = "check"
  /\ Gate(r, Active(Claimant(r)), "verify")

Verify(r, s) ==
  /\ req[r].at = "verify"
  /\ IF password[Claimant(r)] # req[r].password
       THEN End(r) /\ UNCHANGED session
       ELSE /\ SignIn(s, Claimant(r), req[r].kind = "api")
            /\ CASE req[r].kind = "api" -> End(r)
                 [] req[r].kind = "connect" ->
                      req' = [req EXCEPT ![r].at = "revoke", ![r].session = s]
                 [] OTHER ->
                      req' = [req EXCEPT ![r].at = "role", ![r].session = s]
  /\ UNCHANGED <<accountVars, identityVars, enabled, proofVars>>

(* The sign-in pages read the role before they hand the session out. *)
ReadRole(r) ==
  /\ req[r].at = "role"
  /\ IF Active(req[r].web) /\ (req[r].kind = "account" \/ Manages(req[r].web))
       THEN End(r) /\ session' = [session EXCEPT ![req[r].session].out = TRUE]
       ELSE /\ UNCHANGED session
            /\ IF Active(req[r].web) THEN Go(r, "revoke") ELSE End(r)
  /\ UNCHANGED <<accountVars, identityVars, enabled, proofVars>>

RevokeIssued(r) ==
  /\ req[r].at = "revoke"
  /\ Revoke(req[r].session)
  /\ IF req[r].kind = "connect"
       THEN req' = [req EXCEPT ![r].at = "connect", ![r].session = Nil]
       ELSE End(r)
  /\ UNCHANGED <<accountVars, identityVars, enabled, proofVars>>

(* Mutant: the refreshed session stays. *)
RefreshKeeping(s, t) ==
  /\ session[s].out /\ session[s].live
  /\ Unused(t)
  /\ session' = [session EXCEPT ![t] = [session[s] EXCEPT !.fresh = TRUE]]
  /\ UNCHANGED <<accountVars, identityVars, enabled, proofVars, req>>
Refresh(s, t) ==
  /\ session[s].out /\ session[s].live
  /\ Unused(t)
  /\ session' = [session EXCEPT
       ![s] = Ended(@),
       ![t] = [session[s] EXCEPT !.fresh = TRUE]]
  /\ UNCHANGED <<accountVars, identityVars, enabled, proofVars, req>>

Logout(s) ==
  /\ session[s].out /\ session[s].live
  /\ Revoke(s)
  /\ UNCHANGED <<accountVars, identityVars, enabled, proofVars, req>>

(* First the access token expires; with the refresh token the session ends. *)
Expire(s) ==
  /\ session[s].live
  /\ session' = [session EXCEPT ![s] =
       IF @.fresh THEN [@ EXCEPT !.fresh = FALSE] ELSE Ended(@)]
  /\ UNCHANGED <<accountVars, identityVars, enabled, proofVars, req>>

----------------------------------------------------------------------------
(* The owner's updates of accounts.                                          *)

RevokeAll(a) ==
  session' = [s \in Sessions |->
    IF session[s].account = a THEN Ended(session[s]) ELSE session[s]]
(* Mutant: an update that neither disables nor resets leaves sessions alone. *)
SetAccountGently(a, newRole, off, reset) ==
  /\ Exists(a) /\ updates[a] < MaxUpdates
  /\ a = Owner => reset /\ ~off
  /\ role' = IF a = Owner THEN role ELSE [role EXCEPT ![a] = newRole]
  /\ disabled' = IF off THEN disabled \cup {a} ELSE disabled \ {a}
  /\ password' = [password EXCEPT ![a] = IF reset THEN @ + 1 ELSE @]
  /\ updates' = [updates EXCEPT ![a] = @ + 1]
  /\ IF off \/ reset THEN RevokeAll(a) ELSE UNCHANGED session
  /\ UNCHANGED <<identityVars, enabled, proofVars>>
SetAccount(a, newRole, off, reset) ==
  /\ Exists(a) /\ updates[a] < MaxUpdates
  /\ a = Owner => reset /\ ~off
  /\ role' = IF a = Owner THEN role ELSE [role EXCEPT ![a] = newRole]
  /\ disabled' = IF off THEN disabled \cup {a} ELSE disabled \ {a}
  /\ password' = [password EXCEPT ![a] = IF reset THEN @ + 1 ELSE @]
  /\ updates' = [updates EXCEPT ![a] = @ + 1]
  /\ RevokeAll(a)
  /\ UNCHANGED <<identityVars, enabled, proofVars>>

UpdateAccount(a, newRole, off, reset) ==
  SetAccount(a, newRole, off, reset) /\ UNCHANGED req

(* The owner creates an account, and then gives it its role. *)
CreateAccount(r, a, newRole) ==
  /\ ~Exists(a)
  /\ Begin(r, [Idle EXCEPT
         !.at = "create", !.kind = "create", !.web = a, !.grant = newRole])
  /\ role' = [role EXCEPT ![a] = "member"]
  /\ UNCHANGED <<disabled, password, updates, session, identityVars, enabled,
                 proofVars>>

GiveRole(r) ==
  /\ req[r].at = "create"
  /\ End(r)
  /\ SetAccount(req[r].web, req[r].grant, FALSE, FALSE)

ToggleProvider(i) ==
  /\ enabled' = IF i \in enabled THEN enabled \ {i} ELSE enabled \cup {i}
  /\ UNCHANGED <<accountVars, session, identityVars, proofVars, req>>

----------------------------------------------------------------------------
(* Links between a web account and a Cloud account.                          *)

LinkedCloud(a) == IF link[a] = Nil THEN a ELSE link[a]
Webs(cloud) == {a \in Accounts : link[a] = cloud}
LinkedWeb(cloud) == IF Webs(cloud) = {} THEN cloud ELSE CHOOSE a \in Webs(cloud) : TRUE

(* One web account, one Cloud account, and no chains. *)
(* Mutant: only the two sides themselves are compared. *)
ConflictOfSides(web, cloud) ==
  link[web] \notin {Nil, cloud} \/ Webs(cloud) \ {web} # {}
Conflict(web, cloud) ==
  \/ link[web] \notin {Nil, cloud}
  \/ Webs(cloud) \ {web} # {}
  \/ link[cloud] # Nil
  \/ Webs(web) # {}
Duplicate(web, cloud) == \E p \in Profiles : {web, cloud} \subseteq owners[p]
MayConnect(web, cloud) ==
  /\ Exists(cloud) /\ Active(cloud)
  /\ ~Conflict(web, cloud) /\ ~Duplicate(web, cloud)
(* Mutant: the Cloud account's identities are moved to the web account. *)
MoveIdentitiesBack(web, cloud) ==
  owners' = [p \in Profiles |->
    IF cloud \in owners[p] THEN (owners[p] \ {cloud}) \cup {web} ELSE owners[p]]
MoveIdentities(web, cloud) ==
  owners' = [p \in Profiles |->
    IF web \in owners[p] THEN (owners[p] \ {web}) \cup {cloud} ELSE owners[p]]

Connect(r) ==
  /\ req[r].at = "connect"
  /\ LET web == req[r].web  cloud == req[r].cloud
     IN  IF web # cloud /\ MayConnect(web, cloud)
           THEN link' = [link EXCEPT ![web] = cloud] /\ MoveIdentities(web, cloud)
           ELSE UNCHANGED identityVars
  /\ IF req[r].kind # "connect" /\ MayConnect(req[r].web, req[r].cloud)
       THEN Go(r, "cloudRole")
       ELSE End(r)
  /\ UNCHANGED <<accountVars, session, enabled, proofVars>>

----------------------------------------------------------------------------
(* The mod's challenges: consumed before the provider is asked.              *)

CreateChallenge(c, purpose, x, p) ==
  /\ proof[c] = NoProof
  /\ Provider(p) \in enabled
  /\ purpose = "link" => Authentic(x)
  /\ proof' = [proof EXCEPT ![c] =
       [status |-> "open", purpose |-> purpose, actor |-> Nil, profile |-> p,
        account |-> IF purpose = "link" THEN ActorOf(x) ELSE Nil]]
  /\ UNCHANGED <<accountVars, session, identityVars, enabled, uses, req>>

Settle(x, status) == proof' = [proof EXCEPT ![x] = [NoProof EXCEPT !.status = status]]

(* Mutant: the challenge is consumed by a proof that succeeds only. *)
ClaimWithoutConsuming(r, c, x) ==
  /\ proof[c].status = "open"
  /\ proof[c].purpose = "link" => Authentic(x) /\ ActorOf(x) = proof[c].account
  /\ Begin(r, [Idle EXCEPT
         !.at = "provider", !.kind = "game", !.purpose = proof[c].purpose,
         !.web = proof[c].account, !.profile = proof[c].profile,
         !.proof = c])
  /\ UNCHANGED <<accountVars, session, identityVars, enabled, proofVars>>
Claim(r, c, x) ==
  /\ proof[c].status = "open"
  /\ proof[c].purpose = "link" => Authentic(x) /\ ActorOf(x) = proof[c].account
  /\ Settle(c, "consumed")
  /\ Begin(r, [Idle EXCEPT
         !.at = "provider", !.kind = "game", !.purpose = proof[c].purpose,
         !.web = proof[c].account, !.profile = proof[c].profile,
         !.proof = c])
  /\ UNCHANGED <<accountVars, session, identityVars, enabled, uses>>

(* Only third-party providers are looked up by a browser's sign-in. *)
FindProvider(r) ==
  /\ req[r].at = "provider"
  /\ Gate(r, \/ Provider(req[r].profile) \in enabled
             \/ req[r].kind = "browser" /\ Provider(req[r].profile) = Official,
          "network")

(* The provider refuses or fails, or the client goes away at an await. *)
Withdraw(r) ==
  /\ req[r].at \in {"network", "role", "create"} \/ At(r, {"connect"}, "revoke")
  /\ End(r)
  /\ UNCHANGED <<accountVars, session, identityVars, enabled, proofVars>>

Used(r) ==
  uses' = IF req[r].proof = Nil THEN uses ELSE [uses EXCEPT ![req[r].proof] = @ + 1]

(* Mutant: the owner that was read before is trusted. *)
MayLinkAsRead(a, p) == Provider(p) \in enabled
MayLink(a, p) == Provider(p) \in enabled /\ owners[p] \subseteq {a}
LinkProfile(a, p) == owners' = [owners EXCEPT ![p] = @ \cup {a}]

FinishLink(r) ==
  /\ At(r, {"game"}, "network") /\ req[r].purpose = "link"
  /\ IF MayLink(req[r].web, req[r].profile)
       THEN LinkProfile(req[r].web, req[r].profile) /\ Used(r)
       ELSE UNCHANGED <<owners, uses>>
  /\ End(r)
  /\ UNCHANGED <<accountVars, session, link, enabled, proof>>

(* A login that is refused ends like one that is withdrawn. *)
FinishLogin(r, s) ==
  /\ At(r, {"game"}, "network") /\ req[r].purpose = "login"
  /\ Provider(req[r].profile) \in enabled
  /\ Cardinality(owners[req[r].profile]) = 1
  /\ \E a \in owners[req[r].profile] : SignIn(s, a, TRUE)
  /\ Used(r)
  /\ End(r)
  /\ UNCHANGED <<accountVars, identityVars, enabled, proof>>

(* A challenge or a flow lapses; its row may be deleted later. *)
Lapse(x) ==
  /\ proof[x].status \in {"open", "ticket"}
  /\ Settle(x, "lapsed")
  /\ UNCHANGED <<accountVars, session, identityVars, enabled, uses, req>>

----------------------------------------------------------------------------
(* Signing in or linking in the browser.                                     *)

StartBrowser(r, purpose, x, p) ==
  /\ purpose = "link" => Authentic(x)
  /\ Begin(r, [Idle EXCEPT
         !.at = "provider", !.kind = "browser", !.purpose = purpose,
         !.profile = p, !.actor = IF purpose = "link" THEN x ELSE Nil,
         !.web = IF purpose = "link" THEN ActorOf(x) ELSE Nil])
  /\ UNCHANGED <<accountVars, session, identityVars, enabled, proofVars>>

StartFlow(f, purpose, x) ==
  /\ proof[f] = NoProof
  /\ purpose = "link" => Authentic(x)
  /\ proof' = [proof EXCEPT ![f] =
       [status |-> "open", purpose |-> purpose, profile |-> Nil,
        actor |-> IF purpose = "link" THEN x ELSE Nil,
        account |-> IF purpose = "link" THEN ActorOf(x) ELSE Nil]]
  /\ UNCHANGED <<accountVars, session, identityVars, enabled, uses, req>>

(* The callback takes the flow, the redemption the ticket: each only once. *)
TakeFlow(r, f, status, kind) ==
  /\ proof[f].status = status
  /\ Settle(f, "taken")
  /\ Begin(r, [Idle EXCEPT
         !.at = "validate", !.kind = kind, !.purpose = proof[f].purpose,
         !.actor = proof[f].actor, !.web = proof[f].account,
         !.profile = proof[f].profile, !.proof = f])
  /\ UNCHANGED <<accountVars, session, identityVars, enabled, uses>>
Callback(r, f) == TakeFlow(r, f, "open", "callback")
Redeem(r, f) == TakeFlow(r, f, "ticket", "redeem")

First(r) == IF req[r].purpose = "link" THEN "finish" ELSE "owner"

(* A link goes on only while the session that asked for it is valid. *)
Validate(r) ==
  /\ req[r].at = "validate"
  /\ Gate(r, \/ req[r].actor \in {Nil, Token}
             \/ req[r].actor \in Sessions /\ Valid(req[r].actor) /\ Active(req[r].web),
          IF req[r].kind = "callback" THEN "network" ELSE First(r))

StoreTicket(r, p) ==
  /\ At(r, {"callback"}, "network")
  /\ Provider(p) = Official
  /\ proof' = [proof EXCEPT ![req[r].proof] =
       [status |-> "ticket", purpose |-> req[r].purpose, actor |-> req[r].actor,
        account |-> req[r].web, profile |-> p]]
  /\ End(r)
  /\ UNCHANGED <<accountVars, session, identityVars, enabled, uses>>

ProveProfile(r) ==
  /\ At(r, {"browser"}, "network")
  /\ Gate(r, TRUE, First(r))

(* finish: one hold of the lock after another. *)
RecheckProvider(r) ==
  /\ req[r].at = "finish"
  /\ Gate(r, Provider(req[r].profile) \in enabled,
          IF req[r].purpose = "link" THEN "webRole" ELSE "cloudRole")

WebRole(r) ==
  /\ req[r].at = "webRole"
  /\ Gate(r, Active(req[r].web), "linked")

ReadLink(r) ==
  /\ req[r].at = "linked"
  /\ req' = [req EXCEPT ![r].at = "owner", ![r].cloud = LinkedCloud(req[r].web)]
  /\ UNCHANGED <<accountVars, session, identityVars, enabled, proofVars>>

ReadOwner(r) ==
  /\ req[r].at = "owner"
  /\ LET found == owners[req[r].profile]
         linking == req[r].purpose = "link"
     IN  \/ /\ linking /\ found \subseteq {req[r].cloud}
            /\ Go(r, "cloudRole")
         \/ \E a \in found :
              /\ found = {a}
              /\ linking => a # req[r].cloud /\ req[r].cloud = req[r].web
              /\ req' = [req EXCEPT ![r].cloud = a,
                           ![r].at = IF linking THEN "connect" ELSE "finish"]
         \/ /\ IF linking THEN /\ ~found \subseteq {req[r].cloud}
                               /\ \/ Cardinality(found) > 1
                                  \/ req[r].cloud # req[r].web
               ELSE Cardinality(found) # 1
            /\ End(r)
  /\ UNCHANGED <<accountVars, session, identityVars, enabled, proofVars>>

CloudRole(r) ==
  /\ req[r].at = "cloudRole"
  /\ Gate(r, Active(req[r].cloud),
          IF req[r].purpose = "link" THEN "link" ELSE "linkedWeb")

LinkIdentity(r) ==
  /\ req[r].at = "link"
  /\ IF MayLink(req[r].cloud, req[r].profile)
       THEN LinkProfile(req[r].cloud, req[r].profile) /\ Go(r, "issueRole")
       ELSE UNCHANGED owners /\ End(r)
  /\ UNCHANGED <<accountVars, session, link, enabled, proofVars>>

ReadWeb(r) ==
  /\ req[r].at = "linkedWeb"
  /\ req' = [req EXCEPT ![r].at = "issueRole", ![r].web = LinkedWeb(req[r].cloud)]
  /\ UNCHANGED <<accountVars, session, identityVars, enabled, proofVars>>

IssueRole(r) ==
  /\ req[r].at = "issueRole"
  /\ Gate(r, /\ Active(req[r].web)
             /\ req[r].purpose = "admin" => Manages(req[r].web), "issue")

Issue(r, s) ==
  /\ req[r].at = "issue"
  /\ LET a == req[r].web  x == req[r].actor
     IN  IF x \in Sessions
           THEN NewSession(s, a, session[x].since, "link", s, TRUE)
           ELSE SignIn(s, a, TRUE)
  /\ Used(r)
  /\ End(r)
  /\ UNCHANGED <<accountVars, identityVars, enabled, proof>>

----------------------------------------------------------------------------
SignInStep(r) ==
  \/ \E kind \in {"api", "account", "console"}, a \in Accounts :
       StartSignIn(r, kind, a)
  \/ \E x \in Actors, a \in Accounts : StartConnect(r, x, a)
  \/ CheckDisabled(r)
  \/ \E s \in Sessions : Verify(r, s)
  \/ ReadRole(r)
  \/ RevokeIssued(r)
  \/ Connect(r)
  \/ Withdraw(r)

ChallengeStep(r) ==
  \/ \E c \in Challenges, x \in Actors : Claim(r, c, x)
  \/ FindProvider(r)
  \/ FinishLink(r)
  \/ \E s \in Sessions : FinishLogin(r, s)

BrowserStep(r) ==
  \/ \E purpose \in Purposes, x \in Actors, p \in Profiles :
       StartBrowser(r, purpose, x, p)
  \/ \E f \in Flows : Callback(r, f) \/ Redeem(r, f)
  \/ Validate(r)
  \/ \E p \in Profiles : StoreTicket(r, p)
  \/ ProveProfile(r)
  \/ RecheckProvider(r)
  \/ WebRole(r)
  \/ ReadLink(r)
  \/ ReadOwner(r)
  \/ CloudRole(r)
  \/ LinkIdentity(r)
  \/ ReadWeb(r)
  \/ IssueRole(r)
  \/ \E s \in Sessions : Issue(r, s)

Administer ==
  \/ \E a \in Accounts : Register(a)
  \/ \E a \in Accounts, newRole \in {"member", "admin"}, off, reset \in BOOLEAN :
       UpdateAccount(a, newRole, off, reset)
  \/ \E r \in Requests, a \in Accounts, newRole \in {"member", "admin"} :
       CreateAccount(r, a, newRole)
  \/ \E r \in Requests : GiveRole(r)
  \/ \E i \in Providers : ToggleProvider(i)

SessionStep ==
  \/ \E s, t \in Sessions : Refresh(s, t)
  \/ \E s \in Sessions : Logout(s) \/ Expire(s)
  \/ \E c \in Challenges, purpose \in {"login", "link"}, x \in Actors, p \in Profiles :
       CreateChallenge(c, purpose, x, p)
  \/ \E f \in Flows, purpose \in Purposes, x \in Actors : StartFlow(f, purpose, x)
  \/ \E x \in Challenges \cup Flows : Lapse(x)

Next ==
  \/ Administer
  \/ SessionStep
  \/ \E r \in Requests : SignInStep(r) \/ ChallengeStep(r) \/ BrowserStep(r)

Spec == Init /\ [][Next]_vars

----------------------------------------------------------------------------
(* Properties.                                                               *)

SessionRows ==
  [account : Accounts \cup {Nil}, live : BOOLEAN,
   fresh : BOOLEAN, since : Nat, by : {"signin", "link"},
   root : Sessions \cup {Nil}, out : BOOLEAN]
ProofRows ==
  [status : {"none", "open", "consumed", "taken", "ticket", "lapsed"},
   purpose : Purposes, actor : Actors \cup {Nil}, account : Accounts \cup {Nil},
   profile : Profiles \cup {Nil}]
RequestStates ==
  [at : Places, kind : Kinds, purpose : Purposes, actor : Actors \cup {Nil},
   web : Accounts \cup {Nil}, cloud : Accounts \cup {Nil}, password : Nat,
   profile : Profiles \cup {Nil}, proof : Challenges \cup Flows \cup {Nil},
   session : Sessions \cup {Nil}, grant : {"member", "admin"}]

(* The rows of the tables and the requests are what the code can store. *)
TypeOK ==
  /\ role \in [Accounts -> {"none", "member", "admin"}]
  /\ disabled \in SUBSET Accounts
  /\ password \in [Accounts -> Nat]
  /\ updates \in [Accounts -> 0..MaxUpdates]
  /\ session \in [Sessions -> SessionRows]
  /\ link \in [Accounts -> Accounts \cup {Nil}]
  /\ owners \in [Profiles -> SUBSET Accounts]
  /\ enabled \in SUBSET Providers
  /\ proof \in [Challenges \cup Flows -> ProofRows]
  /\ uses \in [Challenges \cup Flows -> Nat]
  /\ req \in [Requests -> RequestStates]

(* A change of role, a password reset, a disabling and an enabling each end  *)
(* every session whose sign-in came before it, those that were refreshed,    *)
(* those that a request issued while the account was disabled included.      *)
UpdatesEndSignIns ==
  \A s \in Sessions : session[s].live /\ session[s].by = "signin" =>
    session[s].since = updates[session[s].account]

(* The same for every session: one that a linking request issued stands for  *)
(* the sign-in of the session that asked for the link.                       *)
UpdatesEndEverySession ==
  \A s \in Sessions : session[s].live =>
    session[s].since = updates[session[s].account]

(* However often a sign-in is refreshed, by however many holders of its      *)
(* tokens, at most one session of it is alive.                               *)
OneSessionPerSignIn ==
  \A s, t \in Sessions :
    session[s].live /\ session[t].live /\ session[s].root = session[t].root => s = t

(* A game profile is verified for at most one account, whichever way and     *)
(* with whatever in flight it was linked: the tables do not say so.          *)
OneOwner == \A p \in Profiles : \A a, b \in owners[p] : a = b

(* Links pair accounts up: no account is in two of them. *)
LinksPairAccounts ==
  \A a, b \in Accounts : link[a] # Nil =>
    /\ link[a] # a /\ link[link[a]] = Nil
    /\ link[b] = link[a] => a = b

(* One challenge, or one Microsoft sign-in, is good for one session or link. *)
ProofsUsedOnce == \A x \in Challenges \cup Flows : uses[x] <= 1

(* A verified profile is never taken away from its account, but for the move *)
(* to the Cloud account which that account is linked to in the same step.    *)
BindingsStay ==
  [][\A p \in Profiles : \A a \in owners[p] :
       a \in owners'[p] \/ (link'[a] # Nil /\ owners'[p] = {link'[a]})]_vars

(* The tables, the challenges and the requests implement sign-ins, profiles  *)
(* and proofs, however the holds of the lock are interleaved.                *)
IssuedTo == [s \in Sessions |-> session[s].account]
Holding == [s \in Sessions |-> IF session[s].live THEN session[s].root ELSE Nil]
People == INSTANCE SignIns WITH
  Proofs <- Challenges \cup Flows, account <- IssuedTo, holds <- Holding,
  epoch <- updates, pair <- link, spent <- uses
ImplementsSignIns == People!Spec
=============================================================================
