------------------------------- MODULE Claims -------------------------------
(* Who plays an entity of a world without online verification (store.rs):     *)
(* offline identities ask, and a manager approves; or a manager hands out a   *)
(* code, and an offline identity redeems it.                                  *)
EXTENDS Scopes

CONSTANTS Persons, Bindings, Codes,   \* the rows that may be inserted
          MaxAttempts, CodeTtl

ASSUME ClaimAssumption ==
  /\ Nil \notin Persons \cup Bindings \cup Codes
  /\ MaxAttempts \in Nat /\ CodeTtl \in Nat

VARIABLES
  person,      \* identities of kind offline
  binding,     \* scoped_identity_bindings; "code" is the code it came by
  code         \* claim_codes

claimVars == <<person, binding, code>>

----------------------------------------------------------------------------
Statuses == {"none", "PENDING", "APPROVED", "REJECTED"}
NoPerson == [account |-> Nil, world |-> Nil, entity |-> Nil]
NoClaim == [person |-> Nil, world |-> Nil, entity |-> Nil, status |-> "none",
            revision |-> 0, code |-> Nil]
NoCode == [world |-> Nil, entity |-> Nil, expires |-> 0, attempts |-> 0,
           consumed |-> FALSE, revoked |-> FALSE]

Holders(w, e) ==
  {b \in Bindings : /\ binding[b].world = w /\ binding[b].entity = e
                    /\ binding[b].status = "APPROVED"}

(* idx_scoped_identity_active; where b is granted, nobody else is.           *)
MayHoldAnyway(b, w, e) == TRUE
MayHold(b, w, e) == Holders(w, e) \subseteq {b}

(* A manager decides in person where the policy says so.                     *)
DecidesAnywhere(a, w) == role[w][a] = "manage"
Decides(a, w) == role[w][a] = "manage" /\ policy[w] = "STRICT_APPROVAL"

Redeemable(c) ==
  /\ code[c] # NoCode /\ ~code[c].revoked /\ ~code[c].consumed
  /\ now < code[c].expires
  /\ code[c].attempts < MaxAttempts

ClaimInit ==
  /\ person = [i \in Persons |-> NoPerson]
  /\ binding = [b \in Bindings |-> NoClaim]
  /\ code = [c \in Codes |-> NoCode]

----------------------------------------------------------------------------
(* create_identity(): the name and the UUID are the account's own choice.    *)
CreateIdentity(a, i, w, e) ==
  /\ person[i] = NoPerson
  /\ role[w][a] \in Editors
  /\ person' = [person EXCEPT ![i] =
                  [account |-> a, world |-> w, entity |-> e]]
  /\ UNCHANGED <<binding, code>>

(* create_offline_binding(): requests may pile up; one may be granted.       *)
RequestBinding(a, i, b, t) ==
  LET w == person[i].world
  IN  /\ person[i].account = a
      /\ policy[w] = "STRICT_APPROVAL"
      /\ target[t] = [world |-> w, kind |-> "PLAYER"]
      /\ Holders(w, person[i].entity) = {}
      /\ binding[b] = NoClaim
      /\ binding' = [binding EXCEPT ![b] =
           [person |-> i, world |-> w, entity |-> person[i].entity,
            status |-> "PENDING", revision |-> 0, code |-> Nil]]
      /\ UNCHANGED <<person, code>>

(* approve_offline_binding(): from any status, on the revision the manager   *)
(* saw.                                                                      *)
DecideBinding(a, b, status, seen) ==
  LET w == binding[b].world
  IN  /\ binding[b] # NoClaim
      /\ Decides(a, w)
      /\ binding[b].revision = seen
      /\ status = "APPROVED" => MayHold(b, w, binding[b].entity)
      /\ seen < MaxRevision
      /\ binding' = [binding EXCEPT ![b].status = status, ![b].revision = @ + 1]
      /\ UNCHANGED <<person, code>>

(* create_claim_code()                                                       *)
IssueCode(a, c, t, e) ==
  LET w == target[t].world
  IN  /\ target[t] # NoTarget /\ target[t].kind = "PLAYER"
      /\ role[w][a] = "manage"
      /\ policy[w] \in {"CLAIM_CODE", "FIRST_CLAIM"}
      /\ policy[w] = "FIRST_CLAIM" => Holders(w, e) = {}
      /\ code[c] = NoCode
      /\ code' = [code EXCEPT ![c] = [NoCode EXCEPT
           !.world = w, !.entity = e, !.expires = now + CodeTtl]]
      /\ UNCHANGED <<person, binding>>

(* redeem_claim_code(): the attempt is counted by a statement of its own; an *)
(* identity that does not fit, an entity that is taken, or a kill leaves it  *)
(* counted and nothing else.                                                 *)
RedeemCode(a, i, c, b, killed) ==
  LET w == code[c].world
      e == code[c].entity
      fits == person[i] = [account |-> a, world |-> w, entity |-> e]
  IN  /\ Redeemable(c)
      /\ policy[w] \in {"CLAIM_CODE", "FIRST_CLAIM"}
      /\ binding[b] = NoClaim
      /\ IF fits /\ MayHold(b, w, e) /\ ~killed
         THEN /\ binding' = [binding EXCEPT ![b] =
                   [person |-> i, world |-> w, entity |-> e,
                    status |-> "APPROVED", revision |-> 1, code |-> c]]
              /\ code' = [code EXCEPT ![c].attempts = @ + 1,
                                      ![c].consumed = TRUE]
         ELSE /\ code' = [code EXCEPT ![c].attempts = @ + 1]
              /\ UNCHANGED binding
      /\ UNCHANGED person

(* revoke_claim_code(): what was consumed stays so.                          *)
RevokeCode(a, c) ==
  /\ code[c] # NoCode /\ ~code[c].consumed
  /\ role[code[c].world][a] = "manage"
  /\ code' = [code EXCEPT ![c].revoked = TRUE]
  /\ UNCHANGED <<person, binding>>

ClaimNext ==
  \/ \E a \in Accounts, i \in Persons, w \in Worlds, e \in Entities :
       CreateIdentity(a, i, w, e)
  \/ \E a \in Accounts, i \in Persons, b \in Bindings, t \in Targets :
       RequestBinding(a, i, b, t)
  \/ \E a \in Accounts, b \in Bindings, s \in {"APPROVED", "REJECTED"},
        n \in Revisions : DecideBinding(a, b, s, n)
  \/ \E a \in Accounts, c \in Codes, t \in Targets, e \in Entities :
       IssueCode(a, c, t, e)
  \/ \E a \in Accounts, i \in Persons, c \in Codes, b \in Bindings,
        killed \in BOOLEAN : RedeemCode(a, i, c, b, killed)
  \/ \E a \in Accounts, c \in Codes : RevokeCode(a, c)

----------------------------------------------------------------------------
ClaimTypeOK ==
  /\ person \in [Persons -> [account : Accounts \cup {Nil},
       world : Worlds \cup {Nil}, entity : Entities \cup {Nil}]]
  /\ binding \in [Bindings -> [person : Persons \cup {Nil},
       world : Worlds \cup {Nil}, entity : Entities \cup {Nil},
       status : Statuses, revision : Revisions \cup {1},
       code : Codes \cup {Nil}]]
  /\ code \in [Codes -> [world : Worlds \cup {Nil},
       entity : Entities \cup {Nil}, expires : Nat, attempts : Nat,
       consumed : BOOLEAN, revoked : BOOLEAN]]

(* An entity of a world has one approved player at most, however requests,   *)
(* decisions and codes interleave; a code grants one binding at most, the    *)
(* one of its entity, and never once it is revoked; codes are redeemed in no *)
(* world whose manager approves in person, and none is tried more often than *)
(* MaxAttempts times, refused redemptions and killed ones included.          *)
OneHolderPerEntity ==
  /\ \A b1, b2 \in Bindings :
       /\ binding[b1].status = "APPROVED" /\ binding[b2].status = "APPROVED"
       /\ binding[b1].world = binding[b2].world
       /\ binding[b1].entity = binding[b2].entity
       => b1 = b2
  /\ \A b \in Bindings :
       LET c == binding[b].code
       IN  c # Nil => /\ binding[b].status = "APPROVED"
                      /\ code[c].consumed /\ ~code[c].revoked
                      /\ code[c].world = binding[b].world
                      /\ code[c].entity = binding[b].entity
                      /\ policy[code[c].world] # "STRICT_APPROVAL"
  /\ \A b1, b2 \in Bindings :
       binding[b1].code = binding[b2].code /\ binding[b1].code # Nil => b1 = b2
  /\ \A c \in Codes : code[c].attempts <= MaxAttempts

(* A claim made by a code is final: no manager decides on it again, and its  *)
(* world keeps its policy, so the entity stays with whoever claimed it.      *)
ClaimsAreFinal ==
  [][\A b \in Bindings :
       binding[b].code # Nil => binding'[b] = binding[b]]_<<baseVars, claimVars>>
=============================================================================
