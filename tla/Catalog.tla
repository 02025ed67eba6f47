------------------------------- MODULE Catalog -------------------------------
(* Pages of the directory of models and their cache (catalog.rs,              *)
(* catalog_cache.rs).  A key stands for the account, the writes counted so    *)
(* far and the query.  Pages of the process and of Redis expire, and Redis may *)
(* be out of reach: a lookup may always miss.                                 *)
EXTENDS Moderation

CONSTANTS
  Requests,
  MaxPages     \* cache.max_pages

ASSUME PagesAssumption == MaxPages \in Nat \ {0}

VARIABLES
  swaps,       \* how often settings have replaced the cache
  request,     \* what each request is doing
  memory,      \* the pages kept by the process, the youngest last
  redis,       \* the pages kept by Redis
  lately       \* the pages that were true since a request began (history)

catalogVars == <<swaps, request, memory, redis>>

----------------------------------------------------------------------------
NoRequest == [step |-> "none", account |-> Nil, cache |-> 0,
              backend |-> "none", changes |-> 0, page |-> {}]

(* catalog_cache::CatalogCache: keys and pages.  A cache that is replaced    *)
(* lives on with the requests that hold it; Redis outlives all.              *)
Entries(pages) == {pages[n] : n \in DOMAIN pages}
SameKey(e, q) == e.account = q.account /\ e.changes = q.changes
KeyOf(q) == [cache |-> q.cache, account |-> q.account, changes |-> q.changes,
             page |-> q.page]
InMemory(q) == {e \in Entries(memory) : SameKey(e, q) /\ e.cache = q.cache}
InRedis(q) ==
  {e \in Entries(redis) : SameKey(e, q) /\ q.backend = "redis"}

(* The page replaces the one its key had, then the oldest makes room.        *)
Added(pages, e) ==
  LET same == {n \in DOMAIN pages :
                 SameKey(pages[n], e) /\ pages[n].cache = e.cache}
      others == IF same = {} THEN pages
                ELSE RemoveAt(pages, CHOOSE n \in same : TRUE)
      all == Append(others, e)
  IN  IF Len(all) > MaxPages THEN Tail(all) ELSE all

CatalogInit ==
  /\ swaps = 0 /\ memory = <<>> /\ redis = <<>>
  /\ request = [r \in Requests |-> NoRequest]
  /\ lately = [r \in Requests |-> {}]

----------------------------------------------------------------------------
(* list(): the cache in use and the writes counted so far make the key.      *)
EpochOfRevisions == Cardinality({x \in Assets : HasRevision(x)})
Epoch == changes
BeginRequest(r, a) ==
  /\ Serving /\ request[r] = NoRequest
  /\ request' = [request EXCEPT ![r] =
       [step |-> "keyed", account |-> a, cache |-> swaps,
        backend |-> active.says.backend, changes |-> Epoch, page |-> {}]]
  /\ UNCHANGED <<settingsVars, moderationVars, pictureVars, swaps, memory, redis>>

(* get(): a page found in memory becomes the youngest one there.             *)
Hit(r, e) ==
  /\ request[r].step = "keyed" /\ request[r].backend # "none"
  /\ \/ e \in InRedis(request[r]) /\ UNCHANGED memory
     \/ e \in InMemory(request[r]) /\ memory' = Added(memory, e)
  /\ request' = [request EXCEPT ![r].step = "found", ![r].page = e.page]
  /\ UNCHANGED <<settingsVars, moderationVars, pictureVars, swaps, redis>>

Miss(r) ==
  /\ request[r].step = "keyed"
  /\ request' = [request EXCEPT ![r].step = "missed"]
  /\ UNCHANGED <<settingsVars, moderationVars, pictureVars, swaps, memory, redis>>

(* cached_page_is_current(): its rows are what they would be now.            *)
StillTrue(r) == request[r].page \subseteq Directory(request[r].account)
Recheck(r) ==
  /\ request[r].step = "found"
  /\ request' = [request EXCEPT ![r].step =
                   IF StillTrue(r) THEN "answered" ELSE "missed"]
  /\ UNCHANGED <<settingsVars, moderationVars, pictureVars, swaps, memory, redis>>

LoadPage(r) ==
  /\ request[r].step = "missed"
  /\ request' = [request EXCEPT ![r].step = "loaded",
                                ![r].page = Directory(request[r].account)]
  /\ UNCHANGED <<settingsVars, moderationVars, pictureVars, swaps, memory, redis>>

(* put(), under the key that the request began with; Redis may be away.      *)
Put(r, reached) ==
  LET q == request[r]
  IN  /\ q.step = "loaded"
      /\ request' = [request EXCEPT ![r].step = "answered"]
      /\ memory' = IF q.backend = "none" THEN memory
                   ELSE Added(memory, KeyOf(q))
      /\ redis' = IF q.backend = "redis" /\ reached
                  THEN Added(redis, [KeyOf(q) EXCEPT !.cache = 0])
                  ELSE redis
      /\ UNCHANGED <<settingsVars, moderationVars, pictureVars, swaps>>

EndRequest(r) ==
  /\ request[r].step = "answered"
  /\ request' = [request EXCEPT ![r] = NoRequest]
  /\ UNCHANGED <<settingsVars, moderationVars, pictureVars, swaps, memory, redis>>

RequestNext ==
  \/ \E r \in Requests, a \in Accounts : BeginRequest(r, a)
  \/ \E r \in Requests, e \in Entries(memory) \cup Entries(redis) : Hit(r, e)
  \/ \E r \in Requests : \/ Miss(r) \/ Recheck(r) \/ LoadPage(r)
                         \/ \E reached \in BOOLEAN : Put(r, reached)
                         \/ EndRequest(r)

(* install_runtime_config(): another cache configuration, another cache.     *)
(* Requests keep the one they began with.                                    *)
CacheInstalled ==
  /\ swaps' = IF job.text.says.backend # active.says.backend THEN swaps + 1
              ELSE swaps
  /\ UNCHANGED <<request, memory, redis>>

(* A kill leaves what Redis keeps.                                           *)
CacheEnds ==
  /\ swaps' = 0 /\ memory' = <<>>
  /\ request' = [r \in Requests |-> NoRequest]
  /\ UNCHANGED redis

(* The history: what each directory was since the request began.             *)
Directories == [a \in Accounts |-> Directory(a)]
Remember ==
  lately' = [r \in Requests |->
    IF request'[r] = NoRequest THEN {}
    ELSE lately[r] \cup {Directories'[request'[r].account]}]

----------------------------------------------------------------------------
CatalogTypeOK ==
  /\ swaps \in Nat
  /\ \A r \in Requests : request[r].step \in
       {"none", "keyed", "found", "missed", "loaded", "answered"}

(* Pages are fresh.  A page that is answered is the directory as it was at   *)
(* some moment of the request, however fills, writes and replaced caches     *)
(* interleave, so nothing appears that a write had hidden before the request *)
(* and nothing is missing that one had shown.  Of a page that Redis may have *)
(* kept from an earlier process only the first half is true.                 *)
PagesAreFresh ==
  \A r \in Requests :
    LET q == request[r]
    IN  q.step = "answered" =>
          IF q.backend = "redis" THEN q.page \subseteq UNION lately[r]
          ELSE q.page \in lately[r]
=============================================================================
