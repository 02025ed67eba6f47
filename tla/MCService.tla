----------------------------- MODULE MCService -----------------------------
(* The server with one or two of everything.  In each behaviour only the      *)
(* parts that its topic names change, besides the process starting and reading *)
(* its file.                                                                  *)
EXTENDS Service

CONSTANTS p1, q2, s2, Scenarios, MaxKeys

VARIABLE topic

(* Two configurations that differ in all that is modelled of them.           *)
Open == [policy |-> {}, providers |-> {p1}, backend |-> "memory"]
Closed == [policy |-> {"r18", "unclassified"}, providers |-> {},
           backend |-> "redis"]
MCOptions == {Open, Closed}

Says == IF "redis" \in topic THEN Closed ELSE Open

(* Started, the file polled, and a clean model that an earlier process has    *)
(* registered.                                                               *)
Warm ==
  /\ file = [says |-> Says, secret |-> Nil] /\ secrets = {}
  /\ db = [policy |-> Says.policy, enabled |-> Says.providers,
           managed |-> Says.providers]
  /\ up = TRUE /\ active = file
  /\ generation = 2 /\ seen = [text |-> file, generation |-> 2]
  /\ job = NoJob /\ overridden = {} /\ changes = 2
  /\ edits = 0 /\ saves = 0 /\ faults = 0
  /\ verdict = [c \in Contents |-> "CLEAN"] /\ mark = [c \in Contents |-> Nil]
  /\ found = [c \in Contents |-> {"CLEAN"}]
  /\ scan = [s \in Scanners |-> NoScan]
  /\ revisions \in {[x \in Assets |-> <<[content |-> c, picture |-> Nil]>>] :
                      c \in Contents}
  /\ deleted = {} /\ accessible = [a \in Accounts |-> Assets]
  /\ render = [r \in Renderers |-> NoRender]
  /\ stored = [c \in Contents |-> "none"] /\ temp = stored
  /\ CatalogInit

MCInit ==
  /\ topic \in Scenarios
  /\ IF "warm" \in topic THEN Warm ELSE Init /\ file.says = Says

MCNext ==
  /\ \/ Installed
     \/ SettingsStep /\ (Boot \/ PollBegin \/ PollLoad \/ Commit)
     \/ "settings" \in topic /\ SettingsStep
     \/ "edits" \in topic /\ SettingsStep /\ edits = 0 /\ edits' = 1
     \/ "kills" \in topic /\ Killed
     \/ "scans" \in topic /\ ScanNext /\ UNCHANGED catalogVars
     \/ "admins" \in topic /\ AdminNext /\ UNCHANGED catalogVars
     \/ "deletes" \in topic /\ UNCHANGED catalogVars
          /\ \E x \in Assets, restore \in BOOLEAN : DeleteOrRestore(x, restore)
     \/ "pictures" \in topic /\ RenderNext /\ UNCHANGED catalogVars
     \/ "pages" \in topic /\ RequestNext
  /\ "pages" \in topic => changes' <= MaxKeys /\ scan'[s2] = NoScan
  /\ "crowd" \notin topic => request'[q2] = NoRequest
  /\ Remember
  /\ UNCHANGED topic

MCSpec == MCInit /\ [][MCNext]_<<vars, topic>> /\ Fairness
=============================================================================
