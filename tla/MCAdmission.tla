---------------------------- MODULE MCAdmission ----------------------------
(* Uploads and a preview compete for one or two places while an update       *)
(* drains them.  The uploads are alike and come in the order of their        *)
(* numbers; the second one comes only while there is no preview and no limit *)
(* has been changed.                                                          *)
EXTENDS Admission

MCUploads == 1..2

Came(x) == stage'[Worker(x)] # "idle"
Arrived(u) == stage'[Upload(u)] # "idle"
InInstance ==
  Arrived(2) =>
    Arrived(1) /\ settings' = 0 /\ \A p \in Previews : ~Came(p)
MCSpec == Init /\ [][Next /\ InInstance]_vars /\ Fairness
=============================================================================
