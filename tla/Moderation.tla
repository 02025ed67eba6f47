----------------------------- MODULE Moderation -----------------------------
(* Models, what scans and administrators say of their contents                *)
(* (moderation.rs, admin.rs), which of them may be listed, and the pictures   *)
(* that external renderers make of them (thumbnails.rs).  UploadPipeline has  *)
(* how an upload gets here; names, owners and rights are one set per account. *)
EXTENDS Settings, SequencesExt

CONSTANTS
  Accounts, Assets, Contents,   \* contents: SHA-256 digests of models
  Scanners, Renderers,          \* uploads and rescans; thumbnails at a time
  MaxRevisions                  \* of an asset

ASSUME ContentAssumption ==
  Nil \notin Assets \cup Contents /\ "failed" \notin Contents

VARIABLES
  verdict,     \* model_moderation.status, Nil where there is no row
  mark,        \* model_moderation.manual_status
  found,       \* what scans have said of a content (history)
  scan,        \* what each scanner is doing
  revisions,   \* assets and asset_revisions
  deleted,     \* deleted_assets
  accessible,  \* the assets in an account's directory, if they are available
  render,      \* what each renderer is doing
  stored,      \* the picture files: "none", "partial" or "whole"
  temp         \* the temporary files that become pictures

moderationVars == <<verdict, mark, found, scan, revisions, deleted, accessible>>
pictureVars == <<render, stored, temp>>

----------------------------------------------------------------------------
Verdicts == {"CLEAN", "UNKNOWN", "R18", "DISABLED"}
Marks == {"CLEAN", "UNKNOWN", "R18"}
ASSUME VerdictAssumption == Nil \notin Verdicts
NoScan == [step |-> "none", content |-> Nil, asset |-> Nil]
NoRender == [step |-> "none", asset |-> Nil, revision |-> 0, picture |-> Nil,
             file |-> "none"]
Files == {"none", "partial", "whole"}

(* The picture of a content is the same whoever renders it, so contents      *)
(* stand for the digests of pictures, too.                                   *)
Pictures == Contents \cup {Nil, "failed"}

Current(x) == Last(revisions[x])
HasRevision(x) == revisions[x] # <<>>

(* The status that counts, and what the policy makes of it: the view         *)
(* available_asset_revisions and enforce_content_policy().                   *)
Status(c) ==
  IF mark[c] # Nil THEN mark[c]
  ELSE IF verdict[c] # Nil THEN verdict[c] ELSE "UNKNOWN"
Blocked(c) ==
  \/ "r18" \in db.policy /\ Status(c) = "R18"
  \/ "unclassified" \in db.policy /\ Status(c) \notin {"CLEAN", "R18"}

(* What a directory lists: load_page().                                      *)
Entry(x) == [asset |-> x, content |-> Current(x).content,
             picture |-> Current(x).picture]
Directory(a) ==
  {Entry(x) : x \in {y \in accessible[a] \ deleted :
                       HasRevision(y) /\ ~Blocked(Current(y).content)}}

(* save_scan(): R18 stays, and CLEAN yields to R18 alone.                    *)
MergedLatest(old, new) ==
  IF new \in {"UNKNOWN", "DISABLED"} /\ old \in {"CLEAN", "R18"} THEN old
  ELSE new
Merged(old, new) ==
  CASE old = "R18" -> "R18"
    [] old = "CLEAN" /\ new \in {"UNKNOWN", "DISABLED"} -> "CLEAN"
    [] OTHER -> new

ModerationInit ==
  /\ verdict = [c \in Contents |-> Nil] /\ mark = [c \in Contents |-> Nil]
  /\ found = [c \in Contents |-> {}]
  /\ scan = [s \in Scanners |-> NoScan]
  /\ revisions = [x \in Assets |-> <<>>]
  /\ deleted = {} /\ accessible = [a \in Accounts |-> Assets]
  /\ render = [r \in Renderers |-> NoRender]
  /\ stored = [c \in Contents |-> "none"] /\ temp = [c \in Contents |-> "none"]

(* A write to the database; several of one action count as one.              *)
Writes == Connected /\ changes < MaxChanges /\ changes' = changes + 1
OnlyChanges == UNCHANGED <<file, secrets, db, up, active, generation, seen, job,
                           overridden, edits, saves, faults>>

----------------------------------------------------------------------------
(* The scan of an upload, or of a model that an administrator looks at; it   *)
(* may answer in any order with other scans, and fail.                       *)
StartUpload(s, x, c) ==
  /\ Serving /\ scan[s] = NoScan
  /\ Len(revisions[x]) < MaxRevisions
  /\ scan' = [scan EXCEPT ![s] = [step |-> "upload", content |-> c, asset |-> x]]
  /\ UNCHANGED <<settingsVars, verdict, mark, found, revisions, deleted,
                 accessible, pictureVars>>

StartRescan(s, x) ==
  /\ Serving /\ scan[s] = NoScan /\ HasRevision(x)
  /\ scan' = [scan EXCEPT ![s] =
       [step |-> "rescan", content |-> Current(x).content, asset |-> x]]
  /\ UNCHANGED <<settingsVars, verdict, mark, found, revisions, deleted,
                 accessible, pictureVars>>

SaveScan(s, v) ==
  LET c == scan[s].content
  IN  /\ scan[s].step \in {"upload", "rescan"}
      /\ Writes /\ OnlyChanges
      /\ verdict' = [verdict EXCEPT ![c] = Merged(@, v)]
      /\ found' = [found EXCEPT ![c] = @ \cup {v}]
      /\ scan' = [scan EXCEPT ![s] =
           IF @.step = "rescan" THEN NoScan ELSE [@ EXCEPT !.step = "saved"]]
      /\ UNCHANGED <<mark, revisions, deleted, accessible, pictureVars>>

(* enforce_content_policy(), under another hold of the lock                  *)
EnforcePolicy(s) ==
  /\ scan[s].step = "saved"
  /\ scan' = [scan EXCEPT ![s] =
       IF Blocked(@.content) THEN NoScan ELSE [@ EXCEPT !.step = "allowed"]]
  /\ UNCHANGED <<settingsVars, verdict, mark, found, revisions, deleted,
                 accessible, pictureVars>>

Register(s) ==
  LET x == scan[s].asset
  IN  /\ scan[s].step = "allowed" /\ Len(revisions[x]) < MaxRevisions
      /\ Writes /\ OnlyChanges
      /\ revisions' = [revisions EXCEPT ![x] =
           Append(@, [content |-> scan[s].content, picture |-> Nil])]
      /\ scan' = [scan EXCEPT ![s] = NoScan]
      /\ UNCHANGED <<verdict, mark, found, deleted, accessible, pictureVars>>

(* mark(): a row that no scan has made says UNKNOWN.                         *)
Mark(x, m) ==
  LET c == Current(x).content
  IN  /\ HasRevision(x)
      /\ Writes /\ OnlyChanges
      /\ mark' = [mark EXCEPT ![c] = m]
      /\ verdict' = [verdict EXCEPT ![c] = IF @ = Nil THEN "UNKNOWN" ELSE @]
      /\ UNCHANGED <<found, scan, revisions, deleted, accessible, pictureVars>>

(* admin_delete_asset()                                                      *)
DeleteOrRestore(x, restore) ==
  /\ HasRevision(x)
  /\ Writes /\ OnlyChanges
  /\ deleted' = IF restore THEN deleted \ {x} ELSE deleted \cup {x}
  /\ UNCHANGED <<verdict, mark, found, scan, revisions, accessible, pictureVars>>

(* set_asset_visibility(), set_asset_acl(), assign_asset_owner()             *)
ChangeAccess(a, x) ==
  /\ HasRevision(x)
  /\ Writes /\ OnlyChanges
  /\ accessible' = [accessible EXCEPT ![a] =
       IF x \in @ THEN @ \ {x} ELSE @ \cup {x}]
  /\ UNCHANGED <<verdict, mark, found, scan, revisions, deleted, pictureVars>>

----------------------------------------------------------------------------
(* A renderer takes a revision from the queue of pending(), ...              *)
QueueRender(r, x) ==
  /\ Serving /\ render[r] = NoRender
  /\ HasRevision(x) /\ x \notin deleted /\ Current(x).picture = Nil
  /\ render' = [render EXCEPT ![r] = [NoRender EXCEPT
       !.step = "queued", !.asset = x, !.revision = Len(revisions[x])]]
  /\ UNCHANGED <<settingsVars, moderationVars, stored, temp>>

(* ... and draws what the preview of the asset shows.                        *)
Draw(r) ==
  /\ Serving /\ render[r].step = "queued"
  /\ render' = [render EXCEPT ![r].step = "drawn",
                              ![r].picture = Current(render[r].asset).content]
  /\ UNCHANGED <<settingsVars, moderationVars, stored, temp>>

(* record_thumbnail(), fail_thumbnail()                                      *)
Recorded(r, picture) ==
  revisions' = [revisions EXCEPT
    ![render[r].asset][render[r].revision].picture = picture]

GiveUpRender(r) ==
  /\ render[r].step = "queued"
  /\ Writes /\ OnlyChanges
  /\ Recorded(r, "failed")
  /\ render' = [render EXCEPT ![r] = NoRender]
  /\ UNCHANGED <<verdict, mark, found, scan, deleted, accessible, stored, temp>>

(* store(): the temporary file is named for the picture; to open it is to    *)
(* empty it, ...                                                             *)
OpenPicture(r) ==
  /\ Serving /\ render[r].step = "drawn"
  /\ temp' = [temp EXCEPT ![render[r].picture] = "partial"]
  /\ render' = [render EXCEPT ![r].step = "open", ![r].file = "temp"]
  /\ UNCHANGED <<settingsVars, moderationVars, stored>>

(* ... what is written goes into the file that was opened, whatever its name *)
(* is by then, ...                                                           *)
WritePicture(r) ==
  LET c == render[r].picture
  IN  /\ render[r].step = "open"
      /\ temp' = IF render[r].file = "temp"
                 THEN [temp EXCEPT ![c] = "whole"] ELSE temp
      /\ stored' = IF render[r].file = "stored"
                   THEN [stored EXCEPT ![c] = "whole"] ELSE stored
      /\ render' = [render EXCEPT ![r].step = "written"]
      /\ UNCHANGED <<settingsVars, moderationVars>>

(* ... and renaming fails if another one has renamed it.                     *)
Renamed(f) == CASE f = "temp" -> "stored" [] f = "stored" -> "gone"
                [] OTHER -> f
RenamePicture(r) ==
  LET c == render[r].picture
  IN  /\ render[r].step = "written"
      /\ IF temp[c] = "none"
         THEN /\ render' = [render EXCEPT ![r] = NoRender]
              /\ UNCHANGED <<stored, temp>>
         ELSE /\ stored' = [stored EXCEPT ![c] = temp[c]]
              /\ temp' = [temp EXCEPT ![c] = "none"]
              /\ render' = [q \in Renderers |->
                   IF render[q].picture # c THEN render[q]
                   ELSE [render[q] EXCEPT
                          !.file = Renamed(@),
                          !.step = IF q = r THEN "renamed" ELSE @]]
      /\ UNCHANGED <<settingsVars, moderationVars>>

RecordPicture(r) ==
  /\ render[r].step = "renamed"
  /\ Writes /\ OnlyChanges
  /\ Recorded(r, render[r].picture)
  /\ render' = [render EXCEPT ![r] = NoRender]
  /\ UNCHANGED <<verdict, mark, found, scan, deleted, accessible, stored, temp>>

(* A kill ends the handlers; a renderer outlives it until it hands in.       *)
ScansEnd ==
  /\ scan' = [s \in Scanners |-> NoScan]
  /\ render' = [r \in Renderers |->
       IF render[r].step \in {"queued", "drawn"} THEN render[r] ELSE NoRender]
  /\ UNCHANGED <<verdict, mark, found, revisions, deleted, accessible, stored,
                 temp>>

ScanNext ==
  \/ \E s \in Scanners, x \in Assets, c \in Contents : StartUpload(s, x, c)
  \/ \E s \in Scanners, x \in Assets : StartRescan(s, x)
  \/ \E s \in Scanners, v \in Verdicts : SaveScan(s, v)
  \/ \E s \in Scanners : EnforcePolicy(s) \/ Register(s)

AdminNext ==
  \/ \E x \in Assets, m \in Marks \cup {Nil} : Mark(x, m)
  \/ \E x \in Assets, restore \in BOOLEAN : DeleteOrRestore(x, restore)
  \/ \E a \in Accounts, x \in Assets : ChangeAccess(a, x)

RenderNext ==
  \/ \E r \in Renderers, x \in Assets : QueueRender(r, x)
  \/ \E r \in Renderers :
       \/ Draw(r) \/ GiveUpRender(r) \/ OpenPicture(r) \/ WritePicture(r)
       \/ RenamePicture(r) \/ RecordPicture(r)

----------------------------------------------------------------------------
ModerationTypeOK ==
  /\ verdict \in [Contents -> Verdicts \cup {Nil}]
  /\ mark \in [Contents -> Marks \cup {Nil}]
  /\ \A x \in Assets : revisions[x] \in
       Seq([content : Contents, picture : Pictures])
  /\ deleted \subseteq Assets
  /\ accessible \in [Accounts -> SUBSET Assets]
  /\ stored \in [Contents -> Files] /\ temp \in [Contents -> Files]

(* A verdict is what all scans together say, in whatever order they ended,   *)
(* failed or were repeated: R18 if one of them found it, otherwise CLEAN if  *)
(* one of them got that far.  So a scan that fails shows nothing that was    *)
(* blocked, and hides nothing that was seen to be clean.                     *)
VerdictsCommute ==
  \A c \in Contents :
    /\ "R18" \in found[c] <=> verdict[c] = "R18"
    /\ verdict[c] = "CLEAN" <=> "CLEAN" \in found[c] /\ "R18" \notin found[c]

(* thumbnails.rs:122: "Write-then-rename so a reader never observes a         *)
(* half-written thumbnail and a concurrent upload of the same bytes cannot    *)
(* interleave": a recorded picture has its whole file.                        *)
PicturesAreWhole ==
  \A x \in Assets : \A n \in DOMAIN revisions[x] :
    revisions[x][n].picture \in Contents
      => stored[revisions[x][n].picture] = "whole"

(* The shared temporary file is the only way to break a picture: while no two *)
(* renderers are between opening and renaming it for the same picture, what   *)
(* is recorded is whole, whatever is killed or fails.                          *)
Writing(r) == render[r].step \in {"open", "written"}
Apart ==
  \A r, q \in Renderers :
    Writing(r) /\ Writing(q) /\ render[r].picture = render[q].picture => r = q
OnlyRivalsBreakPictures == []Apart => []PicturesAreWhole

(* store.rs:2385: "Rejects the row when the revision is not the asset's       *)
(* current one": a revision gets no picture once another one follows it.      *)
StalePicturesAreRejected ==
  [][\A x \in Assets : \A n \in DOMAIN revisions[x] :
       revisions'[x][n].picture # revisions[x][n].picture
         => n = Len(revisions[x])]_revisions
=============================================================================
