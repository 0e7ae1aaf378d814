----------------------------- MODULE ConfigAdmin -----------------------------
(***************************************************************************)
(* The administration pages that save and delete connection files          *)
(* (app/routes/config.py: config_save, config_delete).  A save validates   *)
(* its payload against the driver and connection files, looks whether its  *)
(* target exists, fills <target>.tmp and moves that over the target, then  *)
(* clears the runtime cache.  Pages run in the thread pool without a lock, *)
(* so saves interleave at every file access.  Sharing is as on Windows,    *)
(* where the bridge is installed: a file somebody has open for writing     *)
(* cannot be moved.                                                        *)
(***************************************************************************)
EXTENDS FiniteSets
CONSTANTS
  Admins,     \* handlers that serve the pages
  Files,      \* names in config/connections; a payload's key names its file
  Template,   \* connection.json
  Edited,     \* files that someone may also edit by hand
  Flags,      \* what a form's overwrite field may say
  Mounts, Drivers,
  None,
  Torn        \* a file that is not valid JSON (an empty one, or two mixed)

ASSUME ConfigConstantsOK ==
  Template \in Files /\ Edited \subseteq Files \ {Template} /\ Flags \subseteq BOOLEAN

Doc == [mount: Mounts, driver: Drivers]      \* what a connection file says

ASSUME TornIsNoDoc == None \notin Doc \cup Files \cup {Torn} /\ Torn \notin Doc

VARIABLES
  disk,       \* the connection files; None if absent
  tmp,        \* <file>.tmp
  drivers,    \* the driver files there are
  pc,         \* where each handler is; idle before a page and after its answer
  from,       \* original_file: the file the editor had opened, None for a new one
  target,     \* target_file: the file the payload's key names
  draft,      \* the payload
  leave,      \* the form's overwrite flag
  unread,     \* connection files _connection_mounts has yet to read
  fault,      \* validation_errors is not empty
  \* history, read by the properties only
  contended,  \* another save had the handler's target.tmp in use as well
  unseen,     \* files whose present contents the save did not check
  skipped,    \* unseen, of the save that wrote the file; of a file written by
              \* hand or by a contended save, every file and the file itself
  unannounced \* a page changed a file and the cache was not cleared since

form    == <<from, target, draft, leave>>
history == <<contended, unseen, skipped, unannounced>>
vars    == <<disk, tmp, drivers, pc, form, unread, fault, history>>

Stages == {"idle", "drivers", "list", "mounts", "exists", "open", "fill", "replace",
           "unlink", "clear"}

(* unread never holds the template, which no mount check looks at.         *)
TypeOK ==
  /\ disk \in [Files -> Doc \cup {None, Torn}]
  /\ tmp \in [Files -> Doc \cup {None, Torn}]
  /\ drivers \subseteq Drivers
  /\ pc \in [Admins -> Stages]
  /\ from \in [Admins -> Files \cup {None}]
  /\ target \in [Admins -> Files \cup {None}]
  /\ draft \in [Admins -> Doc \cup {None}]
  /\ leave \in [Admins -> BOOLEAN]
  /\ unread \in [Admins -> SUBSET (Files \ {Template})]
  /\ fault \in [Admins -> BOOLEAN]
  /\ contended \in [Admins -> BOOLEAN]
  /\ unseen \in [Admins -> SUBSET Files]
  /\ skipped \in [Files -> SUBSET Files]
  /\ unannounced \in BOOLEAN

Clash(f, g) == disk[f] \in Doc /\ disk[g] \in Doc /\ disk[f].mount = disk[g].mount

(* The installed files: valid, with a mount of their own each.             *)
Init ==
  /\ disk \in [Files -> Doc \cup {None}]
  /\ \A f, g \in Files \ {Template} : f # g => ~Clash(f, g)
  /\ drivers \in SUBSET Drivers
  /\ tmp = [f \in Files |-> None]
  /\ pc = [a \in Admins |-> "idle"]
  /\ from = [a \in Admins |-> None]
  /\ target = [a \in Admins |-> None]
  /\ draft = [a \in Admins |-> None]
  /\ leave = [a \in Admins |-> FALSE]
  /\ unread = [a \in Admins |-> {}]
  /\ fault = [a \in Admins |-> FALSE]
  /\ contended = [a \in Admins |-> FALSE]
  /\ unseen = [a \in Admins |-> {}]
  /\ skipped = [f \in Files |-> {}]
  /\ unannounced = FALSE

Goto(a, l) == pc' = [pc EXCEPT ![a] = l]

(* The handler answers; what it knew is gone.                              *)
Answer(a) ==
  /\ Goto(a, "idle")
  /\ from' = [from EXCEPT ![a] = None]
  /\ target' = [target EXCEPT ![a] = None]
  /\ draft' = [draft EXCEPT ![a] = None]
  /\ leave' = [leave EXCEPT ![a] = FALSE]
  /\ unread' = [unread EXCEPT ![a] = {}]
  /\ fault' = [fault EXCEPT ![a] = FALSE]
  /\ contended' = [contended EXCEPT ![a] = FALSE]
  /\ unseen' = [unseen EXCEPT ![a] = {}]

(* A save that has listed the files and not yet written its own.           *)
Checking == {"mounts", "exists", "open", "fill", "replace"}

(* File f changed on the disk; u are the files its writer did not check.   *)
Changed(f, u) ==
  /\ skipped' = [g \in Files |-> IF g = f THEN u ELSE skipped[g] \ {f}]
  /\ unseen' = [b \in Admins |-> IF pc'[b] \in Checking THEN unseen[b] \cup {f} ELSE {}]

-----------------------------------------------------------------------------
(* config_save                                                             *)

ReadOnly(o, f) == Template \in {o, f}

Submit(a, o, f, c, overwrite) ==
  /\ pc[a] = "idle" /\ ~ReadOnly(o, f)
  /\ Goto(a, "drivers")
  /\ from' = [from EXCEPT ![a] = o]
  /\ target' = [target EXCEPT ![a] = f]
  /\ draft' = [draft EXCEPT ![a] = c]
  /\ leave' = [leave EXCEPT ![a] = overwrite]
  /\ UNCHANGED <<disk, tmp, drivers, unread, fault, history>>

(* "Connection driver ... does not exist."                                 *)
ReadDrivers(a) ==
  /\ pc[a] = "drivers"
  /\ fault' = [fault EXCEPT ![a] = draft[a].driver \notin drivers]
  /\ Goto(a, "list")
  /\ UNCHANGED <<disk, tmp, drivers, form, unread, history>>

(* exclude_file_name = original_file_name or target_file_name              *)
Excluded(a) == IF from[a] # None THEN from[a] ELSE target[a]

(* The files _json_files lists, but for the excluded one and the template. *)
Mut_ListedAll(a) == {f \in Files : disk[f] # None} \ {Excluded(a)}
Listed(a) == {f \in Files : disk[f] # None} \ {Excluded(a), Template}

List(a) ==
  /\ pc[a] = "list"
  /\ unread' = [unread EXCEPT ![a] = Listed(a)]
  /\ unseen' = [unseen EXCEPT ![a] = Listed(a) \cup ({Excluded(a)} \ {target[a]})]
  /\ Goto(a, "mounts")
  /\ UNCHANGED <<disk, tmp, drivers, form, fault, contended, skipped, unannounced>>

(* One wrong mount is an error, whatever is read after it.                 *)
Mut_FaultyNew(a, f) == fault[a] \/ (from[a] = None /\ disk[f].mount = draft[a].mount)
Faulty(a, f) == fault[a] \/ disk[f].mount = draft[a].mount

ReadMount(a, f) ==
  /\ pc[a] = "mounts" /\ f \in unread[a] /\ disk[f] \in Doc
  /\ fault' = [fault EXCEPT ![a] = Faulty(a, f)]
  /\ unread' = [unread EXCEPT ![a] = @ \ {f}]
  /\ unseen' = [unseen EXCEPT ![a] = @ \ {f}]
  /\ UNCHANGED <<disk, tmp, drivers, pc, form, contended, skipped, unannounced>>

(* A file deleted since it was listed, or not valid JSON, ends the save.   *)
UnreadableMount(a, f) ==
  /\ pc[a] = "mounts" /\ f \in unread[a] /\ disk[f] \notin Doc
  /\ Answer(a)
  /\ UNCHANGED <<disk, tmp, drivers, skipped, unannounced>>

(* With errors the answer is the editor, and "No file was written".        *)
Validated(a) ==
  /\ pc[a] = "mounts" /\ unread[a] = {}
  /\ IF fault[a] THEN Answer(a)
                 ELSE /\ Goto(a, "exists")
                      /\ UNCHANGED <<form, unread, fault, contended, unseen>>
  /\ UNCHANGED <<disk, tmp, drivers, skipped, unannounced>>

(* is_same_file_save, or overwrite                                         *)
Allowed(a) == from[a] = target[a] \/ leave[a]

Writable(a) == disk[target[a]] = None \/ Allowed(a)

(* Otherwise the answer asks whether to overwrite.                         *)
LookForTarget(a) ==
  /\ pc[a] = "exists"
  /\ IF Writable(a)
     THEN /\ Goto(a, "open")
          /\ unseen' = [unseen EXCEPT ![a] = @ \ {target[a]}]
          /\ UNCHANGED <<form, unread, fault, contended>>
     ELSE Answer(a)
  /\ UNCHANGED <<disk, tmp, drivers, skipped, unannounced>>

(* Handlers that are writing or about to move the same <file>.tmp.         *)
Rivals(a) == {b \in Admins \ {a} : target[b] = target[a] /\ pc[b] \in {"fill", "replace"}}

(* tmp_path.write_text: the file is opened and truncated, then filled.     *)
Mut_TruncateInPlace(f) ==
  tmp' = [tmp EXCEPT ![f] = Torn] /\ disk' = [disk EXCEPT ![f] = Torn]
Mut_TruncateNot(f) ==
  tmp' = [tmp EXCEPT ![f] = IF @ = None THEN Torn ELSE @] /\ UNCHANGED disk
Truncate(f) == tmp' = [tmp EXCEPT ![f] = Torn] /\ UNCHANGED disk

Open(a) ==
  /\ pc[a] = "open"
  /\ Truncate(target[a])
  /\ contended' = [b \in Admins |-> IF b = a THEN Rivals(a) # {}
                                    ELSE contended[b] \/ b \in Rivals(a)]
  /\ Goto(a, "fill")
  /\ UNCHANGED <<drivers, form, unread, fault, unseen, skipped, unannounced>>

(* Two that opened the file both write from its start: over a rival's      *)
(* longer text the tail of that is left.                                   *)
Fill(a) ==
  LET f == target[a] IN
  /\ pc[a] = "fill"
  /\ \E c \in {draft[a]} \cup (IF contended[a] \/ tmp[f] # Torn THEN {Torn} ELSE {}) :
       tmp' = [tmp EXCEPT ![f] = c]
  /\ Goto(a, "replace")
  /\ UNCHANGED <<disk, drivers, form, unread, fault, contended, unseen, skipped, unannounced>>

(* tmp_path.replace(path); Windows refuses it while a rival is writing.    *)
Movable(a) == tmp[target[a]] # None /\ \A b \in Rivals(a) : pc[b] # "fill"

Replace(a) ==
  LET f == target[a] IN
  /\ pc[a] = "replace" /\ Movable(a)
  /\ disk' = [disk EXCEPT ![f] = tmp[f]]
  /\ tmp' = [tmp EXCEPT ![f] = None]
  /\ Goto(a, "clear")
  /\ Changed(f, IF contended[a] THEN Files ELSE unseen[a] \ {f})
  /\ unannounced' = TRUE
  /\ contended' = [contended EXCEPT ![a] = FALSE]
  /\ UNCHANGED <<drivers, form, unread, fault>>

(* reload_connection_runtime_cache(), then the page.                       *)
Clear(a) ==
  /\ pc[a] = "clear"
  /\ unannounced' = FALSE
  /\ Answer(a)
  /\ UNCHANGED <<disk, tmp, drivers, skipped>>

(* A file access that fails ends the handler: the move of a file that is   *)
(* gone or in use always, any other one at times.                          *)
Fail(a) ==
  /\ pc[a] \in Stages \ {"idle", "clear"}
  /\ Answer(a)
  /\ UNCHANGED <<disk, tmp, drivers, skipped, unannounced>>

-----------------------------------------------------------------------------
(* config_delete                                                           *)

Delete(a, f) ==
  /\ pc[a] = "idle" /\ f # Template /\ disk[f] # None
  /\ Goto(a, "unlink")
  /\ target' = [target EXCEPT ![a] = f]
  /\ UNCHANGED <<disk, tmp, drivers, from, draft, leave, unread, fault, history>>

Mut_AfterUnlink == "idle"
AfterUnlink == "clear"

Unlink(a) ==
  LET f == target[a] IN
  /\ pc[a] = "unlink" /\ disk[f] # None
  /\ disk' = [disk EXCEPT ![f] = None]
  /\ Goto(a, AfterUnlink)
  /\ UNCHANGED tmp /\ Changed(f, {})
  /\ unannounced' = TRUE
  /\ UNCHANGED <<drivers, form, unread, fault, contended>>

-----------------------------------------------------------------------------
(* The same pages for the section "drivers", which validate nothing about  *)
(* connections; a whole page is one step here.                             *)
DriverPage(d) ==
  /\ drivers' \in {drivers \cup {d}, drivers \ {d}}
  /\ UNCHANGED <<disk, tmp, pc, form, unread, fault, history>>

HandEdit(f) ==
  /\ \E c \in Doc \cup {None, Torn} : disk' = [disk EXCEPT ![f] = c]
  /\ UNCHANGED <<tmp, pc>> /\ Changed(f, Files)
  /\ UNCHANGED <<drivers, form, unread, fault, contended, unannounced>>

(* The process is stopped anywhere and started again: no handler is left,  *)
(* the cache is empty, and so may be a tmp.                                *)
Restart ==
  /\ pc' = [a \in Admins |-> "idle"]
  /\ from' = [a \in Admins |-> None]
  /\ target' = [a \in Admins |-> None]
  /\ draft' = [a \in Admins |-> None]
  /\ leave' = [a \in Admins |-> FALSE]
  /\ unread' = [a \in Admins |-> {}]
  /\ fault' = [a \in Admins |-> FALSE]
  /\ contended' = [a \in Admins |-> FALSE]
  /\ unseen' = [a \in Admins |-> {}]
  /\ unannounced' = FALSE
  /\ UNCHANGED <<disk, tmp, drivers, skipped>>

-----------------------------------------------------------------------------
Save(a) ==
  \/ \E o \in Files \cup {None}, f \in Files, c \in Doc, overwrite \in Flags :
       Submit(a, o, f, c, overwrite)
  \/ ReadDrivers(a) \/ List(a)
  \/ \E f \in Files : ReadMount(a, f) \/ UnreadableMount(a, f)
  \/ Validated(a) \/ LookForTarget(a)
  \/ Open(a) \/ Fill(a) \/ Replace(a)

Next ==
  \/ \E a \in Admins : Save(a) \/ Clear(a) \/ Fail(a)
  \/ \E a \in Admins, f \in Files : Delete(a, f)
  \/ \E a \in Admins : Unlink(a)
  \/ \E d \in Drivers : DriverPage(d)
  \/ \E f \in Edited : HandEdit(f)
  \/ Restart

Spec == Init /\ [][Next]_vars

-----------------------------------------------------------------------------
(* Two connections share a mount only if one of them was saved without a   *)
(* look at the other as it is now: it was written in the meantime, or was  *)
(* the very file the editor had opened under another key.                  *)
MountsUnique ==
  \A f, g \in Files \ {Template} :
    f # g /\ Clash(f, g) => g \in skipped[f] \/ f \in skipped[g]

(* No failed, stopped or restarted save leaves a connection file that is   *)
(* not valid JSON; two saves that shared a tmp might.                      *)
FilesWhole == \A f \in Files : disk[f] = Torn => f \in skipped[f]

(* The runtime cache outlives no change made on a page, once the page has  *)
(* answered.                                                               *)
ChangesAnnounced == unannounced => \E a \in Admins : pc[a] = "clear"

(* What a save puts in place is its own payload, unless it shared the tmp; *)
(* and a save that was not told to overwrite replaces no file but the one  *)
(* the editor had opened, unless it appeared after the save had looked.    *)
Saves(a) == pc[a] = "replace" /\ pc'[a] = "clear"
SavesAsSubmitted ==
  [][\A a \in Admins : Saves(a) =>
       /\ ~contended[a] => disk'[target[a]] = draft[a]
       /\ disk[target[a]] # None /\ ~Allowed(a) => target[a] \in unseen[a]]_vars

(* "Connection mount ... is already used by ...": with one editor and no   *)
(* hand edits, no two connections get the same mount.                      *)
UsedMountIsRejected == \A f, g \in Files \ {Template} : f # g => ~Clash(f, g)
=============================================================================
